----------------------------- MODULE PackRegistry -----------------------------
(***************************************************************************)
(* Packs: discover imports the built-in packs and then the installed ones, *)
(* and importing a pack's modules fills the registries as a side effect. A *)
(* process discovers again and again, with other packs disabled (the MCP   *)
(* server does so for every tool call), and other code may import a pack's *)
(* modules first. What an earlier import left behind, complete or not, is  *)
(* what the next one meets.                                                *)
(*                                                                         *)
(* A module is the list of its statements that matter here: it registers a *)
(* pack, declares a check, imports a module, or raises.                    *)
(***************************************************************************)
EXTENDS Naturals, Sequences, FiniteSets

CONSTANTS
  Module,        \* the modules that can be imported
  Body,          \* Body[m]: the statements of module m
  Builtins,      \* the packs that ship with zombiescan, in order
  Installations, \* the lists of entry points that may be installed
  Disablings,    \* the sets of packs a discovery may be told to leave out
  Importable     \* the modules that other code may import by itself

Elements(s) == {s[i] : i \in DOMAIN s}

RegisterPack(name, compatible) == [does |-> "pack", what |-> name, compatible |-> compatible]
DeclareCheck(name) == [does |-> "check", what |-> name, compatible |-> TRUE]
ImportModule(m) == [does |-> "import", what |-> m, compatible |-> TRUE]
RaiseError == [does |-> "raise", what |-> "RuntimeError", compatible |-> TRUE]

Statement == [does : {"pack", "check", "import", "raise"}, what : STRING, compatible : BOOLEAN]
EntryPoint == [name : STRING, module : Module]

ASSUME PackAssumption ==
  /\ Module \subseteq STRING
  /\ Body \in [Module -> Seq(Statement)]
  /\ \A m \in Module : \A i \in DOMAIN Body[m] :
       Body[m][i].does = "import" => Body[m][i].what \in Module
  /\ Builtins \in Seq(EntryPoint)
  /\ Installations \subseteq Seq(EntryPoint)
  /\ Disablings \subseteq SUBSET STRING
  /\ Importable \subseteq Module

Does(m, kind) == {s.what : s \in {t \in Elements(Body[m]) : t.does = kind}}
Check == UNION {Does(m, "check") : m \in Module}

\* No pack's name, as an importable module's name is never empty.
NoPack == ""
AnyName == UNION {{e.name : e \in Elements(s)} : s \in Installations \cup {Builtins}}

\* A built-in pack registers itself and its checks, each once, and nothing else:
\* the modules of its directory, which only it imports, are one module here.
ASSUME BuiltinAssumption ==
  \A b \in Elements(Builtins) :
    LET body == Body[b.module] IN
    /\ RegisterPack(b.name, TRUE) \in Elements(body)
    /\ \A k \in DOMAIN body : body[k] = RegisterPack(b.name, TRUE) \/ body[k].does = "check"
    /\ \A j, k \in DOMAIN body :
         body[j].does = body[k].does /\ body[j].what = body[k].what => j = k
    /\ \A d \in Elements(Builtins) \ {b} :
         /\ d.name # b.name /\ d.module # b.module
         /\ Does(d.module, "check") \cap Does(b.module, "check") = {}

\* An entry point has a name.
ASSUME NameAssumption == NoPack \notin AnyName

VARIABLES
  entry_points,  \* what is installed
  pc,            \* what the process is at
  disabled,      \* the packs this discovery leaves out
  at,            \* the candidate it is at, 0 when none is running
  stack,         \* the modules being imported, and the statement each is at
  loading,       \* _LOADING
  modules,       \* sys.modules
  PACKS,         \* the names of the registered packs
  CHECKS,        \* CHECKS[c]: the pack check c is attributed to, or NoPack
  report,        \* the LoadReport
  last           \* history: the report before, of the same process undisturbed

registries == <<modules, PACKS, CHECKS>>
reports == <<report, last>>
vars == <<entry_points, pc, disabled, at, stack, loading, registries, reports>>

Candidates == Builtins \o entry_points
here == Candidates[at]
builtin == at <= Len(Builtins)

StackFrame == [module : Module, at : Nat \ {0}]
LoadReport ==
  [disabled : SUBSET STRING, loaded : Seq(AnyName), failed : Seq(AnyName), skipped : Seq(AnyName),
   end : {"none", "running", "returned", "aborted"}]

Empty == [disabled |-> {}, loaded |-> <<>>, failed |-> <<>>, skipped |-> <<>>, end |-> "none"]

TypeOK ==
  /\ entry_points \in Installations
  /\ pc \in {"idle", "choosing", "importing", "imported", "failed"}
  /\ disabled \in SUBSET STRING
  /\ at \in 0 .. Len(Candidates) + 1
  /\ stack \in Seq(StackFrame)
  /\ loading \in AnyName \cup {NoPack}
  /\ modules \subseteq Module
  /\ PACKS \subseteq STRING
  /\ CHECKS \in [Check -> AnyName \cup {"core", NoPack}]
  /\ report \in LoadReport /\ last \in LoadReport

Init ==
  /\ entry_points \in Installations
  /\ pc = "idle"
  /\ disabled = {}
  /\ at = 0
  /\ stack = <<>>
  /\ loading = NoPack
  /\ modules = {}
  /\ PACKS = {}
  /\ CHECKS = [c \in Check |-> NoPack]
  /\ report = Empty
  /\ last = Empty

-------------------------------------------------------------------------------
(***************************************************************************)
(* Importing: a module enters sys.modules before its first statement, and  *)
(* is taken out again when it raises; nothing it registered is. An import  *)
(* of a module that is there, or on its way, does nothing.                 *)
(***************************************************************************)
Frame(m) == [module |-> m, at |-> 1]
Below == SubSeq(stack, 1, Len(stack) - 1)
top == stack[Len(stack)]
Importing == pc = "importing" /\ stack # <<>>
statement == Body[top.module][top.at]
InStatement == Importing /\ top.at \in DOMAIN Body[top.module]
GoOn == stack' = Append(Below, [module |-> top.module, at |-> top.at + 1])

current_pack == IF loading = NoPack THEN "core" ELSE loading

Registered(c) == CHECKS[c] # NoPack

Registers ==
  /\ InStatement /\ statement.does = "pack"
  /\ statement.what \notin PACKS /\ statement.compatible
  /\ PACKS' = PACKS \cup {statement.what}
  /\ GoOn
  /\ UNCHANGED <<entry_points, pc, disabled, at, loading, modules, CHECKS, reports>>

Declares ==
  /\ InStatement /\ statement.does = "check"
  /\ ~ Registered(statement.what)
  /\ CHECKS' = [CHECKS EXCEPT ![statement.what] = current_pack]
  /\ GoOn
  /\ UNCHANGED <<entry_points, pc, disabled, at, loading, modules, PACKS, reports>>

Imports ==
  /\ InStatement /\ statement.does = "import"
  /\ LET onwards == Append(Below, [module |-> top.module, at |-> top.at + 1]) IN
     IF statement.what \in modules THEN stack' = onwards /\ UNCHANGED modules
     ELSE stack' = Append(onwards, Frame(statement.what)) /\ modules' = modules \cup {statement.what}
  /\ UNCHANGED <<entry_points, pc, disabled, at, loading, PACKS, CHECKS, reports>>

\* A module runs out of statements: its import is complete.
Completes ==
  /\ Importing /\ top.at \notin DOMAIN Body[top.module]
  /\ stack' = Below
  /\ UNCHANGED <<entry_points, pc, disabled, at, loading, registries, reports>>

Fails ==
  \/ statement.does = "raise"
  \/ statement.does = "pack" /\ (statement.what \in PACKS \/ ~ statement.compatible)
  \/ statement.does = "check" /\ Registered(statement.what)

InFlight == {stack[i].module : i \in DOMAIN stack}

\* Mutant of Raises: only the module that raised is taken out.
RaisesTakingOutOne ==
  /\ InStatement /\ Fails
  /\ modules' = modules \ {top.module}
  /\ stack' = <<>>
  /\ loading' = NoPack
  /\ pc' = IF at = 0 THEN "idle" ELSE "failed"
  /\ UNCHANGED <<entry_points, disabled, at, PACKS, CHECKS, reports>>

\* Mutant of Raises: without the finally, _LOADING stays as it was.
RaisesStillLoading ==
  /\ InStatement /\ Fails
  /\ modules' = modules \ InFlight
  /\ stack' = <<>>
  /\ pc' = IF at = 0 THEN "idle" ELSE "failed"
  /\ UNCHANGED <<entry_points, disabled, at, loading, PACKS, CHECKS, reports>>

\* The exception leaves every module that is being imported.
Raises ==
  /\ InStatement /\ Fails
  /\ modules' = modules \ InFlight
  /\ stack' = <<>>
  /\ loading' = NoPack
  /\ pc' = IF at = 0 THEN "idle" ELSE "failed"
  /\ UNCHANGED <<entry_points, disabled, at, PACKS, CHECKS, reports>>

Returns ==
  /\ pc = "importing" /\ stack = <<>>
  /\ loading' = NoPack
  /\ pc' = IF at = 0 THEN "idle" ELSE "imported"
  /\ UNCHANGED <<entry_points, disabled, at, stack, registries, reports>>

Enter(m) ==
  /\ pc' = "importing"
  /\ stack' = IF m \in modules THEN <<>> ELSE <<Frame(m)>>
  /\ modules' = modules \cup {m}

-------------------------------------------------------------------------------
(***************************************************************************)
(* discover: every candidate in turn, the built-in packs first.            *)
(***************************************************************************)
Discover(d) ==
  /\ pc = "idle"
  /\ pc' = "choosing"
  /\ disabled' = d
  /\ at' = 1
  /\ last' = report
  /\ report' = [Empty EXCEPT !.disabled = d, !.end = "running"]
  /\ UNCHANGED <<entry_points, stack, loading, registries>>

Skip ==
  /\ pc = "choosing" /\ at <= Len(Candidates)
  /\ here.name \in disabled
  /\ report' = [report EXCEPT !.skipped = Append(report.skipped, here.name)]
  /\ at' = at + 1
  /\ UNCHANGED <<entry_points, pc, disabled, stack, loading, registries, last>>

\* Mutant of Load: the module is executed again, as by importlib.reload.
LoadAgain ==
  /\ pc = "choosing" /\ at <= Len(Candidates)
  /\ here.name \notin disabled
  /\ loading' = here.name
  /\ pc' = "importing"
  /\ stack' = <<Frame(here.module)>>
  /\ modules' = modules \cup {here.module}
  /\ UNCHANGED <<entry_points, disabled, at, PACKS, CHECKS, reports>>

Load ==
  /\ pc = "choosing" /\ at <= Len(Candidates)
  /\ here.name \notin disabled
  /\ loading' = here.name
  /\ Enter(here.module)
  /\ UNCHANGED <<entry_points, disabled, at, PACKS, CHECKS, reports>>

Onwards == at' = at + 1 /\ pc' = "choosing"

Loaded ==
  /\ pc = "imported"
  /\ here.name \in PACKS
  /\ report' = [report EXCEPT !.loaded = Append(report.loaded, here.name)]
  /\ Onwards
  /\ UNCHANGED <<entry_points, disabled, stack, loading, registries, last>>

\* Imported, and no pack of that name: a failure, unless it is a built-in one.
NeverRegistered ==
  /\ pc = "imported"
  /\ here.name \notin PACKS
  /\ report' = IF builtin THEN report
               ELSE [report EXCEPT !.failed = Append(report.failed, here.name)]
  /\ Onwards
  /\ UNCHANGED <<entry_points, disabled, stack, loading, registries, last>>

\* Mutant of Failed: what it registered before it raised makes it loaded too.
FailedAndLoaded ==
  /\ pc = "failed" /\ ~ builtin
  /\ report' = [report EXCEPT !.failed = Append(report.failed, here.name),
                              !.loaded = IF here.name \in PACKS THEN Append(report.loaded, here.name)
                                         ELSE report.loaded]
  /\ Onwards
  /\ UNCHANGED <<entry_points, disabled, stack, loading, registries, last>>

\* Mutant of Failed: the pack after one that failed is passed over too.
FailedPassesTwo ==
  /\ pc = "failed" /\ ~ builtin
  /\ report' = [report EXCEPT !.failed = Append(report.failed, here.name)]
  /\ at' = at + 2 /\ pc' = "choosing"
  /\ UNCHANGED <<entry_points, disabled, stack, loading, registries, last>>

\* Mutant of Failed: a pack that failed is tried again.
FailedTriedAgain ==
  /\ pc = "failed" /\ ~ builtin
  /\ pc' = "choosing"
  /\ UNCHANGED <<entry_points, disabled, at, stack, loading, registries, reports>>

Failed ==
  /\ pc = "failed" /\ ~ builtin
  /\ report' = [report EXCEPT !.failed = Append(report.failed, here.name)]
  /\ Onwards
  /\ UNCHANGED <<entry_points, disabled, stack, loading, registries, last>>

End(how) ==
  /\ report' = [report EXCEPT !.end = how]
  /\ pc' = "idle"
  /\ at' = 0
  /\ UNCHANGED <<entry_points, disabled, stack, loading, registries, last>>

\* Nothing catches what a built-in pack raises.
Aborts == pc = "failed" /\ builtin /\ End("aborted")

Finishes == pc = "choosing" /\ at > Len(Candidates) /\ End("returned")

\* Other code in the process imports a module, and forgets the reports.
ImportElsewhere(m) ==
  /\ pc = "idle"
  /\ m \notin modules
  /\ Enter(m)
  /\ report' = Empty /\ last' = Empty
  /\ UNCHANGED <<entry_points, disabled, at, loading, PACKS, CHECKS>>

-------------------------------------------------------------------------------
Work ==
  \/ Registers \/ Declares \/ Imports \/ Completes \/ Raises \/ Returns
  \/ Skip \/ Load \/ Loaded \/ NeverRegistered \/ Failed \/ Aborts \/ Finishes

Next ==
  \/ Work
  \/ \E d \in Disablings : Discover(d)
  \/ \E m \in Importable : ImportElsewhere(m)

Spec == Init /\ [][Next]_vars

\* An import runs to its end: it waits for nothing.
FairSpec == Spec /\ WF_vars(Work)
-------------------------------------------------------------------------------
(***************************************************************************)
(* select_checks without --check: what a scan of this process would run.   *)
(***************************************************************************)
Selected == {c \in Check : Registered(c) /\ CHECKS[c] \notin disabled}

Names(s) == {e.name : e \in Elements(s)}
OwnChecks(m) == Does(m, "check")

(***************************************************************************)
(* A module in sys.modules has run to its end, unless it is being imported *)
(* now: everything it registers is registered, with what it imported left  *)
(* aside (a module imported in a circle may have failed and gone since). A *)
(* half-run module is never taken for an imported one, at the next         *)
(* discovery or by another pack (packs/__init__.py:125-145).               *)
(***************************************************************************)
InEffect(s) ==
  /\ s.does # "raise"
  /\ s.does = "pack" => s.what \in PACKS /\ s.compatible
  /\ s.does = "check" => Registered(s.what)

ModulesComplete ==
  \A m \in modules : m \in InFlight \/ \A k \in DOMAIN Body[m] : InEffect(Body[m][k])

(***************************************************************************)
(* What holds only beside packs that keep off the built-in ones' names: no *)
(* other module registers them, no entry point has them or "core", and     *)
(* what other code imports by itself is a built-in pack.                   *)
(***************************************************************************)
BuiltinModules == {b.module : b \in Elements(Builtins)}

NamesApart ==
  /\ \A s \in Installations : \A e \in Elements(s) : e.name \notin Names(Builtins) \cup {"core"}
  /\ \A m \in Module \ BuiltinModules : Does(m, "pack") \cap Names(Builtins) = {}
  /\ Importable \subseteq BuiltinModules

(***************************************************************************)
(* A discovery that returns has loaded every built-in pack that is not     *)
(* disabled, with its checks there to select, whatever failed beside them; *)
(* and one is cut short only by an installed pack that took the name of a  *)
(* built-in check in an earlier discovery, one that left the built-in pack *)
(* out (packs/__init__.py:170-176).                                        *)
(***************************************************************************)
Ready(b) == b.name \in Elements(report.loaded) /\ \A c \in OwnChecks(b.module) : Registered(c)
Taken(b) == \E c \in OwnChecks(b.module) : CHECKS[c] \notin {NoPack, "core", b.name}

BuiltinsLoad ==
  LET wanted == {b \in Elements(Builtins) : b.name \notin disabled} IN
  /\ report.end = "returned" => \A b \in wanted : Ready(b)
  /\ report.end = "aborted" => \E b \in wanted : Taken(b)

(***************************************************************************)
(* Whatever is installed beside them and however often packs are           *)
(* discovered, no discovery is cut short: a broken pack "must not cost you *)
(* the twelve checks that would have worked" (packs/__init__.py:161-167).  *)
(***************************************************************************)
BuiltinsStand == report.end # "aborted"

(***************************************************************************)
(* A discovery reports every pack once: as skipped if it was disabled, as  *)
(* loaded if its import is complete and its name taken, as failed          *)
(* otherwise (packs/__init__.py:161-203).                                  *)
(***************************************************************************)
EveryPackReported ==
  report.end = "returned" =>
    /\ Len(report.loaded) + Len(report.failed) + Len(report.skipped) = Len(Candidates)
    /\ \A e \in Elements(Candidates) :
         LET good == e.name \in PACKS /\ e.module \in modules IN
         /\ e.name \in Elements(report.skipped) <=> e.name \in disabled
         /\ e.name \in Elements(report.loaded) <=> e.name \notin disabled /\ good
         /\ e.name \in Elements(report.failed) <=> e.name \notin disabled /\ ~ good

(***************************************************************************)
(* A check is attributed to a pack whose import brought its module in, or  *)
(* to core when other code did: a failed import does not pass its name on  *)
(* to what is imported after it (packs/__init__.py:79-87, 122-133).        *)
(***************************************************************************)
Leads(S) == \A m \in S : Does(m, "import") \subseteq S
BroughtIn ==  \* the modules that importing m can bring in
  [m \in Module |-> {x \in Module : \A S \in SUBSET Module : m \in S /\ Leads(S) => x \in S}]
MayBring(name) ==
  {e.module : e \in {d \in Elements(Candidates) : d.name = name}}
    \cup (IF name = "core" THEN Importable ELSE {})

AttributedHonestly ==
  \A c \in Check : Registered(c) =>
    \E m \in MayBring(CHECKS[c]) : \E x \in BroughtIn[m] : c \in OwnChecks(x)

(***************************************************************************)
(* What a pack's fate in a discovery rests on, where it rests on that pack *)
(* alone: no other candidate has its name and no other module registers    *)
(* it, and nothing its import brings in is imported in a circle.           *)
(***************************************************************************)
OnTheirOwn(s) ==
  /\ \A i, j \in DOMAIN s : s[i].name = s[j].name => i = j
  /\ \A e \in Elements(s) :
       /\ \A m \in Module : e.name \in Does(m, "pack") => m = e.module
       /\ \A m \in BroughtIn[e.module] : \A y \in Does(m, "import") : m \notin BroughtIn[y]

Untangled == OnTheirOwn(Candidates)

(***************************************************************************)
(* Discovering again gives the same: what an earlier discovery registered  *)
(* makes no pack fail, and no failed pack look loaded (tests/test_packs.py:*)
(* 41-50).                                                                 *)
(***************************************************************************)
DiscoveryRepeats ==
  last.end = "returned" /\ last.disabled = report.disabled /\ report.end \in {"returned", "aborted"}
    => report = last

(***************************************************************************)
(* Every import comes to an end, also of packs that import each other, and *)
(* every discovery with it (packs/__init__.py:125-203).                    *)
(***************************************************************************)
DiscoveryEnds == pc # "idle" ~> pc = "idle"

(***************************************************************************)
(* What --disable-pack names contributes no check to the scan, also when a *)
(* pack was "already imported by something else in the process"            *)
(* (engine.py:119-128).                                                    *)
(***************************************************************************)
DisabledContributesNothing ==
  report.end = "returned" =>
    \A e \in Elements(Candidates) :
      e.name \in disabled => OwnChecks(e.module) \cap Selected = {}
===============================================================================
