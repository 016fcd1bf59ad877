----------------------------- MODULE McpContract ------------------------------
(***************************************************************************)
(* What a client of the MCP server may rely on: a line it owes an answer   *)
(* to is answered once, in the order of the lines, and in the end; nothing *)
(* else is ever written. What the answers say is left out.                 *)
(***************************************************************************)
EXTENDS Naturals, Sequences, FiniteSetsExt, Functions

VARIABLES
  owed,     \* for each line the client has sent, whether it is owed an answer
  answered  \* the lines answered, as their answers came

contractVars == <<owed, answered>>

Waiting == {n \in DOMAIN owed : owed[n]} \ Range(answered)

ContractInit == owed = <<>> /\ answered = <<>>

Send == \E b \in BOOLEAN : owed' = Append(owed, b) /\ UNCHANGED answered

Answer ==
  /\ Waiting # {}
  /\ answered' = Append(answered, Min(Waiting))
  /\ UNCHANGED owed

ContractNext == Send \/ Answer

ContractSpec == ContractInit /\ [][ContractNext]_contractVars /\ WF_contractVars(Answer)
===============================================================================
