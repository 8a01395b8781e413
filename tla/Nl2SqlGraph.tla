---------------------------- MODULE Nl2SqlGraph ----------------------------
(***************************************************************************)
(* One run of the NL2SQL graph (domains/data/graph.py; runtime_graph.py    *)
(* runs the same nodes): generate, validate through the gates, execute in  *)
(* the read-only sandbox, repair at most MaxRepair times, and format,      *)
(* reject or degrade.  The graph has no checkpoint and shares nothing: a   *)
(* state record goes through it.                                           *)
(*                                                                         *)
(* A SQL text is its version (0: generated, n: of repair n) and what the   *)
(* gates say of it: it passes, it is mistaken (parse-error, unknown-table) *)
(* or unsafe (every other reason).                                         *)
(***************************************************************************)
EXTENDS Naturals

CONSTANT MaxRepair    \* MAX_REPAIR_ATTEMPTS

ASSUME RepairAssumption == MaxRepair \in Nat

Kind == {"passes", "mistaken", "unsafe"}
NoSql == MaxRepair + 1    \* of a version: no such SQL

\* DataState: node is where it is, version and kind its sql, validated the
\* version of validated_sql, failed that of error, table that of the rows.
DataState ==
    [node : {"generate", "validate", "execute", "repair", "format", "reject",
             "degrade", "end", "raised"},
     version : 0 .. MaxRepair, kind : Kind,
     validated : 0 .. NoSql, failed : 0 .. NoSql, table : 0 .. NoSql,
     repairs : 0 .. NoSql]

Start == [node |-> "generate", version |-> 0, kind |-> "passes", validated |-> NoSql,
          failed |-> NoSql, table |-> NoSql, repairs |-> 0]

\* validate_sql: the reason the gates give, none for a SQL that passes.
Repairable(s) == s.kind = "mistaken"

RouteAfterValidate(s) ==
    CASE s.kind = "passes" -> "execute"
      [] Repairable(s) -> "repair"
      [] OTHER -> IF s.repairs > 0 THEN "degrade" ELSE "reject"

RouteAfterExecute(s) == IF s.failed # NoSql THEN "repair" ELSE "format"

-----------------------------------------------------------------------------
\* The nodes: the states a node may return, with the route taken from it.

\* What a model or the mock may write.
Written(s) == {[s EXCEPT !.node = "validate", !.kind = k] : k \in Kind}

\* generate_node: a SQL is written, or the model raises.
GenerateNode(s) == Written(s) \cup {[s EXCEPT !.node = "raised"]}

\* validate_node: the SQL it passes, none when it rejects.
ValidateNode(s) ==
    {[s EXCEPT !.validated = IF s.kind = "passes" THEN s.version ELSE NoSql,
               !.node = RouteAfterValidate(s)]}

\* execute_sql: rows (cut off beyond the limits), or a timeout or error.
Sandbox(s) == {[s EXCEPT !.failed = NoSql, !.table = s.validated],
               [s EXCEPT !.failed = s.validated, !.table = NoSql]}

\* execute_node: the error is kept for the repair.
ExecuteNode(s) == {[r EXCEPT !.node = RouteAfterExecute(r)] : r \in Sandbox(s)}

\* repair_sql: a new SQL of any kind.
Repaired(s) == {[r EXCEPT !.repairs = @ + 1, !.version = @ + 1] : r \in Written(s)}

\* Changed form of RepairNode: the repaired SQL goes to the sandbox as it is.
RepairSkipsGates(s) ==
    IF s.repairs + 1 > MaxRepair
      THEN {[s EXCEPT !.repairs = NoSql, !.node = "degrade"]}
      ELSE {[r EXCEPT !.node = "execute", !.validated = r.version] : r \in Repaired(s)}

\* repair_node: the repaired SQL must pass the gates again, until the
\* attempts are used up; the model may raise.
RepairNode(s) ==
    IF s.repairs + 1 > MaxRepair
      THEN {[s EXCEPT !.repairs = NoSql, !.node = "degrade"]}
      ELSE Repaired(s) \cup {[s EXCEPT !.node = "raised"]}

\* format_node; reject_node and degrade_node return an empty table.
FormatNode(s) == {[s EXCEPT !.node = "end"]}
RejectNode(s) == {[s EXCEPT !.node = "end", !.table = NoSql]}
DegradeNode(s) == {[s EXCEPT !.node = "end", !.table = NoSql, !.repairs = NoSql]}

\* The topology; the end and an exception have no next node.
Graph(s) ==
    CASE s.node = "generate" -> GenerateNode(s)
      [] s.node = "validate" -> ValidateNode(s)
      [] s.node = "execute" -> ExecuteNode(s)
      [] s.node = "repair" -> RepairNode(s)
      [] s.node = "format" -> FormatNode(s)
      [] s.node = "reject" -> RejectNode(s)
      [] s.node = "degrade" -> DegradeNode(s)
      [] OTHER -> {}
=============================================================================
