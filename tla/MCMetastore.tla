---------------------------- MODULE MCMetastore ----------------------------
(***************************************************************************)
(* Metastore for TLC: one database and one schema, and a table whose name  *)
(* is spelled in both cases.                                               *)
(***************************************************************************)
EXTENDS Metastore

MCDatabases == {"d"}
MCSchemas == {"s"}
MCTables == {"n", "N"}

MCLower == [x \in MCDatabases \cup MCSchemas \cup MCTables |-> IF x = "N" THEN "n" ELSE x]

=============================================================================
