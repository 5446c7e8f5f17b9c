--------------------------- MODULE MCImportDeploy ---------------------------
(* Two tables and a chain of two generalized tables.                       *)
EXTENDS ImportDeploy

CONSTANTS roads, places, roadsGen1, roadsGen2

MCSource == [g \in {roadsGen1, roadsGen2} |-> IF g = roadsGen1 THEN roads ELSE roadsGen1]

Options(set) == [o \in Option |-> o \in set]

(* The commands of the tutorial, two that are refused among them.          *)
MCCommands ==
  {Options(s) : s \in {{"read", "overwrite", "diff", "write", "deploy"},
                       {"read", "diff"},
                       {"write", "diff", "optimize"}, {"write", "deploy"},
                       {"optimize"}, {"deploy"}, {"revert"}, {"remove"}, {"deploy", "remove"},
                       {"write", "revert"}, {"deploy", "revert"}}}

(* One import.                                                             *)
MCFirstImport == {Options({"read", "write", "deploy"})}
=============================================================================
