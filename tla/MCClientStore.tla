---------------------------- MODULE MCClientStore ----------------------------
(***************************************************************************)
(* The instance of ClientStore on which TLC checks that loading comes to   *)
(* an end (MCEdits has its safety properties): the roster is read by every *)
(* page, and the treasury page reads a section of its own.                 *)
(***************************************************************************)
EXTENDS ClientStore

MCSections == {"brothers", "treasury"}
MCPaths == {"chapter", "treasury"}
MCNeeds == [p \in MCPaths |-> {"brothers"} \cup (IF p = "treasury" THEN {"treasury"} ELSE {})]
=============================================================================
