--------------------------- MODULE MCScriptEngine ---------------------------
(* A small instance of ScriptEngine.  Two servers share a role in the      *)
(* environment of the run, which has a second role without a server: its   *)
(* only server belongs to another environment.                             *)
EXTENDS ScriptEngine

CONSTANTS r1, r2, web, db, staging, production, deploy, restart

Item(remote, environment, role) ==
    [remote |-> remote, environment |-> environment, role |-> role]

MCItems == {Item(r1, staging, web), Item(r2, staging, web),
            Item(r1, production, db)}
MCRequested == <<deploy, restart>>
=============================================================================
