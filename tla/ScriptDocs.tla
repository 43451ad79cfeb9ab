----------------------------- MODULE ScriptDocs -----------------------------
(***************************************************************************)
(* What docs/SCRIPTING_API_L1.md says of the scripting API and the code    *)
(* does not do.  Each property is stated on ScriptEngine and is violated;  *)
(* the configurations ScriptDocs_*.cfg show how.                           *)
(***************************************************************************)
EXTENDS MCScriptEngine

\* "Handles strict mode execution failures in a safe way": while a script
\* runs, a Lua error it raises reaches the innermost protected call.  After
\* kafe.invoke or kafe.on caught a strict failure it does not.
ErrorsHaveAHandler == InScript => errorJmp = "live"

\* "Execute given function on each remote server with given role": kafe.on
\* reports a failure only after a host's function ended.  With the optional
\* third argument it never runs the function.
OnRunsTheFunction ==
    [][reply' = [by |-> "on", is |-> "false"] =>
           reply' = reply \/ RoleDepths # {}]_vars
=============================================================================
