---------------------------- MODULE MCProcedureCache ----------------------------
\* One airport; a fix, then a runway, which only the second version of its file has.
EXTENDS ProcedureCache

Legs  == <<"fix", "runway">>
Perms == Permutations(Thread)
=============================================================================
