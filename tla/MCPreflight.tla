----------------------------- MODULE MCPreflight -----------------------------
(* Two interchangeable callers, one runtime identity, and a command without *)
(* projected use, so that run-local goes on to execute it.                  *)
EXTENDS Preflight, TLC

OneIdentity == <<"tree">>

CallersAreAlike == Permutations(Callers)
=============================================================================
