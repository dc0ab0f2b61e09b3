--------------------- MODULE MCExternalSecretLifecycle ---------------------
(* Scopes for model checking ExternalSecretLifecycle on its own.           *)
EXTENDS ExternalSecretLifecycle

CONSTANT n1

\* The namespace is watched, and excluded after a restart.
MayExclude == {Everywhere, [include |-> {}, exclude |-> {n1}]}
=============================================================================
