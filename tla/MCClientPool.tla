---------------------------- MODULE MCClientPool ----------------------------
(* Small instances of ClientPool for TLC.                                  *)
EXTENDS ClientPool, TLC

uses(provider, endpoints) == [provider |-> provider, uses |-> endpoints]

CONSTANTS e1, e2
Two == {e1, e2}
Symmetry == Permutations(Two)

\* One custom endpoint, or none.
OneBackend == {uses("kms", {"ep"}), uses("kms", {"plain"})}

\* The backend is switched while the endpoint stays.
TwoBackends == {uses("kms", {"ep"}), uses("oos", {"ep"})}
=============================================================================
