---------------------- MODULE MCClusterExternalSecret ----------------------
(* Selections, access rules and scopes for model checking                  *)
(* ClusterExternalSecret and ExternalSecretLifecycle.                      *)
EXTENDS ClusterExternalSecret

CONSTANTS n1, n2

byLabel(labels) == [bad |-> FALSE, labels |-> labels, names |-> {}]
byName(names) == [bad |-> FALSE, labels |-> {}, names |-> names \cap Namespaces]
invalid == [bad |-> TRUE, labels |-> {}, names |-> {}]

\* The labelled namespaces, one by name, and one by name before a condition
\* that cannot be evaluated.
Selections == {<<byLabel({"in"})>>, <<byName({n1}), invalid, byName({n2})>>}
ByLabel == {<<byLabel({"in"})>>}
\* Everybody may use the store while it is there.
Anybody == {<<>>}

Unscoped == {Everywhere}
=============================================================================
