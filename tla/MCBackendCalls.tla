--------------------------- MODULE MCBackendCalls ---------------------------
(* Configurations for model checking BackendCalls.                         *)
EXTENDS BackendCalls

nothing == [sa |-> FALSE, oidc |-> "none", role |-> FALSE, ak |-> "none", worker |-> FALSE]
withKey == [nothing EXCEPT !.ak = "pair"]
withRole == [nothing EXCEPT !.role = TRUE]

derived == ResolvedOidc("none", "known")
explicit == ResolvedOidc("valid", "known")

KeyOrNothing == {withKey, nothing}

\* One of a kind: each identity, each refusal, each rule of precedence.
StoreKinds == {
    [withRole EXCEPT !.sa = TRUE, !.oidc = derived],
    [nothing EXCEPT !.sa = TRUE, !.oidc = derived, !.worker = TRUE],
    [withRole EXCEPT !.oidc = explicit, !.ak = "pair"],
    [withRole EXCEPT !.oidc = derived, !.ak = "pair"],
    [withRole EXCEPT !.oidc = derived, !.ak = "half"],
    [withKey EXCEPT !.worker = TRUE],
    [nothing EXCEPT !.worker = TRUE] }
BadOrNot == {{}, {"kms"}}
=============================================================================
