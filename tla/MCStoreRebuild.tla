--------------------------- MODULE MCStoreRebuild ---------------------------
(* Small instances of StoreRebuild for TLC. *)
EXTENDS StoreRebuild

CONSTANT ak

OneSource == {ak}
OneConsumer == {"es1"}
NoInvalid == {}
SecondInvalid == {2}
=============================================================================
