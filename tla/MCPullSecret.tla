---------------------------- MODULE MCPullSecret ----------------------------
(* Two pull secrets and one secret of another type.                        *)
EXTENDS PullSecret

MCObjects == {"pull", "backup", "user"}
MCSpecs   == [pullSecretRef : BOOLEAN]
MCTyped   == {"old", "new"}
MCData    == MCTyped \cup {"opaque"}
FreshOrLate == {0, 1}
==============================================================================
