----------------------------- MODULE MCServing -----------------------------
(* Certificates generated, copied and used in place; two domains.          *)
EXTENDS Serving

MCObjects == Made \cup Given \cup ClusterObjects
MCDomains == {"a", "b"}
MCTyped   == {<<"user", "k1">>, <<"user", "k2">>}
MCKeys    == {"k1", "k2", "k3", "k4", "k5", "k6", "k7", "k8"}
Bare      == {<<"", "">>}
MCData    == (MCDomains \X MCKeys) \cup (MCDomains \cup {""}) \X MCObjects \cup MCTyped
             \cup {<<"opaque", "k1">>} \cup Bare

Generated == [domain |-> "a", registryCert |-> TRUE, ingressCertRef |-> FALSE, apiCertRef |-> None]
Copied    == [domain |-> "b", registryCert |-> FALSE, ingressCertRef |-> TRUE, apiCertRef |-> "user"]
InPlace   == [domain |-> "b", registryCert |-> TRUE, ingressCertRef |-> FALSE,
              apiCertRef |-> "user-in-config"]
MCSpecs   == {Generated, Copied, InPlace}
Fresh     == {0}
==============================================================================
