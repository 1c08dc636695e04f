------------------------ MODULE MCClusterRelocation ------------------------
(* Values for the model checker: one or two domains, a certificate that    *)
(* carries its domain's name and one that does not.                        *)
EXTENDS RelocationLifecycle

MCOriginal == [domain |-> "base", commonName |-> "base",
               addInternalDNSEntries |-> FALSE, acmRegistration |-> FALSE]
SpecA == [domain |-> "a", commonName |-> "a",
          addInternalDNSEntries |-> FALSE, acmRegistration |-> FALSE]
SpecB == [domain |-> "b", commonName |-> "b",
          addInternalDNSEntries |-> TRUE, acmRegistration |-> TRUE]
SpecBadName == [SpecA EXCEPT !.commonName = "other"]

GoodSpecs == {SpecA, SpecB}
OneSpec   == {SpecA}
BadSpecs  == {SpecBadName}
OnlyCluster == {"cluster"}
TwoNames    == {"cluster", "other"}
NoNames     == {}
Fresh  == {}
Stale  == {"Ingress"}
Never  == {FALSE}
Either == {FALSE, TRUE}
==============================================================================
