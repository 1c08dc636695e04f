------------------------------- MODULE MCACM -------------------------------
(* Two hubs, one of them with an addon configuration.                      *)
EXTENDS ACM

TwoHubs   == {"h1", "h2"}
MCObjects == Manifests \cup {"acm-secret"}
MCTyped   == TwoHubs \X Rights
MCData    == TwoHubs \cup TwoHubs \X (Rights \cup {"none"})
MCSpecs   == {None, [hub |-> "h1", addon |-> TRUE], [hub |-> "h2", addon |-> FALSE]}
Moved     == [hub : TwoHubs, addon : {FALSE}]
==============================================================================
