------------------------------- MODULE MCDNS -------------------------------
(* Two domains, with and without entries of the operator's own, one node   *)
(* or three.                                                               *)
EXTENDS DNS

MCObjects == {"relocation-dns-master"}
MCDomains == {"a", "b"}
MCData    == {"a", "b", "other"}
MCSpecs   == {[domain |-> "a", addInternalDNSEntries |-> TRUE],
              [domain |-> "b", addInternalDNSEntries |-> TRUE],
              [domain |-> "b", addInternalDNSEntries |-> FALSE]}
==============================================================================
