---------------------------- MODULE MCResources ----------------------------
(* A CatalogSource, keys and mirrors asked for or not, an upgrade that      *)
(* stops at a release candidate.                                            *)
EXTENDS Resources

MCCatalogs == {"c1"}
MCObjects  == {"core-ssh-key-master", "core-ssh-key-worker", "ICSP", "IDMS",
               "openshift-marketplace"} \cup MCCatalogs
MCData     == {"none", "workload", "keys", "mirrors", "image"}
MCReleases == <<"4.12", "4.13-rc", "4.13">>
All     == [sshKeys |-> "keys", imageDigestMirrors |-> "mirrors",
            catalogSources |-> [c1 |-> "image"]]
Little  == [sshKeys |-> None, imageDigestMirrors |-> None,
            catalogSources |-> <<>>]
MCSpecs == {All, Little}
==============================================================================
