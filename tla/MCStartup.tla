------------------------------ MODULE MCStartup ------------------------------
(* Instances of Startup for TLC.                                           *)
EXTENDS Startup

CONSTANTS
  old, new,   \* the two instances of a rolling deployment
  guest       \* one that may not create the stream, and wants too large a one

Single  == [replicas |-> 1, window |-> 1]
Cluster == [replicas |-> 3, window |-> 2]
Huge    == [replicas |-> 5, window |-> 2]

ThreeConfigs == {Single, Cluster, Huge}
ThreeServers == {c \in ThreeConfigs : c.replicas <= 3}
Deployed == [i \in {old, new, guest} |->
               CASE i = old -> Single [] i = new -> Cluster [] i = guest -> Huge]
InOrder == [i \in {old, new, guest} |->
              (Settings \union Permissions)
                \ CASE i = old   -> {"initial_block"}
                    [] i = new   -> {}
                    [] i = guest -> {"create"}]
=============================================================================
