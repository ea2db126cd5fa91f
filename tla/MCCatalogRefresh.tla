---------------------------- MODULE MCCatalogRefresh ----------------------------
(* Small instances of CatalogRefresh for TLC.                              *)
EXTENDS CatalogRefresh

Scenario(versions, commands, removable, options) ==
  [versions |-> versions, commands |-> commands, removable |-> removable,
   options |-> options]

(* Refreshes behind each other, a command beside a refresh of its version, *)
(* and a command whose version is pruned under it.                         *)
AllScenarios == 
  {Scenario(3, 0, {2}, "both"), Scenario(2, 1, {2}, "both"), Scenario(3, 1, {}, "none")}

(* The publisher alone.                                                    *)
PublisherAlone == {Scenario(3, 0, {}, "none")}
=============================================================================
