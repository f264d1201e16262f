---------------------------- MODULE MCTabRefresh ----------------------------
(* Values for the constants of TabRefresh, one unit being 500 ms, and the  *)
(* initial states the runs start from.                                     *)
EXTENDS TabRefresh

CONSTANTS MCStartLabels  \* labels Herdr or an earlier session left on the tabs

MCLabels == {"1", "a", "b", "x"}

Command   == [label |-> "a", source |-> "command"]
Directory == [label |-> "b", source |-> "directory"]
MCCandidates == {Command, Directory}

MCEvidence == {"e1", "e2"}
MCNumberLabel == [e \in MCEvidence |-> "1"]

MCInit ==
    /\ Init
    /\ label \in [Tabs -> MCStartLabels]
    /\ evidence = [t \in Tabs |-> "e1"]
    /\ focus # None

MCSpec == MCInit /\ [][Next]_vars
MCFairSpec == MCSpec /\ Fairness
============================================================================
