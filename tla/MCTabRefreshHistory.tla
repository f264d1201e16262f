------------------------- MODULE MCTabRefreshHistory -------------------------
(* The values of MCTabRefresh for the specification with history.           *)
EXTENDS TabRefreshHistory, MCTabRefresh

MCHistorySpec == HistoryInit /\ MCInit /\ [][HistoryNext]_historyVars
==============================================================================
