-------------------------- MODULE TabRefreshHistory --------------------------
(***************************************************************************)
(* TabRefresh with a history variable, for what the documents promise of a  *)
(* whole evaluation.                                                        *)
(***************************************************************************)
EXTENDS TabRefresh

VARIABLE attempts   \* snapshots asked for by the current evaluation

historyVars == <<vars, attempts>>

HistoryInit == Init /\ attempts = 0

StartsSample == Due /\ NextKind(decision) = "observe"

CountAttempt ==
    attempts' = IF ~StartsSample THEN attempts
                ELSE IF decision.eval.active THEN attempts + 1 ELSE 1

HistoryNext ==
    \/ (ObserveFocusedTab \/ SnapshotFails) /\ CountAttempt
    \/ /\ \/ Environment \/ Control \/ Tick \/ IdleTick \/ InspectPane
          \/ RevalidateObservation \/ ConfirmCandidate \/ RenameTab \/ RenameFails
       /\ UNCHANGED attempts
    \/ (OwnerExits \/ OwnerStarts) /\ attempts' = 0

HistorySpec == HistoryInit /\ [][HistoryNext]_historyVars

(* One evaluation asks for at most three samples (CONTEXT.md, One-Shot      *)
(* Refresh: "It takes at most three samples at a 500 ms cadence").          *)
AtMostThreeSamples == attempts <= MaxSamples
==============================================================================
