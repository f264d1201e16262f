---------------------------- MODULE SessionTabState ----------------------------
(***************************************************************************)
(* locks.rs: the persisted Session-Scoped Tab State of one session.         *)
(* A value of type Store is the decoded content of the state file.  The     *)
(* file is replaced by an atomic rename under an exclusive file lock, so a  *)
(* mutation is one step and a crash leaves the old or the new value.        *)
(***************************************************************************)
EXTENDS TabModel

Intent == [previous: Labels, intended: Labels, lifecycle: Evidence]

(* No intent is the absent Option.                                          *)
ASSUME NoneIsNoIntent == None \notin Intent

Store == [locks:     [Tabs -> Maybe(Labels)],
          baselines: [Tabs -> Maybe(Labels)],
          intents:   [Tabs -> Maybe(Intent)]]

EmptyStore ==
    [locks     |-> [t \in Tabs |-> None],
     baselines |-> [t \in Tabs |-> None],
     intents   |-> [t \in Tabs |-> None]]

IsLocked(s, t) == s.locks[t] # None

LockTab(s, t, label) == [s EXCEPT !.locks[t] = label]

RecordPluginLabel(s, t, label) == [s EXCEPT !.baselines[t] = label]

(* An unlock removes the baseline too, but only of a tab that was locked.   *)
UnlockTab(s, t) ==
    IF IsLocked(s, t)
    THEN [s EXCEPT !.locks[t] = None, !.baselines[t] = None]
    ELSE s

UnlockAll(s) ==
    [s EXCEPT !.locks     = [t \in Tabs |-> None],
              !.baselines = [t \in Tabs |-> IF IsLocked(s, t) THEN None
                                                              ELSE s.baselines[t]]]

DiscardTabState(s, t) == [s EXCEPT !.locks[t] = None, !.baselines[t] = None]

IsDefaultTabLabel(label, lifecycle) == NumberLabel[lifecycle] = label

(* A mistake to be caught (README, Mutants). *)
RecordIntentNotDurable(s, t, intent) == s
RecordIntent(s, t, intent) == [s EXCEPT !.intents[t] = intent]

DropIntent(s, t) == [s EXCEPT !.intents[t] = None]

-------------------------------------------------------------------------------
(* reconcile_automatic_rename_intent: what the next observation of a tab    *)
(* says about a rename whose outcome was never recorded.                    *)

ReconcileOutcome(s, t, visible, lifecycle) ==
    LET intent == s.intents[t]
    IN  CASE intent = None                            -> "no_intent"
          [] intent # None /\ (\/ intent.lifecycle # lifecycle
                               \/ IsDefaultTabLabel(visible, lifecycle))
                                                      -> "reused_tab"
          [] OTHER ->
               IF visible = intent.intended THEN "confirmed"
               ELSE IF visible = intent.previous THEN "source_unchanged"
               ELSE "manual_intent"

(* A mistake to be caught (README, Mutants). *)
ReconcileForgetsConfirmation(s, t, visible, lifecycle) ==
    LET out == ReconcileOutcome(s, t, visible, lifecycle)
    IN  CASE out = "no_intent"     -> s
          [] out = "reused_tab"    -> DiscardTabState(DropIntent(s, t), t)
          [] out = "manual_intent" -> LockTab(DropIntent(s, t), t, visible)
          [] OTHER                 -> DropIntent(s, t)

(* A mistake to be caught (README, Mutants). *)
ReconcileKeepsIntent(s, t, visible, lifecycle) ==
    LET out == ReconcileOutcome(s, t, visible, lifecycle)
    IN  CASE out = "reused_tab"    -> DiscardTabState(DropIntent(s, t), t)
          [] out = "confirmed"     ->
               RecordPluginLabel(s, t, s.intents[t].intended)
          [] out = "manual_intent" -> LockTab(DropIntent(s, t), t, visible)
          [] OTHER                 -> s

Reconcile(s, t, visible, lifecycle) ==
    LET out == ReconcileOutcome(s, t, visible, lifecycle)
    IN  CASE out = "no_intent"        -> s
          [] out = "reused_tab"       -> DiscardTabState(DropIntent(s, t), t)
          [] out = "confirmed"        ->
               RecordPluginLabel(DropIntent(s, t), t, s.intents[t].intended)
          [] out = "source_unchanged" -> DropIntent(s, t)
          [] out = "manual_intent"    -> LockTab(DropIntent(s, t), t, visible)

-------------------------------------------------------------------------------
(* detect_manual_lock: a label nobody but the user can have written.        *)
(* stable is the label two equal samples agree on, None while they do not.  *)

(* A mistake to be caught (README, Mutants). *)
DetectManualLockWithoutBaseline(visible, baseline, stable) ==
    baseline # visible /\ stable # visible

DetectManualLock(visible, baseline, stable) ==
    /\ baseline # None
    /\ baseline # visible
    /\ stable # visible
==============================================================================
