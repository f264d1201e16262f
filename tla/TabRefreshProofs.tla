--------------------------- MODULE TabRefreshProofs ---------------------------
(***************************************************************************)
(* Theorems about TabRefresh, and TabRefreshHistory, for every value of     *)
(* their constants.                                                         *)
(***************************************************************************)
EXTENDS TabRefreshHistory, TLAPS

USE DEF Maybe

-------------------------------------------------------------------------------
(* What the operators of the decision policy return.                        *)

(* The candidate that counts is one of those offered.                       *)
LEMMA EffectiveType ==
    ASSUME NEW s \in StabilityState, NEW c \in Candidates
    PROVE  Effective(s, c) \in Candidates
  BY DEF Effective, StabilityState

LEMMA ObserveType ==
    ASSUME NEW s \in StabilityState, NEW c \in Candidates
    PROVE  Observe(s, c) \in StabilityState
  <1>1. Effective(s, c) \in Candidates
    BY EffectiveType
  <1>2. Consecutive(s, Effective(s, c)) \in 0..CountLimit
    BY DEF Consecutive, StabilityState, CountLimit
  <1> QED
    BY <1>1, <1>2, StabilityConstants DEF Observe, StabilityState

LEMMA NewStabilityType == NewStability \in StabilityState
  BY StabilityConstants DEF NewStability, StabilityState, CountLimit

LEMMA LessType ==
    ASSUME NEW k \in Nat, NEW n \in 0..k
    PROVE  Less(n) \in 0..k
  BY DEF Less

LEMMA NoEvaluationType == NoEvaluation \in Evaluation
  BY DecisionConstants DEF NoEvaluation, Evaluation

LEMMA NewDecisionType == NewDecisionState \in DecisionState
  BY NoEvaluationType, NewStabilityType, DecisionConstants
  DEF NewDecisionState, DecisionState, NoHistory

LEMMA NoteTriggerType ==
    ASSUME NEW d
    PROVE  NoteTrigger(d) \in DecisionState
  BY NoEvaluationType, NewStabilityType, DecisionConstants
  DEF NoteTrigger, DecisionState, NoHistory

LEMMA CompleteType ==
    ASSUME NEW d \in DecisionState
    PROVE  Complete(d) \in DecisionState
  BY NoEvaluationType, NewStabilityType DEF Complete, DecisionState, NoHistory

LEMMA BeginType ==
    ASSUME NEW d \in DecisionState
    PROVE  Begin(d) \in DecisionState
  BY NewStabilityType, DecisionConstants
  DEF Begin, DecisionState, NoHistory, Evaluation

LEMMA ElapseType ==
    ASSUME NEW d \in DecisionState
    PROVE  Elapse(d) \in DecisionState
  <1>1. /\ Less(d.quiet) \in 0..Quiet
        /\ d.trigger # None => Less(d.trigger) \in 0..Deadline
        /\ Less(d.eval.left) \in 0..Deadline
        /\ Less(d.eval.again) \in 0..Poll
        /\ \A t \in Tabs : Less(d.stability[t].grace) \in 0..Grace
    BY LessType, DecisionConstants, StabilityConstants, NoneIsFresh
    DEF DecisionState, Evaluation, StabilityState
  <1> QED
    BY <1>1 DEF Elapse, DecisionState, Evaluation, StabilityState

LEMMA ResetTabType ==
    ASSUME NEW d \in DecisionState, NEW t \in Tabs
    PROVE  ResetTab(d, t) \in DecisionState
  BY NewStabilityType DEF ResetTab, DecisionState

LEMMA RecordSampleType ==
    ASSUME NEW d \in DecisionState, NEW complete \in BOOLEAN
    PROVE  RecordSample(d, complete) \in DecisionState
  <1>1. CASE complete \/ d.eval.samples + 1 >= MaxSamples
    BY <1>1, CompleteType DEF RecordSample
  <1>2. CASE ~(complete \/ d.eval.samples + 1 >= MaxSamples)
    <2>1. RecordSample(d, complete) =
            [d EXCEPT !.eval.samples = d.eval.samples + 1, !.eval.again = Poll]
      BY <1>2, Zenon DEF RecordSample
    <2>2. d.eval.samples + 1 \in 0..MaxSamples /\ Poll \in 0..Poll
      BY <1>2, DecisionConstants DEF DecisionState, Evaluation
    <2> QED
      BY <2>1, <2>2 DEF DecisionState, Evaluation
  <1> QED
    BY <1>1, <1>2

LEMMA AfterDecisionType ==
    ASSUME NEW d \in DecisionState, NEW t \in Tabs, NEW c \in Maybe(Candidates), NEW kind
    PROVE  AfterDecision(d, t, c, kind) \in DecisionState
  <1> DEFINE observed == IF c = None THEN d
                         ELSE [d EXCEPT !.stability[t] = Observe(d.stability[t], c)]
  <1>1. d.stability[t] \in StabilityState
    BY DEF DecisionState
  <1>2. observed \in DecisionState
    <2>1. CASE c = None
      BY <2>1
    <2>2. CASE c # None
      <3>1. Observe(d.stability[t], c) \in StabilityState
        BY <1>1, <2>2, ObserveType
      <3> HIDE DEF StabilityState
      <3> QED
        BY <2>2, <3>1 DEF DecisionState
    <2> QED
      BY <2>1, <2>2
  <1> QED
    BY <1>2, RecordSampleType DEF AfterDecision

(* What a decision carries: a rename and a baseline name a label.           *)
LEMMA DecisionLabel ==
    ASSUME NEW d \in DecisionState, NEW t \in Tabs, NEW c \in Maybe(Candidates),
           NEW visible \in Labels, NEW baseline
    PROVE  Decision(d, t, c, visible, baseline).kind # "skip_no_candidate"
             => Decision(d, t, c, visible, baseline).label \in Labels
  <1>1. CASE c = None
    BY <1>1 DEF Decision
  <1>2. CASE c # None
    <2>1. Effective(d.stability[t], c) \in Candidates
      BY <1>2, EffectiveType DEF DecisionState
    <2>2. /\ c.label \in Labels
          /\ StableLabel(d, t, c) \in Maybe(Labels)
      BY <1>2, <2>1, DataTypes DEF StableLabel
    <2> QED
      BY <1>2, <2>2 DEF Decision
  <1> QED
    BY <1>1, <1>2

-------------------------------------------------------------------------------
(* What the operators of the store return.                                  *)

LEMMA EmptyStoreType == EmptyStore \in Store
  BY DEF EmptyStore, Store

LEMMA StoreEditTypes ==
    ASSUME NEW s \in Store, NEW t \in Tabs
    PROVE  /\ \A l \in Labels : LockTab(s, t, l) \in Store
           /\ \A l \in Labels : RecordPluginLabel(s, t, l) \in Store
           /\ UnlockTab(s, t) \in Store
           /\ UnlockAll(s) \in Store
           /\ DiscardTabState(s, t) \in Store
           /\ DropIntent(s, t) \in Store
           /\ \A i \in Intent : RecordIntent(s, t, i) \in Store
  BY DEF Store, LockTab, RecordPluginLabel, UnlockTab, UnlockAll,
         DiscardTabState, DropIntent, RecordIntent

LEMMA ReconcileType ==
    ASSUME NEW s \in Store, NEW t \in Tabs, NEW l \in Labels, NEW e \in Evidence
    PROVE  Reconcile(s, t, l, e) \in Store
  <1> DEFINE out == ReconcileOutcome(s, t, l, e)
  <1>1. CASE s.intents[t] = None
    BY <1>1 DEF Reconcile, ReconcileOutcome
  <1>2. CASE s.intents[t] # None
    <2>1. s.intents[t].intended \in Labels
      BY <1>2 DEF Store, Intent
    <2>2. out \in {"reused_tab", "confirmed", "source_unchanged", "manual_intent"}
      BY <1>2 DEF ReconcileOutcome
    <2>3. DropIntent(s, t) \in Store
      BY StoreEditTypes
    <2>4. /\ DiscardTabState(DropIntent(s, t), t) \in Store
          /\ LockTab(DropIntent(s, t), t, l) \in Store
          /\ RecordPluginLabel(DropIntent(s, t), t, s.intents[t].intended) \in Store
      BY <2>1, <2>3, StoreEditTypes
    <2> HIDE DEF out
    <2> QED
      BY <2>2, <2>3, <2>4 DEF Reconcile, out
  <1> QED
    BY <1>1, <1>2

-------------------------------------------------------------------------------
(* Type correctness.                                                        *)

(* The two ways a tick ends keep the memory of the runtime well typed.      *)
LEMMA EndTickType ==
    ASSUME NEW d \in DecisionState, EndTick(d), running \in BOOLEAN
    PROVE  /\ running' = running /\ phase' = "wait" /\ sample' = None
           /\ decision' \in DecisionState /\ nextTick' \in 0..Period
  <1>1. NextSampleIn(d) \in 0..Period
    BY RefreshConstants, DecisionConstants DEF NextSampleIn, DecisionState, Evaluation
  <1> QED
    BY <1>1 DEF EndTick

LEMMA InitType == Init => TypeOK
  <1> SUFFICES ASSUME Init PROVE TypeOK
    OBVIOUS
  <1> USE DEF Init
  <1>1. HerdrOK
    BY DEF HerdrOK, Authors
  <1>2. DiskOK
    BY EmptyStoreType DEF DiskOK
  <1>3. RuntimeOK
    <2>1. nextTick \in 0..Period
      BY RefreshConstants
    <2>2. phase = "wait" /\ sample = None /\ running \in BOOLEAN /\ decision \in DecisionState
      BY NewDecisionType
    <2> QED
      BY <2>1, <2>2 DEF RuntimeOK, Phases
  <1>4. HistoryOK
    BY RefreshConstants DEF HistoryOK
  <1> QED
    BY <1>1, <1>2, <1>3, <1>4 DEF TypeOK

(* What a step leaves alone stays well typed.                               *)
LEMMA UnchangedTypes ==
    /\ HerdrOK /\ UNCHANGED herdrVars => HerdrOK'
    /\ DiskOK /\ UNCHANGED diskVars => DiskOK'
    /\ RuntimeOK /\ UNCHANGED runtimeVars => RuntimeOK'
    /\ HistoryOK /\ UNCHANGED <<claim, churn>> => HistoryOK'
    /\ HistoryOK /\ Spend => churn' \in 0..MaxChurn
  <1>1. HerdrOK /\ UNCHANGED herdrVars => HerdrOK'
    BY DEF HerdrOK, herdrVars
  <1>2. DiskOK /\ UNCHANGED diskVars => DiskOK'
    BY DEF DiskOK, diskVars
  <1>3. RuntimeOK /\ UNCHANGED runtimeVars => RuntimeOK'
    BY DEF RuntimeOK, runtimeVars
  <1>4. HistoryOK /\ UNCHANGED <<claim, churn>> => HistoryOK'
    BY DEF HistoryOK
  <1>5. HistoryOK /\ Spend => churn' \in 0..MaxChurn
    BY RefreshConstants DEF HistoryOK, Spend
  <1> QED
    BY <1>1, <1>2, <1>3, <1>4, <1>5

LEMMA MarkType ==
    ASSUME NEW t, NEW l, NEW who \in Authors
    PROVE  Mark(t, l, who) \in {who, "stray"} /\ Mark(t, l, who) \in Authors
  BY DEF Mark, Authors

LEMMA EnvironmentType == TypeOK /\ Environment => TypeOK'
  <1> SUFFICES ASSUME HerdrOK, DiskOK, RuntimeOK, HistoryOK, Environment
               PROVE  HerdrOK' /\ DiskOK' /\ RuntimeOK' /\ HistoryOK'
    BY DEF TypeOK
  <1>1. ASSUME NEW t \in Tabs, NEW l \in Labels, UserRename(t, l)
        PROVE  HerdrOK' /\ DiskOK' /\ RuntimeOK' /\ HistoryOK'
    <2>1. CanKnow(t, l) \in BOOLEAN
      BY DEF CanKnow
    <2>2. HerdrOK'
      BY <1>1 DEF UserRename, HerdrOK, Authors
    <2>3. HistoryOK'
      BY <1>1, <2>1, UnchangedTypes DEF UserRename, HistoryOK
    <2> QED
      BY <1>1, <2>2, <2>3, UnchangedTypes DEF UserRename
  <1>2. ASSUME NEW t \in Tabs, NEW c \in Maybe(Candidates), ProgramChange(t, c)
        PROVE  HerdrOK' /\ DiskOK' /\ RuntimeOK' /\ HistoryOK'
    <2>1. HerdrOK'
      BY <1>2 DEF ProgramChange, HerdrOK
    <2>2. HistoryOK'
      BY <1>2, UnchangedTypes DEF ProgramChange, HistoryOK
    <2> QED
      BY <1>2, <2>1, <2>2, UnchangedTypes DEF ProgramChange
  <1>3. ASSUME NEW t \in Maybe(Tabs), FocusChange(t)
        PROVE  HerdrOK' /\ DiskOK' /\ RuntimeOK' /\ HistoryOK'
    <2>1. HerdrOK'
      BY <1>3 DEF FocusChange, HerdrOK
    <2>2. HistoryOK'
      BY <1>3, UnchangedTypes DEF FocusChange, HistoryOK
    <2> QED
      BY <1>3, <2>1, <2>2, UnchangedTypes DEF FocusChange
  <1>4. ASSUME NEW t \in Tabs, NEW e \in Evidence, ViewChange(t, e)
        PROVE  HerdrOK' /\ DiskOK' /\ RuntimeOK' /\ HistoryOK'
    <2>1. HerdrOK'
      BY <1>4 DEF ViewChange, HerdrOK
    <2>2. HistoryOK'
      BY <1>4, UnchangedTypes DEF ViewChange, HistoryOK
    <2> QED
      BY <1>4, <2>1, <2>2, UnchangedTypes DEF ViewChange
  <1>5. ASSUME NEW t \in Tabs, NEW e \in Evidence, ReuseTab(t, e)
        PROVE  HerdrOK' /\ DiskOK' /\ RuntimeOK' /\ HistoryOK'
    <2>1. NumberLabel[e] \in Labels
      BY <1>5, DataTypes DEF ReuseTab
    <2>2. HerdrOK'
      BY <1>5, <2>1, MarkType DEF ReuseTab, HerdrOK, Authors
    <2>3. HistoryOK'
      BY <1>5, UnchangedTypes DEF ReuseTab, HistoryOK
    <2> QED
      BY <1>5, <2>2, <2>3, UnchangedTypes DEF ReuseTab
  <1>6. ASSUME NEW r \in late, LateRename(r)
        PROVE  HerdrOK' /\ DiskOK' /\ RuntimeOK' /\ HistoryOK'
    <2>1. late \in SUBSET Late /\ r.tab \in Tabs /\ r.label \in Labels
      BY DEF HerdrOK, Late
    <2>2. HerdrOK'
      BY <1>6, <2>1, MarkType DEF LateRename, HerdrOK, Authors
    <2>3. HistoryOK'
      BY <1>6, <2>1 DEF LateRename, HistoryOK
    <2> QED
      BY <1>6, <2>2, <2>3, UnchangedTypes DEF LateRename
  <1>7. ASSUME DamageStore
        PROVE  HerdrOK' /\ DiskOK' /\ RuntimeOK' /\ HistoryOK'
    <2>1. DiskOK'
      BY <1>7 DEF DamageStore, DiskOK
    <2>2. HistoryOK'
      BY <1>7, UnchangedTypes DEF DamageStore, HistoryOK
    <2> QED
      BY <1>7, <2>1, <2>2, UnchangedTypes DEF DamageStore
  <1> QED
    BY <1>1, <1>2, <1>3, <1>4, <1>5, <1>6, <1>7 DEF Environment

LEMMA ControlType == TypeOK /\ Control => TypeOK'
  <1> SUFFICES ASSUME HerdrOK, DiskOK, RuntimeOK, HistoryOK, Control
               PROVE  HerdrOK' /\ DiskOK' /\ RuntimeOK' /\ HistoryOK'
    BY DEF TypeOK
  <1>1. ASSUME NEW d \in DecisionState, decision' = NoteTrigger(d), nextTick' = Quiet,
               UNCHANGED <<running, phase, sample>>
        PROVE  RuntimeOK'
    <2>1. decision' \in DecisionState /\ nextTick' \in 0..Period
      BY <1>1, NoteTriggerType, RefreshConstants, DecisionConstants
    <2> QED
      BY <1>1, <2>1 DEF RuntimeOK
  <1>2. decision \in DecisionState /\ Complete(decision) \in DecisionState
    BY CompleteType DEF RuntimeOK
  <1>3. CASE Trigger
    <2>1. RuntimeOK'
      BY <1>1, <1>2, <1>3 DEF Trigger, NoteRefreshTrigger
    <2>2. HistoryOK'
      BY <1>3, UnchangedTypes DEF Trigger, HistoryOK
    <2> QED
      BY <1>3, <2>1, <2>2, UnchangedTypes DEF Trigger
  <1>4. CASE UnlockFocused
    <2>1. RuntimeOK'
      BY <1>1, <1>2, <1>4 DEF UnlockFocused, NoteRefreshTrigger
    <2>2. HistoryOK'
      BY <1>4, UnchangedTypes DEF UnlockFocused, HistoryOK
    <2>3. focus \in Tabs \cup {None}
      BY DEF HerdrOK
    <2>4. DiskOK'
      BY <1>4, <2>3, StoreEditTypes DEF UnlockFocused, DiskOK
    <2> QED
      BY <1>4, <2>1, <2>2, <2>4, UnchangedTypes DEF UnlockFocused
  <1>5. CASE UnlockAllTabs
    <2>1. RuntimeOK'
      BY <1>1, <1>2, <1>5 DEF UnlockAllTabs, NoteRefreshTrigger
    <2>2. HistoryOK'
      <3>1. \A t \in Tabs : (claim[t] /\ ~IsLocked(store, t)) \in BOOLEAN
        OBVIOUS
      <3> QED
        BY <1>5, <3>1, UnchangedTypes DEF UnlockAllTabs, HistoryOK
    <2>3. DiskOK'
      <3>1. UnlockAll(store) \in Store
        BY DEF UnlockAll, DiskOK, Store
      <3> QED
        BY <1>5, <3>1 DEF UnlockAllTabs, DiskOK
    <2> QED
      BY <1>5, <2>1, <2>2, <2>3, UnchangedTypes DEF UnlockAllTabs
  <1>6. CASE RepairDiscard
    <2>1. RuntimeOK'
      BY <1>1, <1>2, <1>6, UnchangedTypes DEF RepairDiscard, NoteRefreshTrigger, runtimeVars
    <2>2. HistoryOK'
      BY <1>6, UnchangedTypes DEF RepairDiscard, HistoryOK
    <2>3. DiskOK'
      BY <1>6, EmptyStoreType DEF RepairDiscard, DiskOK
    <2> QED
      BY <1>6, <2>1, <2>2, <2>3, UnchangedTypes DEF RepairDiscard
  <1>7. CASE ForgetSession
    <2>1. HistoryOK'
      BY <1>7, UnchangedTypes DEF ForgetSession, HistoryOK
    <2>2. DiskOK'
      BY <1>7, EmptyStoreType DEF ForgetSession, DiskOK
    <2> QED
      BY <1>7, <2>1, <2>2, UnchangedTypes DEF ForgetSession
  <1>8. CASE ReloadConfig
    <2>1. RuntimeOK'
      BY <1>1, <1>2, <1>8 DEF ReloadConfig
    <2>2. HistoryOK'
      BY <1>8, UnchangedTypes DEF ReloadConfig, HistoryOK
    <2>3. HerdrOK'
      BY <1>8 DEF ReloadConfig, HerdrOK
    <2> QED
      BY <1>8, <2>1, <2>2, <2>3, UnchangedTypes DEF ReloadConfig
  <1> QED
    BY <1>3, <1>4, <1>5, <1>6, <1>7, <1>8 DEF Control

(* The steps of a sample.                                                   *)
LEMMA ObserveFocusedTabType == TypeOK /\ ObserveFocusedTab => TypeOK'
  <1> SUFFICES ASSUME HerdrOK, DiskOK, RuntimeOK, HistoryOK, ObserveFocusedTab
               PROVE  HerdrOK' /\ DiskOK' /\ RuntimeOK' /\ HistoryOK'
    BY DEF TypeOK
  <1>1. HerdrOK' /\ HistoryOK' /\ damaged' \in BOOLEAN
    BY UnchangedTypes DEF ObserveFocusedTab, DiskOK
  <1>2. Begin(decision) \in DecisionState /\ Complete(Begin(decision)) \in DecisionState
    BY BeginType, CompleteType DEF RuntimeOK
  <1>3. ASSUME NEW d \in DecisionState, EndTick(d) PROVE RuntimeOK'
    BY <1>3, EndTickType DEF RuntimeOK, Phases
  <1>4. CASE ObservesNothing
    BY <1>1, <1>2, <1>3, <1>4 DEF ObservesNothing, DiskOK
  <1>5. CASE StoreFault
    BY <1>1, <1>5 DEF StoreFault, ExitLoop, RuntimeOK, DiskOK, Phases
  <1>6. ASSUME NEW t \in Tabs, ObservesTab(t) PROVE RuntimeOK' /\ DiskOK'
    <2>1. label[t] \in Labels /\ evidence[t] \in Evidence
      BY DEF HerdrOK
    <2>2. store' \in Store
      BY <1>6, <2>1, ReconcileType DEF ObservesTab, DiskOK
    <2>3. ASSUME EndTick(Complete(Begin(decision))) PROVE RuntimeOK'
      BY <1>2, <1>3, <2>3
    <2>4. ASSUME phase' = "inspect",
                 sample' = [tab |-> t, label |-> label[t],
                            lifecycle |-> evidence[t], target |-> None],
                 decision' \in {ResetTab(Begin(decision), t), Begin(decision)},
                 UNCHANGED <<running, nextTick>>
          PROVE  RuntimeOK'
      <3>1. decision' \in DecisionState
        BY <1>2, <2>4, ResetTabType
      <3>2. sample' \in Sample
        BY <2>1, <2>4 DEF Sample
      <3> QED
        BY <2>4, <3>1, <3>2 DEF RuntimeOK, Phases
    <2> QED
      BY <1>1, <1>6, <2>2, <2>3, <2>4 DEF ObservesTab, DiskOK
  <1> QED
    BY <1>1, <1>4, <1>5, <1>6 DEF ObserveFocusedTab

LEMMA InspectPaneType == TypeOK /\ InspectPane => TypeOK'
  <1> SUFFICES ASSUME HerdrOK, DiskOK, RuntimeOK, HistoryOK, InspectPane
               PROVE  HerdrOK' /\ DiskOK' /\ RuntimeOK' /\ HistoryOK'
    BY DEF TypeOK
  <1>1. HerdrOK' /\ damaged' \in BOOLEAN
    BY UnchangedTypes DEF InspectPane, DiskOK
  <1>2. ASSUME StoreFault, UNCHANGED <<claim, churn>>
        PROVE  RuntimeOK' /\ DiskOK' /\ HistoryOK'
    BY <1>1, <1>2, UnchangedTypes DEF StoreFault, ExitLoop, RuntimeOK, DiskOK, Phases
  <1>3. ASSUME NEW c \in Inspected(sample.tab), DecidesOn(c)
        PROVE  RuntimeOK' /\ DiskOK' /\ HistoryOK'
    <2> DEFINE t == sample.tab
               d == Decision(decision, t, c, sample.label, store.baselines[t])
               after == AfterDecision(decision, t, c, d.kind)
    <2>1. sample \in Sample /\ t \in Tabs /\ sample.label \in Labels
      BY DEF InspectPane, RuntimeOK, Sample
    <2>2. c \in Maybe(Candidates)
      BY <2>1, RefreshConstants DEF Inspected, HerdrOK
    <2>3. decision \in DecisionState /\ after \in DecisionState
      BY <2>1, <2>2, AfterDecisionType DEF RuntimeOK
    <2>4. d.kind # "skip_no_candidate" => d.label \in Labels
      BY <2>1, <2>2, <2>3, DecisionLabel
    <2> HIDE DEF d, after
    <2>5. store' \in Store
      <3>1. store' = StoreAfterDecision(t, d)
        BY <1>3 DEF DecidesOn, d
      <3>2. store \in Store
        BY DEF DiskOK
      <3> QED
        BY <2>1, <2>4, <3>1, <3>2, StoreEditTypes DEF StoreAfterDecision
    <2>6. HistoryOK'
      <3>1. churn' \in 0..MaxChurn
        BY <1>3, RefreshConstants DEF DecidesOn, HistoryOK, Inspected
      <3>2. claim' \in {claim, [claim EXCEPT ![t] = FALSE]}
        BY <1>3 DEF DecidesOn
      <3> QED
        BY <3>1, <3>2 DEF HistoryOK
    <2>7. ASSUME EndTick(after) PROVE RuntimeOK'
      BY <2>3, <2>7, EndTickType DEF RuntimeOK, Phases
    <2>8. ASSUME d.kind = "rename", phase' = "revalidate",
                 sample' = [sample EXCEPT !.target = d.label],
                 decision' = after, UNCHANGED <<running, nextTick>>
          PROVE  RuntimeOK'
      <3>1. d.label \in Labels
        BY <2>4, <2>8
      <3>2. sample' \in Sample /\ sample'.target # None
        BY <2>1, <2>8, <3>1, NoneIsFresh DEF Sample
      <3> QED
        BY <2>3, <2>8, <3>2 DEF RuntimeOK, Phases
    <2>9. RuntimeOK'
      BY <1>3, <2>7, <2>8 DEF DecidesOn, d, after
    <2> QED
      BY <1>1, <2>5, <2>6, <2>9 DEF DiskOK
  <1> QED
    BY <1>1, <1>2, <1>3 DEF InspectPane

LEMMA ConfirmCandidateType == TypeOK /\ ConfirmCandidate => TypeOK'
  <1> SUFFICES ASSUME HerdrOK, DiskOK, RuntimeOK, HistoryOK, ConfirmCandidate
               PROVE  HerdrOK' /\ DiskOK' /\ RuntimeOK' /\ HistoryOK'
    BY DEF TypeOK
  <1>1. HerdrOK' /\ damaged' \in BOOLEAN /\ decision \in DecisionState /\ store \in Store
    BY UnchangedTypes DEF ConfirmCandidate, DiskOK, RuntimeOK
  <1>2. sample \in Sample /\ sample.tab \in Tabs /\ NewIntent \in Intent
    <2>1. sample \in Sample /\ sample.target # None
      BY DEF ConfirmCandidate, RuntimeOK
    <2> QED
      BY <2>1 DEF Sample, NewIntent, Intent
  <1>3. PICK c \in Inspected(sample.tab) :
          /\ churn' = IF c = shows[sample.tab] THEN churn ELSE churn - 1
          /\ \/ /\ Confirms(c)
                /\ \/ /\ store' = RecordIntent(store, sample.tab, NewIntent)
                      /\ phase' = "rename"
                      /\ UNCHANGED <<running, sample, decision, nextTick>>
                   \/ ExitLoop /\ UNCHANGED store
             \/ EndTick(decision) /\ UNCHANGED store
    BY DEF ConfirmCandidate
  <1>4. HistoryOK'
    BY <1>3, RefreshConstants DEF HistoryOK, Inspected, ConfirmCandidate
  <1>5. store' \in Store
    BY <1>1, <1>2, <1>3, StoreEditTypes
  <1>6. RuntimeOK'
    <2>1. ASSUME phase' = "rename", UNCHANGED <<running, sample, decision, nextTick>>
          PROVE  RuntimeOK'
      BY <1>2, <2>1 DEF RuntimeOK, Phases, ConfirmCandidate
    <2>2. ASSUME ExitLoop PROVE RuntimeOK'
      BY <2>2 DEF ExitLoop, RuntimeOK, Phases
    <2>3. ASSUME EndTick(decision) PROVE RuntimeOK'
      BY <1>1, <2>3, EndTickType DEF RuntimeOK, Phases
    <2> QED
      BY <1>3, <2>1, <2>2, <2>3
  <1> QED
    BY <1>1, <1>4, <1>5, <1>6 DEF DiskOK

LEMMA SamplingType == TypeOK /\ Sampling => TypeOK'
  <1> SUFFICES ASSUME HerdrOK, DiskOK, RuntimeOK, HistoryOK, Sampling
               PROVE  TypeOK'
    BY DEF TypeOK
  <1>1. ASSUME NEW d \in DecisionState, EndTick(d) PROVE RuntimeOK'
    BY <1>1, EndTickType DEF RuntimeOK, Phases
  <1>2. decision \in DecisionState /\ Complete(Begin(decision)) \in DecisionState
    BY BeginType, CompleteType DEF RuntimeOK
  <1>3. CASE IdleTick
    <2>1. RuntimeOK'
      BY <1>1, <1>2, <1>3 DEF IdleTick
    <2> QED
      BY <1>3, <2>1, UnchangedTypes DEF IdleTick, TypeOK
  <1>4. CASE ObserveFocusedTab
    BY <1>4, ObserveFocusedTabType DEF TypeOK
  <1>5. CASE InspectPane
    BY <1>5, InspectPaneType DEF TypeOK
  <1>6. CASE RevalidateObservation
    <2>1. ASSUME phase' = "confirm", UNCHANGED <<running, sample, decision, nextTick>>
          PROVE  RuntimeOK'
      BY <1>6, <2>1 DEF RuntimeOK, Phases, RevalidateObservation
    <2>2. ASSUME StoreFault PROVE RuntimeOK'
      BY <2>2 DEF StoreFault, ExitLoop, RuntimeOK, Phases
    <2>3. RuntimeOK' /\ UNCHANGED diskVars
      BY <1>1, <1>2, <1>6, <2>1, <2>2 DEF RevalidateObservation, StoreFault, diskVars
    <2> QED
      BY <1>6, <2>3, UnchangedTypes DEF RevalidateObservation, TypeOK
  <1>7. CASE ConfirmCandidate
    BY <1>7, ConfirmCandidateType DEF TypeOK
  <1>8. CASE RenameTab
    <2>1. RuntimeOK'
      BY <1>1, <1>2, <1>8 DEF RenameTab
    <2>2. sample.tab \in Tabs /\ sample.target \in Labels
      BY <1>8 DEF RenameTab, RuntimeOK, Sample
    <2>3. HerdrOK'
      BY <1>8, <2>2 DEF RenameTab, HerdrOK, Authors
    <2> QED
      BY <1>8, <2>1, <2>3, UnchangedTypes DEF RenameTab, TypeOK
  <1> QED
    BY <1>3, <1>4, <1>5, <1>6, <1>7, <1>8 DEF Sampling

LEMMA FailureType == TypeOK /\ Failure => TypeOK'
  <1> SUFFICES ASSUME HerdrOK, DiskOK, RuntimeOK, HistoryOK, Failure
               PROVE  TypeOK'
    BY DEF TypeOK
  <1>1. ASSUME NEW d \in DecisionState, EndTick(d) PROVE RuntimeOK'
    BY <1>1, EndTickType DEF RuntimeOK, Phases
  <1>2. decision \in DecisionState /\ Begin(decision) \in DecisionState
    BY BeginType DEF RuntimeOK
  <1>3. CASE RenameFails
    <2>1. RuntimeOK'
      BY <1>1, <1>2, <1>3 DEF RenameFails
    <2>2. [tab |-> sample.tab, label |-> sample.target] \in Late
      BY <1>3 DEF RenameFails, RuntimeOK, Sample, Late
    <2>3. HerdrOK'
      BY <1>3, <2>2 DEF RenameFails, HerdrOK
    <2>4. HistoryOK'
      BY <1>3, UnchangedTypes DEF RenameFails, HistoryOK
    <2> QED
      BY <1>3, <2>1, <2>3, <2>4, UnchangedTypes DEF RenameFails, TypeOK
  <1>4. CASE SnapshotFails
    <2>1. RuntimeOK'
      BY <1>1, <1>2, <1>4 DEF SnapshotFails
    <2>2. HistoryOK'
      BY <1>4, UnchangedTypes DEF SnapshotFails, HistoryOK
    <2> QED
      BY <1>4, <2>1, <2>2, UnchangedTypes DEF SnapshotFails, TypeOK
  <1>5. CASE OwnerExits
    <2>1. RuntimeOK'
      BY <1>5 DEF OwnerExits, ExitLoop, RuntimeOK, Phases
    <2>2. HistoryOK'
      BY <1>5, UnchangedTypes DEF OwnerExits, HistoryOK
    <2> QED
      BY <1>5, <2>1, <2>2, UnchangedTypes DEF OwnerExits, TypeOK
  <1> QED
    BY <1>3, <1>4, <1>5 DEF Failure

LEMMA ClockType == TypeOK /\ (OwnerStarts \/ Tick) => TypeOK'
  <1> SUFFICES ASSUME HerdrOK, DiskOK, RuntimeOK, HistoryOK, OwnerStarts \/ Tick
               PROVE  TypeOK'
    BY DEF TypeOK
  <1>1. CASE OwnerStarts
    <2>1. decision' \in DecisionState /\ nextTick' \in 0..Period
      BY <1>1, NoteTriggerType, RefreshConstants, DecisionConstants DEF OwnerStarts
    <2>2. RuntimeOK'
      BY <1>1, <2>1 DEF OwnerStarts, RuntimeOK, Phases
    <2> QED
      BY <1>1, <2>2, UnchangedTypes DEF OwnerStarts, TypeOK
  <1>2. CASE Tick
    <2>1. decision' \in DecisionState
      BY <1>2, ElapseType DEF Tick, RuntimeOK
    <2>2. nextTick' \in 0..Period
      BY <1>2, RefreshConstants DEF Tick, RuntimeOK
    <2>3. RuntimeOK'
      BY <1>2, <2>1, <2>2 DEF Tick, RuntimeOK
    <2> QED
      BY <1>2, <2>3, UnchangedTypes DEF Tick, TypeOK
  <1> QED
    BY <1>1, <1>2

LEMMA NextType == TypeOK /\ [Next]_vars => TypeOK'
  <1> SUFFICES ASSUME TypeOK, [Next]_vars PROVE TypeOK'
    OBVIOUS
  <1>1. CASE Next
    BY <1>1, EnvironmentType, ControlType, SamplingType, FailureType, ClockType DEF Next
  <1>2. CASE UNCHANGED vars
    BY <1>2, UnchangedTypes DEF vars, TypeOK
  <1> QED
    BY <1>1, <1>2

(* Every variable keeps its type: in particular a sample is held exactly    *)
(* while a tick is under way, the alarm is at most one period away and an   *)
(* evaluation never counts more than its samples.                           *)
THEOREM TypeCorrect == Spec => []TypeOK
  BY InitType, NextType, PTL DEF Spec

-------------------------------------------------------------------------------
(* The alarm of run_runtime_loop and the state of the decision policy are   *)
(* two variables updated in different functions; they agree.                *)

LEMMA QuietAfter ==
    ASSUME NEW d \in DecisionState
    PROVE  /\ Begin(d).quiet = 0
           /\ Complete(d).quiet = d.quiet /\ ~Complete(d).eval.active
           /\ \A t \in Tabs : ResetTab(d, t).quiet = d.quiet
           /\ NoteTrigger(d).quiet = Quiet /\ ~NoteTrigger(d).eval.active
           /\ Elapse(d).quiet = Less(d.quiet)
           /\ NextKind(d) = "wait" <=> d.quiet > 0
  <1>1. NextKind(d) = "wait" <=> d.quiet > 0
    BY DEF NextKind
  <1> QED
    BY <1>1 DEF Begin, Complete, ResetTab, NoteTrigger, Elapse, DecisionState, NoEvaluation

LEMMA QuietAfterDecision ==
    ASSUME NEW d \in DecisionState, NEW t \in Tabs, NEW c, NEW kind
    PROVE  /\ AfterDecision(d, t, c, kind).quiet = d.quiet
           /\ kind # "defer" => ~AfterDecision(d, t, c, kind).eval.active
  <1> DEFINE observed == IF c = None THEN d
                         ELSE [d EXCEPT !.stability[t] = Observe(d.stability[t], c)]
             after == RecordSample(observed, kind # "defer")
  <1>1. after = AfterDecision(d, t, c, kind)
    BY DEF AfterDecision
  <1>2. /\ observed.quiet = d.quiet
        /\ observed = [quiet |-> observed.quiet, trigger |-> observed.trigger,
                       eval |-> observed.eval, stability |-> observed.stability]
    BY DEF DecisionState
  <1> HIDE DEF observed
  <1>3. CASE kind # "defer" \/ observed.eval.samples + 1 >= MaxSamples
    <2>1. after = Complete(observed)
      BY <1>3 DEF RecordSample
    <2>2. Complete(observed).quiet = observed.quiet /\ ~Complete(observed).eval.active
      BY <1>2 DEF Complete, NoEvaluation
    <2> HIDE DEF after
    <2> QED
      BY <1>1, <1>2, <2>1, <2>2
  <1>4. CASE ~(kind # "defer" \/ observed.eval.samples + 1 >= MaxSamples)
    <2>1. after = [observed EXCEPT !.eval.samples = observed.eval.samples + 1,
                                   !.eval.again = Poll]
      BY <1>4, Zenon DEF RecordSample
    <2>2. after.quiet = observed.quiet
      BY <1>2, <2>1
    <2> QED
      BY <1>1, <1>2, <1>4, <2>2
  <1> QED
    BY <1>3, <1>4

-------------------------------------------------------------------------------
(* A tick that ends outside the quiet window leaves no alarm to agree with. *)
LEMMA EndTickAgrees ==
    ASSUME NEW d, d.quiet = 0, EndTick(d)
    PROVE  AlarmAgrees'
  BY DEF EndTick, AlarmAgrees

LEMMA SameSchedule == AlarmAgrees /\ UNCHANGED runtimeVars => AlarmAgrees'
  BY DEF AlarmAgrees, runtimeVars

(* A trigger sets the window and the alarm to the same instant.             *)
LEMMA TriggerAgrees ==
    ASSUME NEW d \in DecisionState, decision' = NoteTrigger(d), nextTick' = Quiet, phase' = "wait"
    PROVE  AlarmAgrees'
  BY QuietAfter DEF AlarmAgrees

LEMMA ControlAgrees == TypeOK /\ AlarmAgrees /\ Control => AlarmAgrees'
  <1> SUFFICES ASSUME decision \in DecisionState, AlarmAgrees, Control PROVE AlarmAgrees'
    BY DEF TypeOK, RuntimeOK
  <1>1. CASE Trigger
    BY <1>1, TriggerAgrees DEF Trigger, NoteRefreshTrigger, Waiting
  <1>2. CASE UnlockFocused
    BY <1>2, TriggerAgrees DEF UnlockFocused, NoteRefreshTrigger, Waiting
  <1>3. CASE UnlockAllTabs
    BY <1>3, TriggerAgrees DEF UnlockAllTabs, NoteRefreshTrigger, Waiting
  <1>4. CASE RepairDiscard /\ running
    BY <1>4, TriggerAgrees DEF RepairDiscard, NoteRefreshTrigger, Waiting
  <1>5. CASE RepairDiscard /\ ~running
    BY <1>5 DEF RepairDiscard, AlarmAgrees
  <1>6. CASE ForgetSession
    BY <1>6, SameSchedule DEF ForgetSession
  <1>7. CASE ReloadConfig
    BY <1>7, TriggerAgrees, CompleteType DEF ReloadConfig, Waiting
  <1> QED
    BY <1>1, <1>2, <1>3, <1>4, <1>5, <1>6, <1>7 DEF Control

LEMMA SamplingAgrees == TypeOK /\ AlarmAgrees /\ Sampling => AlarmAgrees'
  <1> SUFFICES ASSUME TypeOK, decision \in DecisionState, AlarmAgrees, Sampling
               PROVE  AlarmAgrees'
    BY DEF TypeOK, RuntimeOK
  <1>1. /\ Begin(decision) \in DecisionState /\ Begin(decision).quiet = 0
        /\ Complete(Begin(decision)).quiet = 0
    BY BeginType, QuietAfter
  <1>2. running /\ (phase # "wait" \/ nextTick = 0) => decision.quiet = 0
    BY DEF AlarmAgrees, DecisionState
  <1>3. CASE IdleTick
    <2>1. NextKind(decision) # "wait"
      BY <1>2, <1>3, QuietAfter DEF IdleTick, Due, Waiting
    <2> QED
      BY <1>1, <1>3, <2>1, EndTickAgrees DEF IdleTick
  <1>4. CASE ObserveFocusedTab
    <2>1. CASE ObservesNothing
      BY <1>1, <2>1, EndTickAgrees DEF ObservesNothing
    <2>2. CASE StoreFault
      BY <2>2 DEF StoreFault, ExitLoop, AlarmAgrees
    <2>3. ASSUME NEW t \in Tabs, ObservesTab(t) PROVE AlarmAgrees'
      <3>1. ResetTab(Begin(decision), t).quiet = 0
        BY <1>1, QuietAfter
      <3>2. \/ EndTick(Complete(Begin(decision)))
            \/ phase' = "inspect" /\ decision'.quiet = 0
        BY <1>1, <2>3, <3>1 DEF ObservesTab
      <3> QED
        BY <1>1, <3>2, EndTickAgrees DEF AlarmAgrees
    <2> QED
      BY <1>4, <2>1, <2>2, <2>3 DEF ObserveFocusedTab
  <1>5. CASE InspectPane
    <2>1. CASE StoreFault
      BY <2>1 DEF StoreFault, ExitLoop, AlarmAgrees
    <2>2. ASSUME NEW c \in Inspected(sample.tab), DecidesOn(c) PROVE AlarmAgrees'
      <3> DEFINE kind == Decision(decision, sample.tab, c, sample.label,
                                  store.baselines[sample.tab]).kind
                 after == AfterDecision(decision, sample.tab, c, kind)
      <3>1. decision.quiet = 0 /\ sample.tab \in Tabs
        BY <1>2, <1>5 DEF InspectPane, TypeOK, RuntimeOK, Sample
      <3>2. after.quiet = 0 /\ (kind = "rename" => ~after.eval.active)
        BY <3>1, QuietAfterDecision
      <3>3. \/ EndTick(after)
            \/ kind = "rename" /\ phase' = "revalidate" /\ decision' = after
        BY <2>2 DEF DecidesOn
      <3> HIDE DEF kind, after
      <3> QED
        BY <3>2, <3>3, EndTickAgrees DEF AlarmAgrees
    <2> QED
      BY <1>5, <2>1, <2>2 DEF InspectPane
  <1>6. CASE RevalidateObservation
    <2>1. CASE StoreFault
      BY <2>1 DEF StoreFault, ExitLoop, AlarmAgrees
    <2>2. CASE phase' = "confirm" /\ UNCHANGED <<running, decision, nextTick>>
      BY <1>6, <2>2 DEF RevalidateObservation, AlarmAgrees
    <2>3. CASE EndTick(decision)
      BY <1>2, <1>6, <2>3, EndTickAgrees DEF RevalidateObservation
    <2> QED
      BY <1>6, <2>1, <2>2, <2>3 DEF RevalidateObservation
  <1>7. CASE ConfirmCandidate
    <2>1. CASE ExitLoop
      BY <2>1 DEF ExitLoop, AlarmAgrees
    <2>2. CASE phase' = "rename" /\ UNCHANGED <<running, decision, nextTick>>
      BY <1>7, <2>2 DEF ConfirmCandidate, AlarmAgrees
    <2>3. CASE EndTick(decision)
      BY <1>2, <1>7, <2>3, EndTickAgrees DEF ConfirmCandidate
    <2> QED
      BY <1>7, <2>1, <2>2, <2>3 DEF ConfirmCandidate
  <1>8. CASE RenameTab
    BY <1>2, <1>8, EndTickAgrees DEF RenameTab
  <1> QED
    BY <1>3, <1>4, <1>5, <1>6, <1>7, <1>8 DEF Sampling

LEMMA NextAgrees == TypeOK /\ AlarmAgrees /\ [Next]_vars => AlarmAgrees'
  <1> SUFFICES ASSUME TypeOK, decision \in DecisionState, AlarmAgrees, [Next]_vars
               PROVE  AlarmAgrees'
    BY DEF TypeOK, RuntimeOK
  <1>1. running /\ phase # "wait" => decision.quiet = 0
    BY DEF AlarmAgrees, DecisionState
  <1>2. CASE Environment
    BY <1>2, SameSchedule
    DEF Environment, UserRename, ProgramChange, FocusChange, ViewChange, ReuseTab,
        LateRename, DamageStore
  <1>3. CASE RenameFails
    BY <1>1, <1>3, EndTickAgrees DEF RenameFails
  <1>4. CASE SnapshotFails
    <2>1. Begin(decision).quiet = 0
      BY QuietAfter
    <2> QED
      BY <1>1, <1>4, <2>1, EndTickAgrees DEF SnapshotFails
  <1>5. CASE OwnerExits
    BY <1>5 DEF OwnerExits, ExitLoop, AlarmAgrees
  <1>6. CASE OwnerStarts
    BY <1>6, NewDecisionType, TriggerAgrees DEF OwnerStarts
  <1>7. CASE Tick
    <2>1. decision'.quiet = Less(decision.quiet)
      BY <1>7, QuietAfter DEF Tick
    <2>2. decision.quiet \in Nat /\ nextTick \in Nat
      BY DecisionConstants, RefreshConstants DEF DecisionState, TypeOK, RuntimeOK
    <2> QED
      BY <1>7, <2>1, <2>2 DEF Tick, Waiting, Less, AlarmAgrees
  <1>8. CASE UNCHANGED vars
    BY <1>8, SameSchedule DEF vars
  <1> QED
    BY <1>2, <1>3, <1>4, <1>5, <1>6, <1>7, <1>8, ControlAgrees, SamplingAgrees
    DEF Next, Failure

LEMMA AlarmAgreement == Spec => []AlarmAgrees
  <1>1. Init => AlarmAgrees
    BY DEF Init, AlarmAgrees
  <1> QED
    BY <1>1, InitType, NextType, NextAgrees, PTL DEF Spec

-------------------------------------------------------------------------------
(* The history of each tab is of the present evaluation.                    *)

SeenNow(d) ==
    \A t \in Tabs :
      /\ d.stability[t].count <= d.eval.samples
      /\ d.stability[t].lastStable = None
      /\ d.stability[t].lastCommand = None

LEMMA ClearedHistory ==
    ASSUME NEW d, d.stability = NoHistory, d.eval.samples \in Nat
    PROVE  SeenNow(d)
  <1> SUFFICES ASSUME NEW t \in Tabs
               PROVE  /\ d.stability[t].count <= d.eval.samples
                      /\ d.stability[t].lastStable = None
                      /\ d.stability[t].lastCommand = None
    BY DEF SeenNow
  <1>1. d.stability[t] = NewStability
    BY DEF NoHistory
  <1>2. NewStability.count = 0 /\ NewStability.lastStable = None /\ NewStability.lastCommand = None
    BY DEF NewStability
  <1>3. d.stability[t].count = 0
    BY <1>1, <1>2
  <1>4. 0 <= d.eval.samples
    OBVIOUS
  <1> QED
    BY <1>1, <1>2, <1>3, <1>4

LEMMA SeenAfter ==
    ASSUME NEW d \in DecisionState
    PROVE  /\ SeenNow(Complete(d)) /\ SeenNow(NoteTrigger(d)) /\ SeenNow(NewDecisionState)
           /\ SeenNow(d) => SeenNow(Begin(d)) /\ SeenNow(Elapse(d))
           /\ SeenNow(d) => \A t \in Tabs : SeenNow(ResetTab(d, t))
  <1>1. /\ d.eval.samples \in Nat
        /\ \A t \in Tabs : d.stability[t] \in StabilityState
    BY DecisionConstants DEF DecisionState, Evaluation
  <1>2. SeenNow(Complete(d)) /\ SeenNow(NoteTrigger(d)) /\ SeenNow(NewDecisionState)
    <2>1. Complete(d).stability = NoHistory /\ Complete(d).eval.samples = 0
      BY DEF Complete, DecisionState, NoEvaluation
    <2>2. NoteTrigger(d).stability = NoHistory /\ NoteTrigger(d).eval.samples = 0
      BY DEF NoteTrigger, NoEvaluation
    <2>3. NewDecisionState.stability = NoHistory /\ NewDecisionState.eval.samples = 0
      BY DEF NewDecisionState, NoEvaluation
    <2> QED
      BY <2>1, <2>2, <2>3, ClearedHistory
  <1>3. ASSUME SeenNow(d) PROVE SeenNow(Begin(d))
    <2>1. CASE d.eval.active
      BY <1>3, <2>1 DEF Begin, DecisionState, SeenNow
    <2>2. CASE ~d.eval.active
      <3>1. Begin(d).stability = NoHistory /\ Begin(d).eval.samples = 0
        BY <2>2 DEF Begin
      <3> QED
        BY <3>1, ClearedHistory
    <2> QED
      BY <2>1, <2>2
  <1>4. ASSUME SeenNow(d) PROVE SeenNow(Elapse(d))
    <2>1. Elapse(d).eval.samples = d.eval.samples
      BY DEF Elapse, DecisionState, Evaluation
    <2>2. ASSUME NEW t \in Tabs
          PROVE  /\ Elapse(d).stability[t].count = d.stability[t].count
                 /\ Elapse(d).stability[t].lastStable = d.stability[t].lastStable
                 /\ Elapse(d).stability[t].lastCommand = d.stability[t].lastCommand
      BY <1>1 DEF Elapse, StabilityState
    <2> QED
      BY <1>4, <2>1, <2>2 DEF SeenNow
  <1>5. ASSUME SeenNow(d), NEW t \in Tabs PROVE SeenNow(ResetTab(d, t))
    <2>1. /\ ResetTab(d, t).eval = d.eval
          /\ \A u \in Tabs : ResetTab(d, t).stability[u] \in {d.stability[u], NewStability}
      BY DEF ResetTab, DecisionState
    <2>2. NewStability.count = 0 /\ NewStability.lastStable = None /\ NewStability.lastCommand = None
      BY DEF NewStability
    <2>3. SUFFICES ASSUME NEW u \in Tabs
                   PROVE  LET s == ResetTab(d, t).stability[u]
                          IN  s.count <= d.eval.samples /\ s.lastStable = None /\ s.lastCommand = None
      BY <2>1 DEF SeenNow
    <2>4. CASE ResetTab(d, t).stability[u] = NewStability
      BY <1>1, <2>2, <2>4
    <2>5. CASE ResetTab(d, t).stability[u] = d.stability[u]
      BY <1>5, <2>5 DEF SeenNow
    <2> QED
      BY <2>1, <2>4, <2>5
  <1> QED
    BY <1>2, <1>3, <1>4, <1>5

(* One more look at a candidate that is not yet stable.                     *)
LEMMA ObservePending ==
    ASSUME NEW s \in StabilityState, NEW c \in Candidates, Verdict(s, c) = "pending"
    PROVE  /\ Observe(s, c).count <= s.count + 1
           /\ Observe(s, c).lastStable = s.lastStable
           /\ Observe(s, c).lastCommand = s.lastCommand
  <1>1. Consecutive(s, Effective(s, c)) <= s.count + 1
    BY DEF Consecutive, StabilityState, CountLimit
  <1> QED
    BY <1>1 DEF Observe

LEMMA CountedSample ==
    ASSUME NEW d \in DecisionState
    PROVE  LET e == [d EXCEPT !.eval.samples = d.eval.samples + 1, !.eval.again = Poll]
           IN  /\ e.stability = d.stability
               /\ e.eval.samples = d.eval.samples + 1 /\ e.eval.active = d.eval.active
  <1>1. /\ DOMAIN d = {"quiet", "trigger", "eval", "stability"}
        /\ DOMAIN d.eval = {"active", "left", "samples", "again"}
    BY DEF DecisionState, Evaluation
  <1> QED
    BY <1>1

LEMMA SeenAfterDecision ==
    ASSUME NEW d \in DecisionState, SeenNow(d), NEW t \in Tabs, NEW c \in Maybe(Candidates),
           NEW visible \in Labels, NEW baseline \in Maybe(Labels)
    PROVE  SeenNow(AfterDecision(d, t, c, Decision(d, t, c, visible, baseline).kind))
  <1> DEFINE kind == Decision(d, t, c, visible, baseline).kind
             observed == IF c = None THEN d
                         ELSE [d EXCEPT !.stability[t] = Observe(d.stability[t], c)]
  <1>1. AfterDecision(d, t, c, kind) = RecordSample(observed, kind # "defer")
    BY DEF AfterDecision
  <1>2. d.stability[t] \in StabilityState /\ d.eval \in Evaluation /\ d.eval.samples \in Nat
    BY DecisionConstants DEF DecisionState, Evaluation
  <1>3. observed \in DecisionState
    <2>1. CASE c = None
      BY <2>1
    <2>2. CASE c # None
      <3>1. Observe(d.stability[t], c) \in StabilityState
        BY <1>2, <2>2, ObserveType DEF Maybe
      <3> QED
        BY <2>2, <3>1 DEF DecisionState
    <2> QED
      BY <2>1, <2>2
  <1>4. CASE kind # "defer" \/ observed.eval.samples + 1 >= MaxSamples
    <2>1. RecordSample(observed, kind # "defer") = Complete(observed)
      BY <1>4 DEF RecordSample
    <2>2. SeenNow(Complete(observed))
      BY <1>3, SeenAfter
    <2>3. AfterDecision(d, t, c, kind) = Complete(observed)
      BY <1>1, <2>1
    <2> QED
      BY <2>2, <2>3
  <1>5. CASE ~(kind # "defer" \/ observed.eval.samples + 1 >= MaxSamples)
    <2>1. c \in Candidates /\ StableLabel(d, t, c) = None
      BY <1>5 DEF Decision, Maybe
    <2>2. Verdict(d.stability[t], c) = "pending"
      <3>1. Effective(d.stability[t], c) \in Candidates
        BY <1>2, <2>1, EffectiveType
      <3>2. Effective(d.stability[t], c).label # None
        BY <3>1, DataTypes, NoneIsFresh
      <3> QED
        BY <2>1, <3>2 DEF StableLabel
    <2>3. /\ Observe(d.stability[t], c).count <= d.stability[t].count + 1
          /\ Observe(d.stability[t], c).lastStable = None
          /\ Observe(d.stability[t], c).lastCommand = None
      BY <1>2, <2>1, <2>2, ObservePending DEF SeenNow
    <2>4. observed = [d EXCEPT !.stability[t] = Observe(d.stability[t], c)]
      BY <2>1, NoneIsFresh
    <2>5. /\ observed.eval = d.eval
          /\ observed.stability[t] = Observe(d.stability[t], c)
          /\ \A u \in Tabs \ {t} : observed.stability[u] = d.stability[u]
      BY <2>4 DEF DecisionState
    <2>6. RecordSample(observed, FALSE) =
            [observed EXCEPT !.eval.samples = observed.eval.samples + 1, !.eval.again = Poll]
      BY <1>5, Zenon DEF RecordSample
    <2>7. Observe(d.stability[t], c) \in StabilityState
      BY <1>2, <2>1, ObserveType
    <2> DEFINE after == RecordSample(observed, FALSE)
    <2>8. after.stability = observed.stability /\ after.eval.samples = d.eval.samples + 1
      <3> HIDE DEF observed
      <3> QED
        BY <1>3, <2>5, <2>6, CountedSample
    <2> HIDE DEF observed
    <2>9. AfterDecision(d, t, c, kind) = after
      BY <1>1, <1>5, Zenon
    <2> HIDE DEF after
    <2>10. SeenNow(after)
      <3> SUFFICES ASSUME NEW u \in Tabs
                   PROVE  /\ after.stability[u].count <= after.eval.samples
                          /\ after.stability[u].lastStable = None
                          /\ after.stability[u].lastCommand = None
        BY DEF SeenNow
      <3>1. d.stability[u].count \in Nat /\ d.stability[u].count <= d.eval.samples
        BY DEF SeenNow, DecisionState, StabilityState
      <3>2. CASE u = t
        BY <1>2, <2>3, <2>5, <2>7, <2>8, <3>1, <3>2 DEF StabilityState
      <3>3. CASE u # t
        BY <1>2, <2>5, <2>8, <3>1, <3>3 DEF SeenNow
      <3> QED
        BY <3>2, <3>3
    <2> QED
      BY <2>9, <2>10
  <1> QED
    BY <1>4, <1>5

LEMMA NextSeen == TypeOK /\ HistoryAgrees /\ [Next]_vars => HistoryAgrees'
  <1> SUFFICES ASSUME TypeOK, SeenNow(decision), [Next]_vars PROVE SeenNow(decision')
    BY DEF HistoryAgrees, SeenNow
  <1>1. decision \in DecisionState /\ Begin(decision) \in DecisionState
    BY BeginType DEF TypeOK, RuntimeOK
  <1>2. SeenNow(Begin(decision)) /\ SeenNow(Complete(Begin(decision)))
    BY <1>1, SeenAfter
  <1>3. SeenNow(NoteTrigger(decision)) /\ SeenNow(NoteTrigger(Complete(decision)))
    BY <1>1, CompleteType, SeenAfter
  <1>4. CASE Environment
    BY <1>4 DEF Environment, UserRename, ProgramChange, FocusChange, ViewChange, ReuseTab,
                LateRename, DamageStore, runtimeVars
  <1>5. CASE Control
    BY <1>3, <1>5 DEF Control, Trigger, UnlockFocused, UnlockAllTabs, RepairDiscard,
                      ForgetSession, ReloadConfig, NoteRefreshTrigger, runtimeVars
  <1>6. CASE IdleTick \/ RevalidateObservation \/ ConfirmCandidate \/ RenameTab
    BY <1>2, <1>6 DEF IdleTick, RevalidateObservation, ConfirmCandidate, RenameTab, EndTick,
                      StoreFault, ExitLoop
  <1>7. CASE ObserveFocusedTab
    <2>1. ASSUME NEW t \in Tabs, ObservesTab(t) PROVE SeenNow(decision')
      <3>1. SeenNow(ResetTab(Begin(decision), t))
        BY <1>1, <1>2, SeenAfter
      <3> QED
        BY <1>2, <2>1, <3>1 DEF ObservesTab, EndTick
    <2> QED
      BY <1>2, <1>7, <2>1 DEF ObserveFocusedTab, ObservesNothing, StoreFault, ExitLoop, EndTick
  <1>8. CASE InspectPane
    <2>1. CASE StoreFault
      BY <2>1 DEF StoreFault, ExitLoop
    <2>2. ASSUME NEW c \in Inspected(sample.tab), DecidesOn(c) PROVE SeenNow(decision')
      <3> DEFINE t == sample.tab
                 kind == Decision(decision, t, c, sample.label, store.baselines[t]).kind
      <3>1. /\ t \in Tabs /\ sample.label \in Labels /\ c \in Maybe(Candidates)
            /\ store.baselines[t] \in Maybe(Labels)
        BY <1>8, RefreshConstants
        DEF InspectPane, TypeOK, HerdrOK, DiskOK, RuntimeOK, Sample, Inspected, Store
      <3>2. SeenNow(AfterDecision(decision, t, c, kind))
        BY <1>1, <3>1, SeenAfterDecision
      <3> QED
        BY <2>2, <3>2 DEF DecidesOn, EndTick
    <2> QED
      BY <1>8, <2>1, <2>2 DEF InspectPane
  <1>9. CASE Failure
    BY <1>2, <1>9 DEF Failure, RenameFails, SnapshotFails, OwnerExits, EndTick, ExitLoop
  <1>10. CASE OwnerStarts \/ Tick
    <2>1. SeenNow(NoteTrigger(NewDecisionState)) /\ SeenNow(Elapse(decision))
      BY <1>1, NewDecisionType, SeenAfter
    <2> QED
      BY <1>10, <2>1 DEF OwnerStarts, Tick
  <1>11. CASE UNCHANGED vars
    BY <1>11 DEF vars, runtimeVars
  <1> QED
    BY <1>4, <1>5, <1>6, <1>7, <1>8, <1>9, <1>10, <1>11 DEF Next, Sampling

LEMMA HistoryAgreement == Spec => []HistoryAgrees
  <1>1. Init => HistoryAgrees
    <2>1. SeenNow(NewDecisionState)
      BY NewDecisionType, SeenAfter
    <2> QED
      BY <2>1 DEF Init, HistoryAgrees, SeenNow
  <1> QED
    BY <1>1, InitType, NextType, NextSeen, PTL DEF Spec

(* The alarm never rings inside the quiet window, an evaluation that        *)
(* decided to rename is over before the rename, and what it knows of a tab  *)
(* it has sampled itself: no trigger, reload, failed call or restart lets   *)
(* one evaluation rename twice, or on what another one saw.                 *)
THEOREM ScheduleAgreement == Spec => []ScheduleAgrees
  BY AlarmAgreement, HistoryAgreement, PTL DEF ScheduleAgrees

-------------------------------------------------------------------------------
(* The safety theorems: intents are written ahead, and so is what the plugin *)
(* writes.                                                                   *)

(* What the operators of the store change, and what they leave alone.       *)

SameTab(s, r, u) ==
    r.locks[u] = s.locks[u] /\ r.baselines[u] = s.baselines[u] /\ r.intents[u] = s.intents[u]

LEMMA StoreEditEffects ==
    ASSUME NEW s \in Store, NEW t \in Tabs
    PROVE  /\ \A l \in Labels :
                /\ \A u \in Tabs \ {t} : SameTab(s, LockTab(s, t, l), u)
                /\ LockTab(s, t, l).locks[t] = l
                /\ LockTab(s, t, l).baselines = s.baselines
                /\ LockTab(s, t, l).intents = s.intents
           /\ \A l \in Labels :
                /\ \A u \in Tabs \ {t} : SameTab(s, RecordPluginLabel(s, t, l), u)
                /\ RecordPluginLabel(s, t, l).locks = s.locks
                /\ RecordPluginLabel(s, t, l).baselines[t] = l
                /\ RecordPluginLabel(s, t, l).intents = s.intents
           /\ \A i \in Intent :
                /\ \A u \in Tabs \ {t} : SameTab(s, RecordIntent(s, t, i), u)
                /\ RecordIntent(s, t, i).locks = s.locks
                /\ RecordIntent(s, t, i).baselines = s.baselines
                /\ RecordIntent(s, t, i).intents[t] = i
  BY DEF Store, LockTab, RecordPluginLabel, RecordIntent, SameTab

LEMMA UnlockEffects ==
    ASSUME NEW s \in Store, NEW t \in Tabs, NEW u \in Tabs
    PROVE  /\ UnlockTab(s, t).intents = s.intents
           /\ UnlockTab(s, t).locks[u] \in {s.locks[u], None}
           /\ u # t \/ ~IsLocked(s, u) => SameTab(s, UnlockTab(s, t), u)
           /\ u = t /\ IsLocked(s, u) => UnlockTab(s, t).baselines[u] = None
           /\ UnlockAll(s).intents = s.intents
           /\ UnlockAll(s).locks[u] = None
           /\ ~IsLocked(s, u) => SameTab(s, UnlockAll(s), u)
           /\ IsLocked(s, u) => UnlockAll(s).baselines[u] = None
  BY DEF Store, UnlockTab, UnlockAll, SameTab, IsLocked

LEMMA ReconcileEffects ==
    ASSUME NEW s \in Store, NEW t \in Tabs, NEW l \in Labels, NEW e \in Evidence
    PROVE  LET r   == Reconcile(s, t, l, e)
               out == ReconcileOutcome(s, t, l, e)
           IN  /\ \A u \in Tabs \ {t} : SameTab(s, r, u)
               /\ r.intents[t] = None
               /\ out = "no_intent" => r = s /\ s.intents[t] = None
               /\ out # "no_intent" => s.intents[t] # None
               /\ out = "reused_tab" =>
                    /\ r.locks[t] = None /\ r.baselines[t] = None
                    /\ s.intents[t].lifecycle # e \/ NumberLabel[e] = l
               /\ out = "confirmed" =>
                    /\ r.locks[t] = s.locks[t] /\ r.baselines[t] = l
                    /\ s.intents[t].intended = l
               /\ out = "source_unchanged" =>
                    /\ r.locks[t] = s.locks[t] /\ r.baselines[t] = s.baselines[t]
                    /\ s.intents[t].previous = l
               /\ out = "manual_intent" =>
                    /\ r.locks[t] = l /\ r.baselines[t] = s.baselines[t]
                    /\ s.intents[t].intended # l /\ s.intents[t].previous # l
               /\ out \in {"no_intent", "reused_tab", "confirmed", "source_unchanged",
                           "manual_intent"}
  <1> DEFINE out == ReconcileOutcome(s, t, l, e)
             r == Reconcile(s, t, l, e)
             dropped == DropIntent(s, t)
  <1>1. /\ \A u \in Tabs \ {t} : SameTab(s, dropped, u)
        /\ dropped.locks = s.locks /\ dropped.baselines = s.baselines
        /\ dropped.intents[t] = None /\ dropped \in Store
    BY DEF DropIntent, Store, SameTab
  <1>2. CASE s.intents[t] = None
    BY <1>2 DEF Reconcile, ReconcileOutcome, SameTab
  <1>3. CASE s.intents[t] # None /\ (s.intents[t].lifecycle # e \/ IsDefaultTabLabel(l, e))
    <2>1. out = "reused_tab"
      BY <1>3 DEF ReconcileOutcome
    <2>2. r = DiscardTabState(dropped, t)
      BY <2>1 DEF Reconcile
    <2>3. /\ \A u \in Tabs \ {t} : SameTab(s, r, u)
          /\ r.locks[t] = None /\ r.baselines[t] = None /\ r.intents[t] = None
      BY <1>1, <2>2 DEF DiscardTabState, Store, SameTab
    <2> HIDE DEF r, out
    <2>4. s.intents[t].lifecycle # e \/ NumberLabel[e] = l
      BY <1>3 DEF IsDefaultTabLabel
    <2> QED
      BY <1>3, <2>1, <2>3, <2>4 DEF r, out
  <1>4. CASE s.intents[t] # None /\ ~(s.intents[t].lifecycle # e \/ IsDefaultTabLabel(l, e))
    <2>1. CASE s.intents[t].intended = l
      <3>1. out = "confirmed"
        BY <1>4, <2>1 DEF ReconcileOutcome
      <3>2. r = RecordPluginLabel(dropped, t, l)
        BY <2>1, <3>1 DEF Reconcile
      <3> QED
        BY <1>1, <1>4, <2>1, <3>1, <3>2 DEF RecordPluginLabel, Store, SameTab
    <2>2. CASE s.intents[t].intended # l /\ s.intents[t].previous = l
      <3>1. out = "source_unchanged"
        BY <1>4, <2>2 DEF ReconcileOutcome
      <3>2. r = dropped
        BY <3>1 DEF Reconcile
      <3> QED
        BY <1>1, <1>4, <2>2, <3>1, <3>2
    <2>3. CASE s.intents[t].intended # l /\ s.intents[t].previous # l
      <3>1. out = "manual_intent"
        BY <1>4, <2>3 DEF ReconcileOutcome
      <3>2. r = LockTab(dropped, t, l)
        BY <3>1 DEF Reconcile
      <3> QED
        BY <1>1, <1>4, <2>3, <3>1, <3>2 DEF LockTab, Store, SameTab
    <2> QED
      BY <2>1, <2>2, <2>3
  <1> QED
    BY <1>2, <1>3, <1>4

-------------------------------------------------------------------------------
(* Intents.  IntentDiscipline is inductive once it is said that a sample is *)
(* only under way in a live owner, over a tab that is not locked.           *)

SampleDiscipline == phase # "wait" => running /\ ~IsLocked(store, sample.tab)

IntentInv == IntentDiscipline /\ SampleDiscipline

IntentsUnlocked(s) == \A t \in Tabs : s.intents[t] # None => ~IsLocked(s, t)

(* Between two samples only the stored intents count.                       *)
LEMMA CalmIntents == phase' = "wait" /\ IntentsUnlocked(store') => IntentInv'
  BY DEF IntentsUnlocked, IntentInv, IntentDiscipline, SampleDiscipline

LEMMA SameIntents == IntentInv /\ UNCHANGED <<store, phase, sample, running>> => IntentInv'
  BY DEF IntentInv, IntentDiscipline, SampleDiscipline, NewIntent, IsLocked

LEMMA ControlIntents == TypeOK /\ IntentInv /\ Control => IntentInv'
  <1> SUFFICES ASSUME store \in Store, TypeOK, IntentInv, Control PROVE IntentInv'
    BY DEF TypeOK, DiskOK
  <1>1. IntentsUnlocked(store)
    BY DEF IntentInv, IntentDiscipline, IntentsUnlocked
  <1>2. CASE Trigger
    BY <1>2, SameIntents DEF Trigger, diskVars
  <1>3. CASE UnlockFocused
    <2>1. ASSUME NEW t \in Tabs PROVE IntentsUnlocked(UnlockTab(store, t))
      BY <1>1, <2>1, UnlockEffects DEF IntentsUnlocked, IsLocked
    <2>2. IntentsUnlocked(store')
      BY <1>1, <1>3, <2>1 DEF UnlockFocused, TypeOK, HerdrOK
    <2> QED
      BY <1>3, <2>2, CalmIntents DEF UnlockFocused, Waiting
  <1>4. CASE UnlockAllTabs
    <2>1. IntentsUnlocked(UnlockAll(store))
      BY <1>1, UnlockEffects DEF IntentsUnlocked, IsLocked
    <2> QED
      BY <1>4, <2>1, CalmIntents DEF UnlockAllTabs, Waiting
  <1>5. ASSUME ~running PROVE phase = "wait"
    BY <1>5 DEF IntentInv, SampleDiscipline
  <1>6. IntentsUnlocked(EmptyStore)
    BY DEF IntentsUnlocked, EmptyStore
  <1>7. CASE RepairDiscard
    BY <1>1, <1>5, <1>6, <1>7, CalmIntents DEF RepairDiscard, Waiting
  <1>8. CASE ForgetSession
    BY <1>5, <1>6, <1>8, CalmIntents DEF ForgetSession, runtimeVars
  <1>9. CASE ReloadConfig
    BY <1>9, SameIntents DEF ReloadConfig, diskVars
  <1> QED
    BY <1>2, <1>3, <1>4, <1>7, <1>8, <1>9 DEF Control

LEMMA ObserveIntents == TypeOK /\ IntentInv /\ ObserveFocusedTab => IntentInv'
  <1> SUFFICES ASSUME store \in Store, TypeOK, IntentInv, ObserveFocusedTab PROVE IntentInv'
    BY DEF TypeOK, DiskOK
  <1>1. IntentsUnlocked(store)
    BY DEF IntentInv, IntentDiscipline, IntentsUnlocked
  <1>2. CASE ObservesNothing
    BY <1>1, <1>2, CalmIntents DEF ObservesNothing, EndTick
  <1>3. CASE StoreFault
    BY <1>1, <1>3, CalmIntents DEF StoreFault, ExitLoop
  <1>4. ASSUME NEW t \in Tabs, ObservesTab(t) PROVE IntentInv'
    <2> DEFINE after == Reconcile(store, t, label[t], evidence[t])
    <2>1. label[t] \in Labels /\ evidence[t] \in Evidence
      BY DEF TypeOK, HerdrOK
    <2>2. /\ \A u \in Tabs \ {t} : SameTab(store, after, u)
          /\ after.intents[t] = None
      BY <2>1, ReconcileEffects
    <2>3. IntentsUnlocked(after)
      BY <1>1, <2>2 DEF IntentsUnlocked, SameTab, IsLocked
    <2> HIDE DEF after
    <2>4. CASE phase' = "inspect" /\ sample' = [tab |-> t, label |-> label[t],
                                               lifecycle |-> evidence[t], target |-> None]
                 /\ ~IsLocked(after, t) /\ store' = after
      <3>1. running'
        BY <1>4, <2>4 DEF ObservesTab, ObserveFocusedTab, Due, Waiting, EndTick
      <3> QED
        BY <2>2, <2>3, <2>4, <3>1
        DEF IntentInv, IntentDiscipline, SampleDiscipline, IntentsUnlocked
    <2>5. CASE phase' = "wait" /\ store' = after
      BY <2>3, <2>5, CalmIntents
    <2> QED
      BY <1>4, <2>4, <2>5 DEF ObservesTab, EndTick, after
  <1> QED
    BY <1>2, <1>3, <1>4 DEF ObserveFocusedTab

(* What inspecting the pane does to the store and to the sample.            *)
LEMMA InspectEffects ==
    ASSUME TypeOK, running, phase = "inspect", NEW c \in Inspected(sample.tab), DecidesOn(c)
    PROVE  LET t == sample.tab
               d == Decision(decision, t, c, sample.label, store.baselines[t])
           IN  /\ t \in Tabs
               /\ \A u \in Tabs \ {t} : SameTab(store, store', u)
               /\ store'.intents = store.intents
               /\ d.kind = "create_manual_lock" =>
                    /\ store'.locks[t] = sample.label
                    /\ store'.baselines = store.baselines
                    /\ store.baselines[t] # None /\ store.baselines[t] # sample.label
               /\ d.kind = "record_baseline" =>
                    /\ store'.locks = store.locks
                    /\ store'.baselines[t] = sample.label
                    /\ d.label = sample.label
               /\ d.kind \notin {"create_manual_lock", "record_baseline"} => store' = store
               /\ d.kind = "rename" =>
                    /\ phase' = "revalidate"
                    /\ sample' = [sample EXCEPT !.target = d.label]
                    /\ UNCHANGED running
                    /\ store.baselines[t] \in {None, sample.label}
               /\ d.kind # "rename" => phase' = "wait" /\ UNCHANGED running
  <1> DEFINE t == sample.tab
             d == Decision(decision, t, c, sample.label, store.baselines[t])
  <1>1. /\ store \in Store /\ decision \in DecisionState
        /\ t \in Tabs /\ sample.label \in Labels /\ c \in Maybe(Candidates)
    BY RefreshConstants DEF TypeOK, HerdrOK, DiskOK, RuntimeOK, Sample, Inspected
  <1>2. store' = StoreAfterDecision(t, d)
    BY DEF DecidesOn
  <1>3. d.kind # "skip_no_candidate" => d.label \in Labels
    BY <1>1, DecisionLabel
  <1>4. /\ d.kind = "create_manual_lock" =>
             /\ d.label = sample.label
             /\ store.baselines[t] # None /\ store.baselines[t] # sample.label
        /\ d.kind = "record_baseline" => d.label = sample.label
        /\ d.kind = "rename" => store.baselines[t] \in {None, sample.label}
    <2>1. CASE c = None
      BY <2>1 DEF Decision
    <2>2. CASE c # None
      <3> DEFINE stable == StableLabel(decision, t, c)
      <3>1. CASE DetectManualLock(sample.label, store.baselines[t], stable)
        BY <2>2, <3>1 DEF Decision, DetectManualLock
      <3>2. CASE ~DetectManualLock(sample.label, store.baselines[t], stable)
        <4>1. d = IF stable = None THEN [kind |-> "defer", label |-> c.label]
                  ELSE IF stable = sample.label
                  THEN [kind |-> "record_baseline", label |-> stable]
                  ELSE [kind |-> "rename", label |-> stable]
          BY <2>2, <3>2 DEF Decision
        <4>2. \/ store.baselines[t] \in {None, sample.label}
              \/ stable = sample.label
          BY <3>2 DEF DetectManualLock
        <4>3. sample.label # None
          BY <1>1, NoneIsFresh
        <4> HIDE DEF stable, d
        <4> QED
          BY <4>1, <4>2, <4>3
      <3> QED
        BY <3>1, <3>2
    <2> QED
      BY <2>1, <2>2
  <1>5. /\ d.kind = "rename" =>
             /\ phase' = "revalidate"
             /\ sample' = [sample EXCEPT !.target = d.label]
             /\ UNCHANGED running
        /\ d.kind # "rename" => phase' = "wait" /\ UNCHANGED running
    BY DEF DecidesOn, EndTick
  <1> HIDE DEF d, t
  <1>6. CASE d.kind = "create_manual_lock"
    <2>1. store' = LockTab(store, t, sample.label)
      BY <1>2, <1>4, <1>6 DEF StoreAfterDecision
    <2> QED
      BY <1>1, <1>4, <1>5, <1>6, <2>1, StoreEditEffects DEF d, t
  <1>7. CASE d.kind = "record_baseline"
    <2>1. store' = RecordPluginLabel(store, t, sample.label)
      BY <1>2, <1>4, <1>7 DEF StoreAfterDecision
    <2> QED
      BY <1>1, <1>4, <1>5, <1>7, <2>1, StoreEditEffects DEF d, t
  <1>8. CASE d.kind \notin {"create_manual_lock", "record_baseline"}
    <2>1. store' = store
      BY <1>2, <1>8 DEF StoreAfterDecision
    <2> QED
      BY <1>1, <1>4, <1>5, <1>8, <2>1 DEF d, t, SameTab
  <1> QED
    BY <1>6, <1>7, <1>8

LEMMA InspectIntents == TypeOK /\ IntentInv /\ InspectPane => IntentInv'
  <1> SUFFICES ASSUME TypeOK, IntentInv, InspectPane PROVE IntentInv'
    OBVIOUS
  <1>1. IntentsUnlocked(store)
    BY DEF IntentInv, IntentDiscipline, IntentsUnlocked
  <1>2. CASE StoreFault
    BY <1>1, <1>2, CalmIntents DEF StoreFault, ExitLoop
  <1>3. ASSUME NEW c \in Inspected(sample.tab), DecidesOn(c) PROVE IntentInv'
    <2> DEFINE t == sample.tab
               d == Decision(decision, t, c, sample.label, store.baselines[t])
    <2>1. running /\ phase = "inspect"
      BY DEF InspectPane
    <2>2. store.intents[t] = None /\ ~IsLocked(store, t)
      BY <2>1 DEF IntentInv, IntentDiscipline, SampleDiscipline
    <2>3. /\ \A u \in Tabs \ {t} : SameTab(store, store', u)
          /\ store'.intents = store.intents
      BY <1>3, <2>1, InspectEffects
    <2>4. IntentsUnlocked(store')
      BY <1>1, <2>2, <2>3 DEF IntentsUnlocked, SameTab, IsLocked
    <2>5. CASE d.kind = "rename"
      <3>1. /\ phase' = "revalidate" /\ running' /\ store' = store
            /\ sample' = [sample EXCEPT !.target = d.label]
        BY <1>3, <2>1, <2>5, InspectEffects
      <3>2. sample'.tab = t
        BY <2>1, <3>1 DEF TypeOK, RuntimeOK, Sample
      <3> QED
        BY <2>2, <2>4, <3>1, <3>2
        DEF IntentInv, IntentDiscipline, SampleDiscipline, IntentsUnlocked
    <2>6. CASE d.kind # "rename"
      <3>1. phase' = "wait"
        BY <1>3, <2>1, <2>6, InspectEffects
      <3> QED
        BY <2>4, <3>1, CalmIntents
    <2> QED
      BY <2>5, <2>6
  <1> QED
    BY <1>2, <1>3 DEF InspectPane

LEMMA ConfirmIntents == TypeOK /\ IntentInv /\ ConfirmCandidate => IntentInv'
  <1> SUFFICES ASSUME TypeOK, IntentInv, ConfirmCandidate PROVE IntentInv'
    OBVIOUS
  <1>1. IntentsUnlocked(store)
    BY DEF IntentInv, IntentDiscipline, IntentsUnlocked
  <1>2. CASE store' = RecordIntent(store, sample.tab, NewIntent)
             /\ phase' = "rename" /\ UNCHANGED <<running, sample>>
    <2>1. /\ phase = "confirm" /\ running /\ ~IsLocked(store, sample.tab)
          /\ store \in Store /\ sample.tab \in Tabs /\ NewIntent \in Intent
      BY DEF ConfirmCandidate, IntentInv, SampleDiscipline, TypeOK, DiskOK, RuntimeOK,
             Sample, NewIntent, Intent
    <2>2. /\ \A u \in Tabs \ {sample.tab} : SameTab(store, store', u)
          /\ store'.locks = store.locks
          /\ store'.intents[sample.tab] = NewIntent
      BY <1>2, <2>1, StoreEditEffects
    <2>3. IntentsUnlocked(store')
      BY <1>1, <2>1, <2>2 DEF IntentsUnlocked, SameTab, IsLocked
    <2>4. NewIntent' = NewIntent
      BY <1>2 DEF NewIntent
    <2> QED
      BY <1>2, <2>1, <2>2, <2>3, <2>4
      DEF IntentInv, IntentDiscipline, SampleDiscipline, IntentsUnlocked, IsLocked
  <1>3. CASE phase' = "wait" /\ UNCHANGED store
    BY <1>1, <1>3, CalmIntents
  <1> QED
    BY <1>2, <1>3 DEF ConfirmCandidate, EndTick, ExitLoop

LEMMA RevalidateIntents == IntentInv /\ RevalidateObservation => IntentInv'
  <1> SUFFICES ASSUME IntentInv, RevalidateObservation PROVE IntentInv'
    OBVIOUS
  <1>1. IntentsUnlocked(store)
    BY DEF IntentInv, IntentDiscipline, IntentsUnlocked
  <1>2. CASE phase' = "confirm" /\ UNCHANGED <<running, sample, store>>
    BY <1>2 DEF IntentInv, IntentDiscipline, SampleDiscipline, IsLocked, RevalidateObservation
  <1>3. CASE phase' = "wait" /\ UNCHANGED store
    BY <1>1, <1>3, CalmIntents
  <1> QED
    BY <1>2, <1>3 DEF RevalidateObservation, EndTick, StoreFault, ExitLoop

(* The remaining steps leave the store alone and end a tick, if anything.   *)
LEMMA QuietStepIntents ==
    IntentInv /\ (Environment \/ IdleTick \/ RenameTab \/ Failure \/ OwnerStarts \/ Tick)
      => IntentInv'
  <1> SUFFICES ASSUME IntentInv,
                      Environment \/ IdleTick \/ RenameTab \/ Failure \/ OwnerStarts \/ Tick
               PROVE  IntentInv'
    OBVIOUS
  <1>1. IntentsUnlocked(store)
    BY DEF IntentInv, IntentDiscipline, IntentsUnlocked
  <1>2. CASE Environment
    BY <1>2, SameIntents
    DEF Environment, UserRename, ProgramChange, FocusChange, ViewChange, ReuseTab,
        LateRename, DamageStore, diskVars, runtimeVars
  <1>3. CASE IdleTick
    BY <1>1, <1>3, CalmIntents DEF IdleTick, EndTick, diskVars
  <1>4. CASE RenameTab
    BY <1>1, <1>4, CalmIntents DEF RenameTab, EndTick, diskVars
  <1>5. CASE Failure
    BY <1>1, <1>5, CalmIntents
    DEF Failure, RenameFails, SnapshotFails, OwnerExits, EndTick, ExitLoop, diskVars
  <1>6. CASE OwnerStarts
    BY <1>1, <1>6, CalmIntents DEF OwnerStarts, diskVars
  <1>7. CASE Tick
    BY <1>7, SameIntents DEF Tick, diskVars
  <1> QED
    BY <1>2, <1>3, <1>4, <1>5, <1>6, <1>7

LEMMA InitIntents == Init => IntentInv
  BY DEF Init, EmptyStore, IntentInv, IntentDiscipline, SampleDiscipline

LEMMA NextIntents == TypeOK /\ IntentInv /\ [Next]_vars => IntentInv'
  <1>1. IntentInv /\ UNCHANGED vars => IntentInv'
    BY SameIntents DEF vars, diskVars, runtimeVars
  <1> QED
    BY <1>1, ControlIntents, ObserveIntents, InspectIntents, ConfirmIntents,
       RevalidateIntents, QuietStepIntents
    DEF Next, Sampling

LEMMA IntentInvariant == Spec => [](TypeOK /\ IntentInv)
  BY InitType, NextType, InitIntents, NextIntents, PTL DEF Spec

(* An unresolved intent and a lock exclude each other, and a sample meets   *)
(* no intent but its own: record_automatic_rename_intent never finds an     *)
(* older one, so UnresolvedRenameIntent ends no owner, whatever crashes.    *)
THEOREM IntentsDisciplined == Spec => []IntentDiscipline
  BY IntentInvariant, PTL DEF IntentInv

-------------------------------------------------------------------------------
(* Writes: the plugin changes a label in the step of tab.rename, and a      *)
(* rename it gave up on is the one it was about to make.                    *)

LEMMA WritesAreRenames ==
    ASSUME TypeOK, [Next]_vars, NEW t \in Tabs, PluginWrites(t)
    PROVE  RenameTab /\ t = sample.tab
  <1>1. label'[t] # label[t] /\ author'[t] = "plugin" /\ ~AppliesLate(t)
    BY DEF PluginWrites
  <1>2. author \in [Tabs -> Authors] /\ label \in [Tabs -> Labels] /\ late \in SUBSET Late
    BY DEF TypeOK, HerdrOK
  <1>3. CASE Environment
    <2>1. ASSUME NEW u \in Tabs, NEW l \in Labels, UserRename(u, l) PROVE FALSE
      BY <1>1, <1>2, <2>1 DEF UserRename
    <2>2. ASSUME NEW u \in Tabs, NEW e \in Evidence, ReuseTab(u, e) PROVE FALSE
      <3>1. label' = [label EXCEPT ![u] = NumberLabel[e]]
        BY <2>2 DEF ReuseTab
      <3>2. u = t
        BY <1>1, <1>2, <3>1
      <3>3. author'[t] = Mark(t, NumberLabel[e], "herdr")
        BY <1>2, <2>2, <3>2 DEF ReuseTab
      <3> QED
        BY <1>1, <3>3 DEF Mark
    <2>3. ASSUME NEW r \in late, LateRename(r) PROVE FALSE
      <3>1. label' = [label EXCEPT ![r.tab] = r.label] /\ r \in late \ late'
        BY <2>3 DEF LateRename
      <3>2. r.tab = t
        BY <1>1, <1>2, <3>1
      <3> QED
        BY <1>1, <3>1, <3>2 DEF AppliesLate
    <2> QED
      BY <1>1, <1>3, <2>1, <2>2, <2>3
      DEF Environment, ProgramChange, FocusChange, ViewChange, DamageStore, herdrVars
  <1>4. CASE Control
    BY <1>1, <1>4 DEF Control, Trigger, UnlockFocused, UnlockAllTabs, RepairDiscard,
                      ForgetSession, ReloadConfig, herdrVars
  <1>5. CASE RenameTab
    <2>1. label' = [label EXCEPT ![sample.tab] = sample.target]
      BY <1>5 DEF RenameTab
    <2>2. t = sample.tab
      BY <1>1, <1>2, <2>1
    <2> QED
      BY <1>5, <2>2
  <1>6. CASE Sampling /\ ~RenameTab
    BY <1>1, <1>6 DEF Sampling, IdleTick, ObserveFocusedTab, InspectPane,
                      RevalidateObservation, ConfirmCandidate, herdrVars
  <1>7. CASE Failure \/ OwnerStarts \/ Tick
    BY <1>1, <1>7 DEF Failure, RenameFails, SnapshotFails, OwnerExits, OwnerStarts, Tick,
                      herdrVars
  <1>8. CASE UNCHANGED vars
    BY <1>1, <1>8 DEF vars, herdrVars
  <1> QED
    BY <1>3, <1>4, <1>5, <1>6, <1>7, <1>8 DEF Next, Sampling

LEMMA GivenUp ==
    ASSUME TypeOK, [Next]_vars, NEW r \in late' \ late
    PROVE  RenameFails /\ r = [tab |-> sample.tab, label |-> sample.target]
  <1>1. CASE RenameFails
    BY <1>1 DEF RenameFails
  <1>2. CASE Environment
    BY <1>2 DEF Environment, UserRename, ProgramChange, FocusChange, ViewChange, ReuseTab,
                LateRename, DamageStore, herdrVars
  <1>3. CASE Control
    BY <1>3 DEF Control, Trigger, UnlockFocused, UnlockAllTabs, RepairDiscard,
                ForgetSession, ReloadConfig, herdrVars
  <1>4. CASE Sampling
    BY <1>4 DEF Sampling, IdleTick, ObserveFocusedTab, InspectPane,
                RevalidateObservation, ConfirmCandidate, RenameTab, herdrVars
  <1>5. CASE SnapshotFails \/ OwnerExits \/ OwnerStarts \/ Tick
    BY <1>5 DEF SnapshotFails, OwnerExits, OwnerStarts, Tick, herdrVars
  <1>6. CASE UNCHANGED vars
    BY <1>6 DEF vars, herdrVars
  <1> QED
    BY <1>1, <1>2, <1>3, <1>4, <1>5, <1>6 DEF Next, Failure

LEMMA RenamesAreAnnounced ==
    ASSUME TypeOK, IntentInv, phase = "rename"
    PROVE  Announced(sample.tab, sample.target)
  <1>1. sample \in Sample /\ sample.target # None
    BY DEF TypeOK, RuntimeOK
  <1>2. sample.target \in Labels
    BY <1>1 DEF Sample, Maybe
  <1>3. store.intents[sample.tab] = NewIntent /\ ~IsLocked(store, sample.tab)
    BY DEF IntentInv, IntentDiscipline, SampleDiscipline
  <1>4. NewIntent \in Intent /\ NewIntent.intended = sample.target
    BY <1>1, <1>2 DEF NewIntent, Intent, Sample
  <1> QED
    BY <1>3, <1>4, NoneIsNoIntent DEF Announced

(* When the plugin changes a label, or gives up on changing it, the intent  *)
(* that explains the change is already on disk and the tab is not locked,   *)
(* whatever was crashed, damaged, delayed or typed in between               *)
(* (execute_one_shot).                                                      *)
THEOREM RenamesAreWrittenAhead == Spec => RenameIsWriteAhead
  <1>1. ASSUME TypeOK, IntentInv, [Next]_vars, NEW t \in Tabs, PluginWrites(t)
        PROVE  Announced(t, label'[t])
    <2>1. RenameTab /\ t = sample.tab
      BY <1>1, WritesAreRenames
    <2>2. phase = "rename" /\ label'[t] = sample.target
      BY <1>1, <2>1 DEF RenameTab, TypeOK, HerdrOK
    <2> QED
      BY <1>1, <2>1, <2>2, RenamesAreAnnounced
  <1>2. ASSUME TypeOK, IntentInv, [Next]_vars, NEW r \in late' \ late
        PROVE  Announced(r.tab, r.label)
    <2>1. phase = "rename" /\ r = [tab |-> sample.tab, label |-> sample.target]
      BY <1>2, GivenUp DEF RenameFails
    <2> QED
      BY <1>2, <2>1, RenamesAreAnnounced
  <1>3. TypeOK /\ IntentInv /\ [Next]_vars =>
          [/\ \A t \in Tabs : PluginWrites(t) => Announced(t, label'[t])
           /\ \A r \in late' \ late : Announced(r.tab, r.label)]_vars
    BY <1>1, <1>2
  <1> QED
    BY <1>3, IntentInvariant, PTL DEF Spec, RenameIsWriteAhead

-------------------------------------------------------------------------------
(* What an evaluation has to see before it renames, and what it may ask for. *)

DecidesToRename == phase = "inspect" /\ phase' = "revalidate"

(* A candidate of which nothing is stable yet is stable after as many looks *)
(* in a row as the policy requires.                                         *)
LEMMA StableIsSeen ==
    ASSUME NEW d \in DecisionState, SeenNow(d), NEW t \in Tabs, NEW c \in Candidates,
           StableLabel(d, t, c) # None
    PROVE  d.eval.samples + 1 >= RequiredObservations
  <1> DEFINE s == d.stability[t]
             e == Effective(s, c)
  <1>1. /\ s \in StabilityState /\ s.count \in Nat /\ s.count <= d.eval.samples
        /\ d.eval.samples \in Nat /\ s.lastStable = None
    BY DecisionConstants DEF DecisionState, Evaluation, StabilityState, SeenNow
  <1>2. e \in Candidates
    BY <1>1, EffectiveType
  <1>3. Verdict(s, c) # "pending" /\ s.lastStable # e
    BY <1>1, <1>2, NoneIsFresh DEF StableLabel
  <1>4. Consecutive(s, e) >= RequiredObservations
    BY <1>3 DEF Verdict
  <1>5. Consecutive(s, e) <= s.count + 1 /\ Consecutive(s, e) \in Nat
    BY <1>1 DEF Consecutive, CountLimit, StabilityState
  <1> HIDE DEF s, e
  <1> QED
    BY <1>1, <1>4, <1>5, StabilityConstants

(* A rename is only decided on when the same evaluation has looked at the   *)
(* tab as often as the stability policy requires (a foreground process that *)
(* is seen once renames nothing, however the evaluation came about).        *)
THEOREM RenamesAreSeenEnough ==
    Spec => [][DecidesToRename => decision.eval.samples + 1 >= RequiredObservations]_vars
  <1>1. ASSUME TypeOK, HistoryAgrees, [Next]_vars, DecidesToRename
        PROVE  decision.eval.samples + 1 >= RequiredObservations
    <2>1. InspectPane
      <3>1. ~Environment /\ ~(UNCHANGED vars)
        BY <1>1 DEF DecidesToRename, Environment, UserRename, ProgramChange, FocusChange,
                    ViewChange, ReuseTab, LateRename, DamageStore, vars, runtimeVars
      <3>2. ~Control
        BY <1>1 DEF DecidesToRename, Control, Trigger, UnlockFocused, UnlockAllTabs,
                    RepairDiscard, ForgetSession, ReloadConfig, runtimeVars
      <3>3. Sampling => InspectPane
        BY <1>1 DEF DecidesToRename, Sampling, IdleTick, Due, Waiting, ObserveFocusedTab,
                    RevalidateObservation, ConfirmCandidate, RenameTab
      <3>4. ~Failure /\ ~OwnerStarts /\ ~Tick
        BY <1>1 DEF DecidesToRename, Failure, RenameFails, SnapshotFails, OwnerExits,
                    EndTick, ExitLoop, OwnerStarts, Tick
      <3> QED
        BY <1>1, <3>1, <3>2, <3>3, <3>4 DEF Next
    <2>2. PICK c \in Inspected(sample.tab) : DecidesOn(c)
      BY <1>1, <2>1 DEF DecidesToRename, InspectPane, StoreFault, ExitLoop
    <2> DEFINE t == sample.tab
               d == Decision(decision, t, c, sample.label, store.baselines[t])
    <2>3. d.kind = "rename"
      BY <1>1, <2>2 DEF DecidesToRename, DecidesOn, EndTick
    <2>4. t \in Tabs /\ c \in Maybe(Candidates) /\ decision \in DecisionState
      BY <1>1, RefreshConstants
      DEF DecidesToRename, TypeOK, HerdrOK, RuntimeOK, Sample, Inspected
    <2>5. c # None /\ StableLabel(decision, t, c) # None
      BY <2>3 DEF Decision
    <2>6. SeenNow(decision)
      BY <1>1 DEF HistoryAgrees, SeenNow
    <2> QED
      BY <2>4, <2>5, <2>6, StableIsSeen
  <1>2. TypeOK /\ HistoryAgrees /\ [Next]_vars =>
          [DecidesToRename => decision.eval.samples + 1 >= RequiredObservations]_vars
    BY <1>1
  <1> QED
    BY <1>2, InitType, NextType, HistoryAgreement, PTL DEF Spec

(* The sample of an evaluation begins with a snapshot; one that fails is    *)
(* not counted by record_sample, which is all that bounds the samples.      *)
SnapshotAnswered == ~(StartsSample /\ SnapshotFails)

SamplesCounted ==
    /\ attempts \in 0..MaxSamples
    /\ running /\ decision.eval.active =>
         /\ decision.eval.samples < MaxSamples
         /\ attempts <= decision.eval.samples + (IF phase = "inspect" THEN 1 ELSE 0)

LEMMA HistoryRefines == HistoryNext => Next
  BY DEF HistoryNext, Next, Sampling, Failure

LEMMA IdleAttempts ==
    ASSUME SamplesCounted, UNCHANGED attempts, ~running' \/ ~decision'.eval.active
    PROVE  SamplesCounted'
  BY DEF SamplesCounted

(* The decision goes on as it is, outside the look at the pane.             *)
LEMMA SameAttempts ==
    ASSUME TypeOK, SamplesCounted, UNCHANGED <<attempts, running, decision>>,
           phase # "inspect" \/ phase' = phase
    PROVE  SamplesCounted'
  <1>1. attempts \in Nat /\ decision.eval.samples \in Nat
    BY DecisionConstants DEF SamplesCounted, TypeOK, RuntimeOK, DecisionState, Evaluation
  <1> QED
    BY <1>1 DEF SamplesCounted

LEMMA AttemptCounted ==
    ASSUME TypeOK, SamplesCounted, ObserveFocusedTab, CountAttempt
    PROVE  SamplesCounted'
  <1>1. /\ StartsSample /\ running /\ phase = "wait"
        /\ decision \in DecisionState /\ decision.eval.samples \in Nat
    BY DecisionConstants
    DEF ObserveFocusedTab, StartsSample, Due, Waiting, TypeOK, RuntimeOK, DecisionState, Evaluation
  <1>2. /\ attempts' = IF decision.eval.active THEN attempts + 1 ELSE 1
        /\ decision.eval.active =>
             decision.eval.samples < MaxSamples /\ attempts <= decision.eval.samples
        /\ attempts \in Nat
    BY <1>1 DEF CountAttempt, SamplesCounted
  <1>3. attempts' \in 0..MaxSamples
    BY <1>1, <1>2, DecisionConstants
  <1>4. /\ ~Complete(Begin(decision)).eval.active
        /\ Begin(decision).eval.samples =
             IF decision.eval.active THEN decision.eval.samples ELSE 0
        /\ \A t \in Tabs : ResetTab(Begin(decision), t).eval = Begin(decision).eval
    <2>1. Begin(decision) \in DecisionState
      BY <1>1, BeginType
    <2> QED
      BY <1>1, <2>1 DEF Complete, Begin, NoEvaluation, ResetTab, DecisionState
  <1>5. \/ ~running'
        \/ ~decision'.eval.active
        \/ phase' = "inspect" /\ decision'.eval = Begin(decision).eval
    BY <1>4 DEF ObserveFocusedTab, ObservesNothing, ObservesTab, StoreFault, EndTick, ExitLoop
  <1>6. CASE phase' = "inspect" /\ decision'.eval = Begin(decision).eval
    BY <1>1, <1>2, <1>3, <1>4, <1>6, DecisionConstants DEF SamplesCounted
  <1> QED
    BY <1>3, <1>5, <1>6 DEF SamplesCounted

LEMMA InspectionCounted ==
    ASSUME TypeOK, SamplesCounted, InspectPane, UNCHANGED attempts
    PROVE  SamplesCounted'
  <1>1. CASE StoreFault
    BY <1>1, IdleAttempts DEF StoreFault, ExitLoop
  <1>2. ASSUME NEW c \in Inspected(sample.tab), DecidesOn(c) PROVE SamplesCounted'
    <2> DEFINE kind == Decision(decision, sample.tab, c, sample.label,
                                store.baselines[sample.tab]).kind
               observed == IF c = None THEN decision
                           ELSE [decision EXCEPT !.stability[sample.tab] =
                                   Observe(decision.stability[sample.tab], c)]
    <2>1. /\ running /\ phase = "inspect" /\ decision \in DecisionState
          /\ sample.tab \in Tabs /\ c \in Maybe(Candidates)
          /\ decision.eval.samples \in Nat
      BY DecisionConstants, RefreshConstants
      DEF InspectPane, TypeOK, HerdrOK, RuntimeOK, Sample, Inspected, DecisionState, Evaluation
    <2>2. decision' = RecordSample(observed, kind # "defer")
      BY <1>2 DEF DecidesOn, AfterDecision, EndTick
    <2>3. observed \in DecisionState /\ observed.eval = decision.eval
      <3>1. CASE c = None
        BY <2>1, <3>1
      <3>2. CASE c # None
        <4>1. Observe(decision.stability[sample.tab], c) \in StabilityState
          BY <2>1, <3>2, ObserveType DEF Maybe, DecisionState
        <4> QED
          BY <2>1, <3>2, <4>1 DEF DecisionState
      <3> QED
        BY <3>1, <3>2
    <2> HIDE DEF observed, kind
    <2>4. CASE kind # "defer" \/ observed.eval.samples + 1 >= MaxSamples
      <3>1. decision' = Complete(observed)
        BY <2>2, <2>4 DEF RecordSample
      <3>2. ~decision'.eval.active
        BY <2>3, <3>1 DEF Complete, NoEvaluation, DecisionState
      <3> QED
        BY <3>2, IdleAttempts
    <2>5. CASE ~(kind # "defer" \/ observed.eval.samples + 1 >= MaxSamples)
      <3>1. decision' = [observed EXCEPT !.eval.samples = observed.eval.samples + 1,
                                         !.eval.again = Poll]
        BY <2>2, <2>5, Zenon DEF RecordSample
      <3>2. /\ decision'.eval.samples = decision.eval.samples + 1
            /\ decision'.eval.active = decision.eval.active
        BY <2>3, <3>1, CountedSample
      <3>3. decision'.eval.samples < MaxSamples
        BY <2>1, <2>3, <2>5, <3>2, DecisionConstants
      <3>4. running' = running /\ phase' # "inspect"
        BY <1>2, <2>1, InspectEffects
      <3> QED
        BY <2>1, <3>2, <3>3, <3>4, DecisionConstants DEF SamplesCounted
    <2> QED
      BY <2>4, <2>5
  <1> QED
    BY <1>1, <1>2 DEF InspectPane

LEMMA NextCounted ==
    TypeOK /\ SamplesCounted /\ [HistoryNext /\ SnapshotAnswered]_historyVars => SamplesCounted'
  <1> SUFFICES ASSUME TypeOK, SamplesCounted, [HistoryNext /\ SnapshotAnswered]_historyVars
               PROVE  SamplesCounted'
    OBVIOUS
  <1>1. decision \in DecisionState /\ Begin(decision) \in DecisionState
    BY BeginType DEF TypeOK, RuntimeOK
  <1>2. CASE ObserveFocusedTab /\ CountAttempt
    BY <1>2, AttemptCounted
  <1>3. CASE SnapshotFails /\ CountAttempt /\ SnapshotAnswered
    <2>1. UNCHANGED <<running, attempts, decision>> /\ phase = "revalidate"
      BY <1>3 DEF SnapshotFails, CountAttempt, SnapshotAnswered, StartsSample, EndTick
    <2> QED
      BY <2>1, SameAttempts
  <1>4. CASE Environment /\ UNCHANGED attempts
    BY <1>4, SameAttempts
    DEF Environment, UserRename, ProgramChange, FocusChange, ViewChange, ReuseTab,
        LateRename, DamageStore, runtimeVars
  <1>5. CASE Control /\ UNCHANGED attempts
    <2>1. \A d : ~NoteTrigger(d).eval.active
      BY DEF NoteTrigger, NoEvaluation
    <2>2. CASE decision' = decision
      BY <1>5, <2>2, SameAttempts
      DEF Control, Trigger, UnlockFocused, UnlockAllTabs, RepairDiscard, ForgetSession,
          ReloadConfig, runtimeVars
    <2>3. CASE ~decision'.eval.active
      BY <1>5, <2>3, IdleAttempts
    <2> QED
      BY <1>5, <2>1, <2>2, <2>3
      DEF Control, Trigger, UnlockFocused, UnlockAllTabs, RepairDiscard, ForgetSession,
          ReloadConfig, NoteRefreshTrigger, runtimeVars
  <1>6. CASE Tick /\ UNCHANGED attempts
    <2>1. Elapse(decision).eval.samples = decision.eval.samples
          /\ Elapse(decision).eval.active = decision.eval.active
      BY <1>1 DEF Elapse, DecisionState, Evaluation
    <2>2. decision' = Elapse(decision) /\ UNCHANGED <<running, phase>>
      BY <1>6 DEF Tick
    <2> QED
      BY <1>6, <2>1, <2>2 DEF SamplesCounted
  <1>7. CASE IdleTick /\ UNCHANGED attempts
    <2>1. ~Complete(Begin(decision)).eval.active
      BY <1>1 DEF Complete, NoEvaluation, DecisionState
    <2>2. CASE decision' = decision
      BY <1>7, <2>2, SameAttempts DEF IdleTick, Due, Waiting, EndTick
    <2> QED
      BY <1>7, <2>1, <2>2, IdleAttempts DEF IdleTick, EndTick
  <1>8. CASE InspectPane /\ UNCHANGED attempts
    BY <1>8, InspectionCounted
  <1>9. CASE (RevalidateObservation \/ ConfirmCandidate \/ RenameTab \/ RenameFails)
             /\ UNCHANGED attempts
    <2>1. phase # "inspect" /\ UNCHANGED decision
      BY <1>9 DEF RevalidateObservation, ConfirmCandidate, RenameTab, RenameFails,
                  StoreFault, ExitLoop, EndTick
    <2>2. ~running' \/ UNCHANGED running
      BY <1>9 DEF RevalidateObservation, ConfirmCandidate, RenameTab, RenameFails,
                  StoreFault, ExitLoop, EndTick
    <2> QED
      BY <1>9, <2>1, <2>2, SameAttempts, IdleAttempts
  <1>10. CASE (OwnerExits \/ OwnerStarts) /\ attempts' = 0
    <2>1. ~running' \/ ~decision'.eval.active
      BY <1>10 DEF OwnerExits, OwnerStarts, ExitLoop, NoteTrigger, NoEvaluation
    <2> QED
      BY <1>10, <2>1, DecisionConstants DEF SamplesCounted
  <1>11. CASE UNCHANGED historyVars
    BY <1>11 DEF historyVars, vars, runtimeVars, SamplesCounted
  <1> QED
    BY <1>2, <1>3, <1>4, <1>5, <1>6, <1>7, <1>8, <1>9, <1>10, <1>11 DEF HistoryNext

(* One evaluation asks for at most three samples, whatever triggers,        *)
(* crashes, reloads and late changes come in between, as long as the        *)
(* snapshots that begin its samples are answered: only a failed one is      *)
(* asked for again without being counted.                                   *)
THEOREM AnsweredSamplesAreBounded ==
    HistorySpec /\ [][SnapshotAnswered]_historyVars => []AtMostThreeSamples
  <1>1. HistoryInit => TypeOK /\ SamplesCounted
    BY InitType, DecisionConstants DEF HistoryInit, Init, SamplesCounted
  <1>2. TypeOK /\ SamplesCounted /\ [HistoryNext]_historyVars /\ [SnapshotAnswered]_historyVars
          => TypeOK' /\ SamplesCounted'
    <2>1. [HistoryNext]_historyVars => [Next]_vars
      BY HistoryRefines DEF historyVars
    <2> QED
      BY <2>1, NextType, NextCounted
  <1>3. SamplesCounted => AtMostThreeSamples
    BY DecisionConstants DEF SamplesCounted, AtMostThreeSamples
  <1> QED
    BY <1>1, <1>2, <1>3, PTL DEF HistorySpec
==============================================================================
