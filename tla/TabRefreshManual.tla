--------------------------- MODULE TabRefreshManual ---------------------------
(***************************************************************************)
(* What the plugin may take for manual intent, and that it keeps what it    *)
(* took: LocksAreManual and ManualLabelKept of TabRefresh.                  *)
(***************************************************************************)
EXTENDS TabRefreshProofs

USE DEF Maybe

-------------------------------------------------------------------------------
(* Locks are manual.  A label that is neither the user's nor a stray is     *)
(* accounted for by the store: it is the baseline, or one end of the        *)
(* unresolved intent, or the store knows nothing of the tab.                *)

Foreign == {"user", "stray"}

SampleCurrent ==
    phase # "wait" /\ author[sample.tab] \notin Foreign => label[sample.tab] = sample.label

LabelAccounted == \A t \in Tabs : author[t] \notin Foreign => Accounted(store, label[t], t)

AccountInv == SampleCurrent /\ LabelAccounted

(* A step that only edits the store keeps the account of every tab, if it   *)
(* keeps it for the stores.                                                 *)
LEMMA StoreStepAccounted ==
    ASSUME AccountInv, UNCHANGED <<label, author>>,
           phase' = "wait" \/ UNCHANGED <<phase, sample>>,
           \A t \in Tabs : author[t] \notin Foreign /\ Accounted(store, label[t], t)
                             => Accounted(store', label[t], t)
    PROVE  AccountInv'
  BY DEF AccountInv, SampleCurrent, LabelAccounted

LEMMA SameAccounted ==
    ASSUME AccountInv, UNCHANGED <<label, author, store>>,
           phase' = "wait" \/ UNCHANGED <<phase, sample>>
    PROVE  AccountInv'
  BY StoreStepAccounted

(* A label that comes to a tab behind the back of the runtime is Herdr's or *)
(* the plugin's only if the store can account for it.                       *)
LEMMA LabelComesAccounted ==
    ASSUME TypeOK, AccountInv, NEW t \in Tabs, NEW l \in Labels, NEW who \in Authors,
           label' = [label EXCEPT ![t] = l], author' = [author EXCEPT ![t] = who],
           UNCHANGED <<store, phase, sample>>,
           who \notin Foreign => Accounted(store, l, t) /\ ~Sampled(t)
    PROVE  AccountInv'
  <1>1. author \in [Tabs -> Authors] /\ label \in [Tabs -> Labels]
    BY DEF TypeOK, HerdrOK
  <1>2. LabelAccounted'
    <2> SUFFICES ASSUME NEW u \in Tabs, author'[u] \notin Foreign
                 PROVE  Accounted(store', label'[u], u)
      BY DEF LabelAccounted
    <2>1. CASE u = t
      <3>1. author'[u] = who /\ label'[u] = l
        BY <1>1, <2>1
      <3> QED
        BY <2>1, <3>1
    <2>2. CASE u # t
      <3>1. author'[u] = author[u] /\ label'[u] = label[u]
        BY <1>1, <2>2
      <3> QED
        BY <3>1 DEF AccountInv, LabelAccounted
    <2> QED
      BY <2>1, <2>2
  <1>3. SampleCurrent'
    <2> SUFFICES ASSUME phase # "wait", author'[sample.tab] \notin Foreign
                 PROVE  label'[sample.tab] = sample.label
      BY DEF SampleCurrent
    <2>1. sample.tab \in Tabs
      BY DEF TypeOK, RuntimeOK, Sample
    <2>2. sample.tab # t
      BY <1>1, <2>1 DEF Sampled
    <2> QED
      BY <1>1, <2>1, <2>2 DEF AccountInv, SampleCurrent
  <1> QED
    BY <1>2, <1>3 DEF AccountInv

LEMMA MarkAccounts ==
    ASSUME NEW t, NEW l, NEW who
    PROVE  Mark(t, l, who) \notin Foreign => Accounted(store, l, t) /\ ~Sampled(t)
  BY DEF Mark, Foreign

LEMMA EnvironmentAccounted ==
    ASSUME TypeOK, AccountInv, Environment
    PROVE  AccountInv'
  <1>1. ASSUME NEW t \in Tabs, NEW l \in Labels, UserRename(t, l) PROVE AccountInv'
    <2>1. "user" \in Authors /\ "user" \in Foreign
      BY DEF Authors, Foreign
    <2> QED
      BY <1>1, <2>1, LabelComesAccounted DEF UserRename, diskVars, runtimeVars
  <1>2. ASSUME NEW t \in Tabs, NEW e \in Evidence, ReuseTab(t, e) PROVE AccountInv'
    <2>1. NumberLabel[e] \in Labels
      BY <1>2, DataTypes DEF ReuseTab
    <2>2. Mark(t, NumberLabel[e], "herdr") \in Authors
      BY MarkType DEF Authors
    <2> QED
      BY <1>2, <2>1, <2>2, MarkAccounts, LabelComesAccounted
      DEF ReuseTab, diskVars, runtimeVars
  <1>3. ASSUME NEW r \in late, LateRename(r) PROVE AccountInv'
    <2>1. r.tab \in Tabs /\ r.label \in Labels
      BY DEF TypeOK, HerdrOK, Late
    <2>2. Mark(r.tab, r.label, "plugin") \in Authors
      BY MarkType DEF Authors
    <2> QED
      BY <1>3, <2>1, <2>2, MarkAccounts, LabelComesAccounted
      DEF LateRename, diskVars, runtimeVars
  <1>4. ASSUME UNCHANGED <<label, author, store, phase, sample>> PROVE AccountInv'
    BY <1>4, SameAccounted
  <1>5. ASSUME NEW t \in Tabs, NEW c \in Maybe(Candidates), ProgramChange(t, c)
        PROVE  AccountInv'
    BY <1>4, <1>5 DEF ProgramChange, diskVars, runtimeVars
  <1>6. ASSUME NEW t \in Maybe(Tabs), FocusChange(t) PROVE AccountInv'
    BY <1>4, <1>6 DEF FocusChange, diskVars, runtimeVars
  <1>7. ASSUME NEW t \in Tabs, NEW e \in Evidence, ViewChange(t, e) PROVE AccountInv'
    BY <1>4, <1>7 DEF ViewChange, diskVars, runtimeVars
  <1>8. CASE DamageStore
    BY <1>4, <1>8 DEF DamageStore, herdrVars, runtimeVars
  <1> QED
    BY <1>1, <1>2, <1>3, <1>5, <1>6, <1>7, <1>8 DEF Environment

LEMMA ControlAccounted ==
    ASSUME TypeOK, IntentInv, AccountInv, Control
    PROVE  AccountInv'
  <1>1. store \in Store /\ focus \in Tabs \cup {None}
    BY DEF TypeOK, HerdrOK, DiskOK
  <1>2. CASE Trigger
    BY <1>2, SameAccounted DEF Trigger, herdrVars, diskVars
  <1>3. CASE ReloadConfig
    BY <1>3, SameAccounted DEF ReloadConfig, diskVars
  <1>4. CASE UnlockFocused
    <2>1. ASSUME NEW t \in Tabs, focus = t, NEW u \in Tabs, Accounted(store, label[u], u)
          PROVE  Accounted(UnlockTab(store, t), label[u], u)
      <3>1. /\ UnlockTab(store, t).intents = store.intents
            /\ UnlockTab(store, t).baselines[u] \in {store.baselines[u], None}
        BY <1>1, UnlockEffects DEF SameTab
      <3> QED
        BY <2>1, <3>1 DEF Accounted
    <2>2. store' = IF focus = None THEN store ELSE UnlockTab(store, focus)
      BY <1>4 DEF UnlockFocused
    <2>3. /\ UNCHANGED <<label, author>> /\ UNCHANGED <<phase, sample>>
      BY <1>4 DEF UnlockFocused, herdrVars
    <2>4. CASE focus = None
      BY <2>2, <2>3, <2>4, SameAccounted
    <2>5. CASE focus \in Tabs
      <3>1. store' = UnlockTab(store, focus)
        BY <2>2, <2>5, NoneIsFresh
      <3> QED
        BY <2>1, <2>3, <2>5, <3>1, StoreStepAccounted
    <2> QED
      BY <1>1, <2>4, <2>5
  <1>5. CASE UnlockAllTabs
    <2>1. ASSUME NEW u \in Tabs, Accounted(store, label[u], u)
          PROVE  Accounted(UnlockAll(store), label[u], u)
      <3>1. /\ UnlockAll(store).intents = store.intents
            /\ UnlockAll(store).baselines[u] \in {store.baselines[u], None}
        BY <1>1, UnlockEffects DEF SameTab
      <3> QED
        BY <2>1, <3>1 DEF Accounted
    <2> QED
      BY <1>5, <2>1, StoreStepAccounted DEF UnlockAllTabs, herdrVars
  <1>6. \A u \in Tabs : Accounted(EmptyStore, label[u], u)
    BY DEF Accounted, EmptyStore
  <1>7. CASE RepairDiscard
    BY <1>6, <1>7, StoreStepAccounted DEF RepairDiscard, herdrVars
  <1>8. CASE ForgetSession
    BY <1>6, <1>8, StoreStepAccounted DEF ForgetSession, herdrVars, runtimeVars
  <1> QED
    BY <1>2, <1>3, <1>4, <1>5, <1>7, <1>8 DEF Control

LEMMA ReconcileAccounted ==
    ASSUME NEW s \in Store, NEW t \in Tabs, NEW l \in Labels, NEW e \in Evidence,
           Accounted(s, l, t)
    PROVE  /\ Accounted(Reconcile(s, t, l, e), l, t)
           /\ ReconcileOutcome(s, t, l, e) # "manual_intent"
  <1> DEFINE out == ReconcileOutcome(s, t, l, e)
             r == Reconcile(s, t, l, e)
  <1>1. /\ r.intents[t] = None
        /\ out = "no_intent" => r = s
        /\ out = "reused_tab" => r.baselines[t] = None
        /\ out = "confirmed" => r.baselines[t] = l
        /\ out = "source_unchanged" =>
             /\ r.baselines[t] = s.baselines[t]
             /\ s.intents[t].previous = l /\ s.intents[t] # None
        /\ out = "manual_intent" =>
             /\ s.intents[t] # None
             /\ s.intents[t].intended # l /\ s.intents[t].previous # l
        /\ out \in {"no_intent", "reused_tab", "confirmed", "source_unchanged",
                    "manual_intent"}
    BY ReconcileEffects
  <1>2. out = "source_unchanged" => s.intents[t].intended # l
    BY DEF ReconcileOutcome
  <1> HIDE DEF out, r
  <1>3. out # "manual_intent"
    BY <1>1 DEF Accounted
  <1> QED
    BY <1>1, <1>2, <1>3 DEF Accounted, out, r

LEMMA ObserveAccounted ==
    ASSUME TypeOK, AccountInv, ObserveFocusedTab
    PROVE  AccountInv'
  <1>1. /\ store \in Store /\ label \in [Tabs -> Labels] /\ evidence \in [Tabs -> Evidence]
        /\ UNCHANGED <<label, author>>
    BY DEF TypeOK, HerdrOK, DiskOK, ObserveFocusedTab, herdrVars
  <1>2. CASE ObservesNothing
    BY <1>1, <1>2, SameAccounted DEF ObservesNothing, EndTick
  <1>3. CASE StoreFault
    BY <1>1, <1>3, SameAccounted DEF StoreFault, ExitLoop
  <1>4. ASSUME NEW t \in Tabs, ObservesTab(t) PROVE AccountInv'
    <2> DEFINE after == Reconcile(store, t, label[t], evidence[t])
    <2>1. \A u \in Tabs \ {t} : SameTab(store, after, u)
      BY <1>1, ReconcileEffects
    <2>2. Accounted(store, label[t], t) => Accounted(after, label[t], t)
      BY <1>1, ReconcileAccounted
    <2>3. store' = after
      BY <1>4 DEF ObservesTab
    <2> HIDE DEF after
    <2>4. LabelAccounted'
      <3> SUFFICES ASSUME NEW u \in Tabs, author[u] \notin Foreign
                   PROVE  Accounted(after, label[u], u)
        BY <1>1, <2>3 DEF LabelAccounted
      <3>1. Accounted(store, label[u], u)
        BY DEF AccountInv, LabelAccounted
      <3> QED
        BY <2>1, <2>2, <3>1 DEF SameTab, Accounted
    <2>5. SampleCurrent'
      <3>1. \/ phase' = "wait"
            \/ sample' = [tab |-> t, label |-> label[t],
                          lifecycle |-> evidence[t], target |-> None]
        BY <1>4 DEF ObservesTab, EndTick
      <3> QED
        BY <1>1, <3>1 DEF SampleCurrent
    <2> QED
      BY <2>4, <2>5 DEF AccountInv
  <1> QED
    BY <1>2, <1>3, <1>4 DEF ObserveFocusedTab

LEMMA InspectAccounted ==
    ASSUME TypeOK, IntentInv, AccountInv, InspectPane
    PROVE  AccountInv'
  <1>1. UNCHANGED <<label, author>> /\ running /\ phase = "inspect"
    BY DEF InspectPane, herdrVars
  <1>2. CASE StoreFault
    BY <1>1, <1>2, SameAccounted DEF StoreFault, ExitLoop
  <1>3. ASSUME NEW c \in Inspected(sample.tab), DecidesOn(c) PROVE AccountInv'
    <2> DEFINE t == sample.tab
               d == Decision(decision, t, c, sample.label, store.baselines[t])
    <2>1. /\ t \in Tabs
          /\ \A u \in Tabs \ {t} : SameTab(store, store', u)
          /\ store'.intents = store.intents
          /\ store'.baselines[t] \in {store.baselines[t], sample.label}
      BY <1>1, <1>3, InspectEffects
    <2>2. author[t] \notin Foreign => label[t] = sample.label
      BY <1>1 DEF AccountInv, SampleCurrent
    <2>3. store.intents[t] = None
      BY <1>1 DEF IntentInv, IntentDiscipline
    <2>4. LabelAccounted'
      <3> SUFFICES ASSUME NEW u \in Tabs, author[u] \notin Foreign
                   PROVE  Accounted(store', label[u], u)
        BY <1>1 DEF LabelAccounted
      <3>1. Accounted(store, label[u], u)
        BY DEF AccountInv, LabelAccounted
      <3> QED
        BY <2>1, <2>2, <2>3, <3>1 DEF SameTab, Accounted
    <2>5. SampleCurrent'
      <3>1. CASE d.kind = "rename"
        <4>1. sample' = [sample EXCEPT !.target = d.label] /\ sample \in Sample
          BY <1>1, <1>3, <3>1, InspectEffects DEF TypeOK, RuntimeOK
        <4>2. sample'.tab = t /\ sample'.label = sample.label
          BY <4>1 DEF Sample
        <4> QED
          BY <1>1, <2>2, <4>2 DEF SampleCurrent
      <3>2. CASE d.kind # "rename"
        <4>1. phase' = "wait"
          BY <1>1, <1>3, <3>2, InspectEffects
        <4> QED
          BY <4>1 DEF SampleCurrent
      <3> QED
        BY <3>1, <3>2
    <2> QED
      BY <2>4, <2>5 DEF AccountInv
  <1> QED
    BY <1>2, <1>3 DEF InspectPane

LEMMA ConfirmAccounted ==
    ASSUME TypeOK, IntentInv, AccountInv, ConfirmCandidate
    PROVE  AccountInv'
  <1>1. UNCHANGED <<label, author>> /\ running /\ phase = "confirm"
    BY DEF ConfirmCandidate, herdrVars
  <1>2. CASE phase' = "wait" /\ UNCHANGED store
    BY <1>1, <1>2, SameAccounted
  <1>3. CASE store' = RecordIntent(store, sample.tab, NewIntent)
             /\ phase' = "rename" /\ UNCHANGED sample
    <2>1. store \in Store /\ sample.tab \in Tabs /\ NewIntent \in Intent
      BY <1>1 DEF TypeOK, DiskOK, RuntimeOK, Sample, NewIntent, Intent
    <2>2. /\ \A u \in Tabs \ {sample.tab} : SameTab(store, store', u)
          /\ store'.baselines = store.baselines
          /\ store'.intents[sample.tab] = NewIntent
      BY <1>3, <2>1, StoreEditEffects
    <2>3. store.intents[sample.tab] = None
      BY <1>1 DEF IntentInv, IntentDiscipline
    <2>4. author[sample.tab] \notin Foreign => label[sample.tab] = sample.label
      BY <1>1 DEF AccountInv, SampleCurrent
    <2>5. NewIntent # None /\ NewIntent.previous = sample.label
      BY <2>1, NoneIsNoIntent DEF NewIntent
    <2>6. LabelAccounted'
      <3> SUFFICES ASSUME NEW u \in Tabs, author[u] \notin Foreign
                   PROVE  Accounted(store', label[u], u)
        BY <1>1 DEF LabelAccounted
      <3>1. Accounted(store, label[u], u)
        BY DEF AccountInv, LabelAccounted
      <3> QED
        BY <2>2, <2>3, <2>4, <2>5, <3>1 DEF SameTab, Accounted
    <2>7. SampleCurrent'
      <3>1. author'[sample.tab] \notin Foreign => label'[sample.tab] = sample.label
        BY <1>1, <2>4
      <3> QED
        BY <1>3, <3>1 DEF SampleCurrent
    <2> QED
      BY <2>6, <2>7 DEF AccountInv
  <1> QED
    BY <1>2, <1>3 DEF ConfirmCandidate, EndTick, ExitLoop

LEMMA RenameAccounted ==
    ASSUME TypeOK, IntentInv, AccountInv, RenameTab
    PROVE  AccountInv'
  <1>1. /\ sample.tab \in Tabs /\ sample \in Sample /\ phase = "rename"
        /\ label \in [Tabs -> Labels] /\ author \in [Tabs -> Authors]
    BY DEF RenameTab, TypeOK, HerdrOK, RuntimeOK, Sample
  <1>2. /\ label' = [label EXCEPT ![sample.tab] = sample.target]
        /\ author' = [author EXCEPT ![sample.tab] = "plugin"]
        /\ UNCHANGED store /\ phase' = "wait"
    BY DEF RenameTab, diskVars, EndTick
  <1>3. store.intents[sample.tab] = NewIntent
    BY <1>1 DEF IntentInv, IntentDiscipline
  <1>4. NewIntent \in Intent /\ NewIntent.intended = sample.target
    BY <1>1 DEF NewIntent, Intent, RenameTab, TypeOK, RuntimeOK, Sample
  <1>5. LabelAccounted'
    <2> SUFFICES ASSUME NEW u \in Tabs, author'[u] \notin Foreign
                 PROVE  Accounted(store', label'[u], u)
      BY DEF LabelAccounted
    <2>1. CASE u = sample.tab
      <3>1. label'[u] = sample.target
        BY <1>1, <1>2, <2>1
      <3> QED
        BY <1>2, <1>3, <1>4, <2>1, <3>1, NoneIsNoIntent DEF Accounted
    <2>2. CASE u # sample.tab
      <3>1. label'[u] = label[u] /\ author'[u] = author[u]
        BY <1>1, <1>2, <2>2
      <3> QED
        BY <1>2, <3>1 DEF AccountInv, LabelAccounted
    <2> QED
      BY <2>1, <2>2
  <1>6. SampleCurrent'
    BY <1>2 DEF SampleCurrent
  <1> QED
    BY <1>5, <1>6 DEF AccountInv

LEMMA NextAccounted == TypeOK /\ IntentInv /\ AccountInv /\ [Next]_vars => AccountInv'
  <1> SUFFICES ASSUME TypeOK, IntentInv, AccountInv, [Next]_vars PROVE AccountInv'
    OBVIOUS
  <1>1. CASE Environment
    BY <1>1, EnvironmentAccounted
  <1>2. CASE Control
    BY <1>2, ControlAccounted
  <1>3. CASE IdleTick
    BY <1>3, SameAccounted DEF IdleTick, EndTick, herdrVars, diskVars
  <1>4. CASE ObserveFocusedTab \/ InspectPane \/ ConfirmCandidate \/ RenameTab
    BY <1>4, ObserveAccounted, InspectAccounted, ConfirmAccounted, RenameAccounted
  <1>5. CASE RevalidateObservation
    <2>1. UNCHANGED <<label, author, store>>
      BY <1>5 DEF RevalidateObservation, StoreFault, herdrVars
    <2>2. phase' = "wait" \/ (phase' = "confirm" /\ phase = "revalidate" /\ UNCHANGED sample)
      BY <1>5 DEF RevalidateObservation, StoreFault, ExitLoop, EndTick
    <2> QED
      BY <2>1, <2>2 DEF AccountInv, SampleCurrent, LabelAccounted
  <1>6. CASE Failure
    BY <1>6, SameAccounted
    DEF Failure, RenameFails, SnapshotFails, OwnerExits, EndTick, ExitLoop, herdrVars, diskVars
  <1>7. CASE OwnerStarts \/ Tick
    BY <1>7, SameAccounted DEF OwnerStarts, Tick, herdrVars, diskVars
  <1>8. CASE UNCHANGED vars
    BY <1>8, SameAccounted DEF vars, herdrVars, diskVars, runtimeVars
  <1> QED
    BY <1>1, <1>2, <1>3, <1>4, <1>5, <1>6, <1>7, <1>8 DEF Next, Sampling

Locks(t) == ~IsLocked(store, t) /\ IsLocked(store', t)

(* The two places that create a lock, and what they have seen there.        *)
LEMMA LocksComeFromLooks ==
    ASSUME TypeOK, IntentInv, [Next]_vars, NEW t \in Tabs, Locks(t)
    PROVE  \/ ReconcileOutcome(store, t, label[t], evidence[t]) = "manual_intent"
           \/ /\ phase = "inspect" /\ t = sample.tab
              /\ store.baselines[t] # None /\ store.baselines[t] # sample.label
  <1>1. ~IsLocked(store, t) /\ IsLocked(store', t) /\ store \in Store
    BY DEF Locks, TypeOK, DiskOK
  <1>2. ASSUME UNCHANGED store PROVE FALSE
    BY <1>1, <1>2
  <1>3. ASSUME Control PROVE FALSE
    <2>1. focus \in Tabs \cup {None}
      BY DEF TypeOK, HerdrOK
    <2>2. ASSUME NEW u \in Tabs PROVE ~IsLocked(UnlockTab(store, u), t)
      BY <1>1, UnlockEffects DEF IsLocked
    <2>3. ~IsLocked(UnlockAll(store), t) /\ ~IsLocked(EmptyStore, t)
      BY <1>1, UnlockEffects DEF IsLocked, EmptyStore
    <2> QED
      BY <1>1, <1>3, <2>1, <2>2, <2>3
      DEF Control, Trigger, UnlockFocused, UnlockAllTabs, RepairDiscard, ForgetSession,
          ReloadConfig, diskVars
  <1>4. CASE Environment \/ IdleTick \/ RevalidateObservation \/ RenameTab \/ Failure
             \/ OwnerStarts \/ Tick
    <2>1. CASE Environment
      BY <1>2, <2>1 DEF Environment, UserRename, ProgramChange, FocusChange, ViewChange,
                        ReuseTab, LateRename, DamageStore, diskVars
    <2>2. CASE IdleTick \/ RevalidateObservation \/ RenameTab
      BY <1>2, <2>2 DEF IdleTick, RevalidateObservation, RenameTab, StoreFault, diskVars
    <2>3. CASE Failure \/ OwnerStarts \/ Tick
      BY <1>2, <2>3 DEF Failure, RenameFails, SnapshotFails, OwnerExits, OwnerStarts, Tick,
                        diskVars
    <2> QED
      BY <1>4, <2>1, <2>2, <2>3
  <1>5. CASE UNCHANGED vars
    BY <1>2, <1>5 DEF vars, diskVars
  <1>6. CASE ConfirmCandidate
    <2>1. /\ phase = "confirm" /\ sample.tab \in Tabs /\ NewIntent \in Intent
      BY <1>6 DEF ConfirmCandidate, TypeOK, RuntimeOK, Sample, NewIntent, Intent
    <2>2. \/ UNCHANGED store
          \/ store' = RecordIntent(store, sample.tab, NewIntent)
      BY <1>6 DEF ConfirmCandidate
    <2> QED
      BY <1>1, <1>2, <2>1, <2>2, StoreEditEffects DEF IsLocked
  <1>7. CASE ObserveFocusedTab
    <2>1. CASE ObservesNothing \/ StoreFault
      BY <1>2, <2>1 DEF ObservesNothing, StoreFault
    <2>2. ASSUME NEW u \in Tabs, ObservesTab(u)
          PROVE  ReconcileOutcome(store, t, label[t], evidence[t]) = "manual_intent"
      <3> DEFINE out == ReconcileOutcome(store, u, label[u], evidence[u])
                 after == Reconcile(store, u, label[u], evidence[u])
      <3>1. label[u] \in Labels /\ evidence[u] \in Evidence
        BY DEF TypeOK, HerdrOK
      <3>2. /\ \A v \in Tabs \ {u} : SameTab(store, after, v)
            /\ out = "no_intent" => after = store
            /\ out = "reused_tab" => after.locks[u] = None
            /\ out = "confirmed" => after.locks[u] = store.locks[u]
            /\ out = "source_unchanged" => after.locks[u] = store.locks[u]
            /\ out \in {"no_intent", "reused_tab", "confirmed", "source_unchanged",
                        "manual_intent"}
        BY <1>1, <3>1, ReconcileEffects
      <3>3. store' = after
        BY <2>2 DEF ObservesTab
      <3> HIDE DEF after, out
      <3>4. t = u /\ out = "manual_intent"
        BY <1>1, <3>2, <3>3 DEF IsLocked, SameTab
      <3> QED
        BY <3>4 DEF out
    <2> QED
      BY <1>7, <2>1, <2>2 DEF ObserveFocusedTab
  <1>8. CASE InspectPane
    <2>1. CASE StoreFault
      BY <1>2, <2>1 DEF StoreFault
    <2>2. ASSUME NEW c \in Inspected(sample.tab), DecidesOn(c)
          PROVE  /\ phase = "inspect" /\ t = sample.tab
                 /\ store.baselines[t] # None /\ store.baselines[t] # sample.label
      <3> DEFINE u == sample.tab
                 d == Decision(decision, u, c, sample.label, store.baselines[u])
      <3>1. running /\ phase = "inspect"
        BY <1>8 DEF InspectPane
      <3>2. /\ \A v \in Tabs \ {u} : SameTab(store, store', v)
            /\ d.kind = "create_manual_lock" =>
                 store.baselines[u] # None /\ store.baselines[u] # sample.label
            /\ d.kind = "record_baseline" => store'.locks = store.locks
            /\ d.kind \notin {"create_manual_lock", "record_baseline"} => store' = store
        BY <2>2, <3>1, InspectEffects
      <3>3. d.kind = "create_manual_lock"
        BY <1>1, <3>2 DEF IsLocked, SameTab
      <3>4. t = u
        BY <1>1, <3>2 DEF IsLocked, SameTab
      <3> QED
        BY <3>1, <3>2, <3>3, <3>4
    <2> QED
      BY <1>8, <2>1, <2>2 DEF InspectPane
  <1> QED
    BY <1>3, <1>4, <1>5, <1>6, <1>7, <1>8 DEF Next, Sampling

(* Every lock is over a label the user wrote, or one that came behind the   *)
(* back of the runtime where the store could not account for it, through    *)
(* any crash, failed call, damage, repair, reuse of the tab, change of view *)
(* or late rename: the plugin never mistakes its own label, or Herdr's, for *)
(* manual intent (detect_manual_lock, reconcile_automatic_rename_intent).   *)
THEOREM LocksAreOverUserLabels == Spec => LocksAreManual
  <1>1. Init => AccountInv
    BY DEF Init, EmptyStore, AccountInv, SampleCurrent, LabelAccounted, Accounted
  <1>2. TypeOK /\ IntentInv /\ AccountInv /\ [Next]_vars => AccountInv'
    BY NextAccounted
  <1>3. ASSUME TypeOK, IntentInv, AccountInv, [Next]_vars, NEW t \in Tabs, Locks(t),
               author[t] \notin Foreign
        PROVE  FALSE
    <2>1. Accounted(store, label[t], t)
      BY <1>3 DEF AccountInv, LabelAccounted
    <2>2. label[t] \in Labels /\ evidence[t] \in Evidence /\ store \in Store
      BY <1>3 DEF TypeOK, HerdrOK, DiskOK
    <2>3. ReconcileOutcome(store, t, label[t], evidence[t]) # "manual_intent"
      BY <2>1, <2>2, ReconcileAccounted
    <2>4. /\ phase = "inspect" /\ t = sample.tab
          /\ store.baselines[t] # None /\ store.baselines[t] # sample.label
      BY <1>3, <2>3, LocksComeFromLooks
    <2>5. store.intents[t] = None /\ label[t] = sample.label
      BY <1>3, <2>4 DEF IntentInv, IntentDiscipline, AccountInv, SampleCurrent
    <2> QED
      BY <2>1, <2>4, <2>5 DEF Accounted
  <1>4. TypeOK /\ IntentInv /\ AccountInv /\ [Next]_vars =>
          [\A t \in Tabs : ~IsLocked(store, t) /\ IsLocked(store', t)
                             => author[t] \in {"user", "stray"}]_vars
    BY <1>3 DEF Locks, Foreign
  <1> QED
    BY <1>1, <1>2, <1>4, IntentInvariant, PTL DEF Spec, LocksAreManual
-------------------------------------------------------------------------------
(* ManualLabelKept.  It fails where the view of a tab changes between a     *)
(* rename and its confirmation (LostManualLabel.cfg), and nowhere else: a   *)
(* tab whose view holds while an intent or a sample of it depends on it     *)
(* keeps the user's label, whatever happens to the other tabs.              *)

ViewHeld(t) ==
    evidence'[t] # evidence[t] => store.intents[t] = None /\ ~Sampled(t)

(* A claim the store can know is known: the tab is locked, or the next look *)
(* at it will tell its label from the baseline and from both ends of the    *)
(* unresolved intent.                                                       *)

Known(s, l, e, t) ==
    \/ IsLocked(s, t)
    \/ s.intents[t] = None /\ s.baselines[t] \notin {None, l}
    \/ /\ s.intents[t] # None
       /\ s.intents[t].lifecycle = e
       /\ l \notin {s.intents[t].previous, s.intents[t].intended, NumberLabel[e]}

ClaimKnown(t) == claim[t] => ~damaged /\ Known(store, label[t], evidence[t], t)

(* What the intent and the sample of the tab say of its view is true.       *)
ViewKnown(t) ==
    /\ store.intents[t] # None => store.intents[t].lifecycle = evidence[t]
    /\ Sampled(t) => sample.lifecycle = evidence[t]

(* The sample of a claimed tab does not get past revalidation.              *)
ClaimHeld(t) ==
    Sampled(t) =>
      /\ phase = "revalidate" => store.baselines[t] \in {None, sample.label}
      /\ phase \in {"confirm", "rename"} => ~claim[t]

ClaimInv(t) == ClaimKnown(t) /\ ViewKnown(t) /\ ClaimHeld(t)

(* A step that leaves what the store, the claim and Herdr say of the tab    *)
(* alone, and goes on with the same sample or without one.                  *)
LEMMA SameClaim ==
    ASSUME NEW t \in Tabs, ClaimInv(t), SameTab(store, store', t), UNCHANGED damaged,
           claim'[t] = claim[t], label'[t] = label[t], evidence'[t] = evidence[t],
           ~Sampled(t)' \/ UNCHANGED <<phase, sample>>
    PROVE  ClaimInv(t)'
  <1>1. ClaimKnown(t)'
    BY DEF ClaimInv, ClaimKnown, Known, IsLocked, SameTab
  <1>2. ViewKnown(t)'
    BY DEF ClaimInv, ViewKnown, Sampled, SameTab
  <1>3. ClaimHeld(t)'
    BY DEF ClaimInv, ClaimHeld, Sampled, SameTab
  <1> QED
    BY <1>1, <1>2, <1>3 DEF ClaimInv

(* A step that takes the claim of the tab back.                             *)
LEMMA NoClaim ==
    ASSUME NEW t \in Tabs, ViewKnown(t)', ~claim'[t],
           UNCHANGED <<store, phase, sample>>, ClaimInv(t)
    PROVE  ClaimInv(t)'
  BY DEF ClaimInv, ClaimKnown, ClaimHeld, Sampled

LEMMA SameStoreSameTab == \A t \in Tabs : UNCHANGED store => SameTab(store, store', t)
  BY DEF SameTab

LEMMA EnvironmentClaim ==
    ASSUME TypeOK, NEW t \in Tabs, ClaimInv(t), ViewHeld(t), Environment
    PROVE  ClaimInv(t)'
  <1>1. /\ label \in [Tabs -> Labels] /\ claim \in [Tabs -> BOOLEAN]
        /\ evidence \in [Tabs -> Evidence] /\ late \in SUBSET Late
    BY DEF TypeOK, HerdrOK, HistoryOK
  <1>2. ASSUME UNCHANGED <<store, damaged, phase, sample>>,
               claim'[t] = claim[t], label'[t] = label[t], evidence'[t] = evidence[t]
        PROVE  ClaimInv(t)'
    BY <1>2, SameStoreSameTab, SameClaim
  <1>3. ASSUME UNCHANGED <<store, phase, sample>> PROVE ViewKnown(t)'
    BY <1>3 DEF ClaimInv, ViewKnown, ViewHeld, Sampled
  <1>4. ASSUME NEW u \in Tabs, NEW l \in Labels, UserRename(u, l) PROVE ClaimInv(t)'
    <2>1. /\ label' = [label EXCEPT ![u] = l]
          /\ claim' = [claim EXCEPT ![u] = CanKnow(u, l)]
          /\ UNCHANGED <<store, damaged, evidence, phase, sample>>
      BY <1>4 DEF UserRename, diskVars, runtimeVars
    <2>2. CASE u = t
      <3>1. claim'[t] = CanKnow(t, l) /\ label'[t] = l
        BY <1>1, <2>1, <2>2
      <3>2. ClaimKnown(t)'
        <4>1. CanKnow(t, l) => ~damaged /\ Known(store, l, evidence[t], t)
          BY DEF CanKnow, Ambiguous, Known, ClaimInv, ViewKnown
        <4> QED
          BY <2>1, <3>1, <4>1 DEF ClaimKnown
      <3>3. ViewKnown(t)'
        BY <1>3, <2>1
      <3>4. ClaimHeld(t)'
        <4>1. phase \in {"confirm", "rename"} /\ sample.tab = t => ~CanKnow(t, l)
          BY DEF CanKnow
        <4> QED
          BY <2>1, <3>1, <4>1 DEF ClaimInv, ClaimHeld, Sampled
      <3> QED
        BY <3>2, <3>3, <3>4 DEF ClaimInv
    <2>3. CASE u # t
      <3>1. claim'[t] = claim[t] /\ label'[t] = label[t]
        BY <1>1, <2>1, <2>3
      <3> QED
        BY <1>2, <2>1, <3>1
    <2> QED
      BY <2>2, <2>3
  <1>5. ASSUME NEW u \in Tabs, NEW e \in Evidence, ViewChange(u, e) PROVE ClaimInv(t)'
    <2>1. UNCHANGED <<label, store, damaged, claim, phase, sample>>
      BY <1>5 DEF ViewChange, diskVars, runtimeVars
    <2>2. CASE evidence'[t] = evidence[t]
      BY <1>2, <2>1, <2>2
    <2>3. CASE evidence'[t] # evidence[t]
      <3>1. store.intents[t] = None
        BY <2>3 DEF ViewHeld
      <3>2. ClaimKnown(t)'
        BY <2>1, <3>1 DEF ClaimInv, ClaimKnown, Known
      <3>3. ClaimHeld(t)'
        BY <2>1 DEF ClaimInv, ClaimHeld, Sampled
      <3> QED
        BY <1>3, <2>1, <3>2, <3>3 DEF ClaimInv
    <2> QED
      BY <2>2, <2>3
  <1>6. ASSUME NEW u \in Tabs, NEW e \in Evidence, ReuseTab(u, e) PROVE ClaimInv(t)'
    <2>1. /\ evidence' = [evidence EXCEPT ![u] = e]
          /\ label' = [label EXCEPT ![u] = NumberLabel[e]]
          /\ claim' = [claim EXCEPT ![u] = FALSE]
          /\ UNCHANGED <<store, damaged, phase, sample>>
      BY <1>6 DEF ReuseTab, diskVars, runtimeVars
    <2>2. CASE u = t
      BY <1>1, <1>3, <2>1, <2>2, NoClaim
    <2>3. CASE u # t
      <3>1. claim'[t] = claim[t] /\ label'[t] = label[t] /\ evidence'[t] = evidence[t]
        BY <1>1, <2>1, <2>3
      <3> QED
        BY <1>2, <2>1, <3>1
    <2> QED
      BY <2>2, <2>3
  <1>7. ASSUME NEW r \in late, LateRename(r) PROVE ClaimInv(t)'
    <2>1. /\ label' = [label EXCEPT ![r.tab] = r.label]
          /\ claim' = [claim EXCEPT ![r.tab] = FALSE]
          /\ UNCHANGED <<store, damaged, evidence, phase, sample>>
          /\ r.tab \in Tabs
      BY <1>1, <1>7 DEF LateRename, diskVars, runtimeVars, Late
    <2>2. CASE r.tab = t
      BY <1>1, <1>3, <2>1, <2>2, NoClaim
    <2>3. CASE r.tab # t
      <3>1. claim'[t] = claim[t] /\ label'[t] = label[t]
        BY <1>1, <2>1, <2>3
      <3> QED
        BY <1>2, <2>1, <3>1
    <2> QED
      BY <2>2, <2>3
  <1>8. ASSUME NEW u \in Tabs, NEW c \in Maybe(Candidates), ProgramChange(u, c)
        PROVE  ClaimInv(t)'
    BY <1>2, <1>8 DEF ProgramChange, diskVars, runtimeVars
  <1>9. ASSUME NEW u \in Maybe(Tabs), FocusChange(u) PROVE ClaimInv(t)'
    BY <1>2, <1>9 DEF FocusChange, diskVars, runtimeVars
  <1>10. CASE DamageStore
    <2>1. ~claim'[t] /\ UNCHANGED <<store, phase, sample>>
      BY <1>10 DEF DamageStore, runtimeVars
    <2> QED
      BY <1>3, <2>1, NoClaim
  <1> QED
    BY <1>4, <1>5, <1>6, <1>7, <1>8, <1>9, <1>10 DEF Environment
(* What a command does to the store leaves a claim it does not take back.   *)
LEMMA ControlClaim ==
    ASSUME TypeOK, IntentInv, NEW t \in Tabs, ClaimInv(t), Control
    PROVE  ClaimInv(t)'
  <1>1. /\ store \in Store /\ focus \in Tabs \cup {None}
        /\ claim \in [Tabs -> BOOLEAN]
        /\ UNCHANGED <<label, evidence>>
    BY DEF TypeOK, HerdrOK, DiskOK, HistoryOK, Control, Trigger, UnlockFocused,
           UnlockAllTabs, RepairDiscard, ForgetSession, ReloadConfig, herdrVars
  <1>2. phase' = "wait"
    <2>1. phase = "wait" \/ running
      BY DEF IntentInv, SampleDiscipline
    <2> QED
      BY <2>1 DEF Control, Trigger, UnlockFocused, UnlockAllTabs, RepairDiscard,
                  ForgetSession, ReloadConfig, Waiting, runtimeVars
  <1>3. ASSUME SameTab(store, store', t), UNCHANGED damaged, claim'[t] = claim[t]
        PROVE  ClaimInv(t)'
    BY <1>1, <1>2, <1>3, SameClaim DEF Sampled
  <1>4. ASSUME ~claim'[t], store'.intents[t] \in {store.intents[t], None}
        PROVE  ClaimInv(t)'
    BY <1>1, <1>2, <1>4 DEF ClaimInv, ClaimKnown, ViewKnown, ClaimHeld, Sampled
  <1>5. CASE Trigger \/ ReloadConfig
    BY <1>3, <1>5, SameStoreSameTab DEF Trigger, ReloadConfig, herdrVars, diskVars
  <1>6. CASE UnlockFocused
    <2>1. CASE focus = None \/ ~IsLocked(store, focus)
      <3>1. store' = store /\ claim' = claim /\ UNCHANGED damaged
        BY <1>6, <2>1 DEF UnlockFocused, UnlockTab
      <3> QED
        BY <1>3, <3>1, SameStoreSameTab
    <2>2. CASE focus # None /\ IsLocked(store, focus)
      <3>1. /\ store' = UnlockTab(store, focus) /\ UNCHANGED damaged
            /\ claim' = [claim EXCEPT ![focus] = FALSE] /\ focus \in Tabs
        BY <1>1, <1>6, <2>2 DEF UnlockFocused
      <3>2. CASE focus = t
        <4>1. ~claim'[t] /\ store'.intents = store.intents
          BY <1>1, <3>1, <3>2, UnlockEffects
        <4> QED
          BY <1>4, <4>1
      <3>3. CASE focus # t
        <4>1. claim'[t] = claim[t] /\ SameTab(store, store', t)
          BY <1>1, <3>1, <3>3, UnlockEffects
        <4> QED
          BY <1>3, <3>1, <4>1
      <3> QED
        BY <3>2, <3>3
    <2> QED
      BY <2>1, <2>2
  <1>7. CASE UnlockAllTabs
    <2>1. /\ store' = UnlockAll(store) /\ UNCHANGED damaged
          /\ claim'[t] = (claim[t] /\ ~IsLocked(store, t))
      BY <1>7 DEF UnlockAllTabs
    <2>2. CASE IsLocked(store, t)
      <3>1. ~claim'[t] /\ store'.intents[t] = store.intents[t]
        BY <1>1, <2>1, <2>2, UnlockEffects
      <3> QED
        BY <1>4, <3>1
    <2>3. CASE ~IsLocked(store, t)
      <3>1. claim'[t] = claim[t]
        BY <1>1, <2>1, <2>3
      <3>2. SameTab(store, store', t)
        BY <1>1, <2>1, <2>3, UnlockEffects
      <3> QED
        BY <1>3, <2>1, <3>1, <3>2
    <2> QED
      BY <2>2, <2>3
  <1>8. EmptyStore.intents[t] = None
    BY DEF EmptyStore
  <1>9. CASE RepairDiscard
    <2>1. /\ UNCHANGED claim /\ damaged' = FALSE
          /\ store' = IF damaged THEN EmptyStore ELSE store
      BY <1>9 DEF RepairDiscard
    <2>2. CASE damaged
      <3>1. ~claim[t]
        BY <2>2 DEF ClaimInv, ClaimKnown
      <3> QED
        BY <1>4, <1>8, <2>1, <2>2, <3>1
    <2>3. CASE ~damaged
      <3>1. damaged \in BOOLEAN
        BY DEF TypeOK, DiskOK
      <3> QED
        BY <1>3, <2>1, <2>3, <3>1, SameStoreSameTab
    <2> QED
      BY <2>2, <2>3
  <1>10. CASE ForgetSession
    BY <1>4, <1>8, <1>10 DEF ForgetSession
  <1> QED
    BY <1>5, <1>6, <1>7, <1>9, <1>10 DEF Control

(* The look at the tab keeps a claim known: reconciliation leaves a label   *)
(* it cannot explain as it is, or locks it.                                 *)
LEMMA ReconcileKeepsKnown ==
    ASSUME NEW s \in Store, NEW t \in Tabs, NEW l \in Labels, NEW e \in Evidence,
           s.intents[t] # None => ~IsLocked(s, t), Known(s, l, e, t)
    PROVE  Known(Reconcile(s, t, l, e), l, e, t)
  <1> DEFINE out == ReconcileOutcome(s, t, l, e)
             r == Reconcile(s, t, l, e)
  <1>1. /\ out = "no_intent" => r = s
        /\ out # "no_intent" => s.intents[t] # None
        /\ out = "reused_tab" => s.intents[t].lifecycle # e \/ NumberLabel[e] = l
        /\ out = "confirmed" => s.intents[t].intended = l
        /\ out = "source_unchanged" => s.intents[t].previous = l
        /\ out = "manual_intent" => r.locks[t] = l
        /\ out \in {"no_intent", "reused_tab", "confirmed", "source_unchanged",
                    "manual_intent"}
    BY ReconcileEffects
  <1>2. l # None
    BY NoneIsFresh
  <1> HIDE DEF out, r
  <1>3. out = "manual_intent" \/ out = "no_intent"
    BY <1>1 DEF Known
  <1>4. CASE out = "no_intent"
    BY <1>1, <1>4 DEF r
  <1>5. CASE out = "manual_intent"
    BY <1>1, <1>2, <1>5 DEF Known, IsLocked, r
  <1> QED
    BY <1>3, <1>4, <1>5

LEMMA ObserveClaim ==
    ASSUME TypeOK, IntentInv, NEW t \in Tabs, ClaimInv(t), ObserveFocusedTab
    PROVE  ClaimInv(t)'
  <1>1. /\ store \in Store /\ UNCHANGED <<label, evidence, claim, damaged>>
    BY DEF TypeOK, DiskOK, ObserveFocusedTab, herdrVars
  <1>2. ASSUME phase' = "wait", UNCHANGED store PROVE ClaimInv(t)'
    BY <1>1, <1>2, SameStoreSameTab, SameClaim DEF Sampled
  <1>3. CASE ObservesNothing \/ StoreFault
    BY <1>2, <1>3 DEF ObservesNothing, StoreFault, EndTick, ExitLoop
  <1>4. ASSUME NEW u \in Tabs, ObservesTab(u) PROVE ClaimInv(t)'
    <2>1. label[u] \in Labels /\ evidence[u] \in Evidence
      BY DEF TypeOK, HerdrOK
    <2>2. store' = Reconcile(store, u, label[u], evidence[u])
      BY <1>4 DEF ObservesTab
    <2>3. \/ phase' = "wait"
          \/ phase' = "inspect" /\ sample' = [tab |-> u, label |-> label[u],
                                             lifecycle |-> evidence[u], target |-> None]
      BY <1>4 DEF ObservesTab, EndTick
    <2>4. CASE u # t
      <3>1. SameTab(store, store', t)
        BY <1>1, <2>1, <2>2, <2>4, ReconcileEffects
      <3>2. ~Sampled(t)'
        BY <2>3, <2>4 DEF Sampled
      <3> QED
        BY <1>1, <3>1, <3>2, SameClaim
    <2>5. CASE u = t
      <3>1. store'.intents[t] = None
        BY <1>1, <2>1, <2>2, <2>5, ReconcileEffects
      <3>2. store.intents[t] # None => ~IsLocked(store, t)
        BY DEF IntentInv, IntentDiscipline
      <3>3. Known(store, label[t], evidence[t], t) => Known(store', label[t], evidence[t], t)
        BY <1>1, <2>1, <2>2, <2>5, <3>2, ReconcileKeepsKnown
      <3>4. ClaimKnown(t)'
        BY <1>1, <3>3 DEF ClaimInv, ClaimKnown
      <3>5. ViewKnown(t)'
        BY <1>1, <2>3, <2>5, <3>1 DEF ViewKnown, Sampled
      <3>6. ClaimHeld(t)'
        BY <2>3 DEF ClaimHeld, Sampled
      <3> QED
        BY <3>4, <3>5, <3>6 DEF ClaimInv
    <2> QED
      BY <2>4, <2>5
  <1> QED
    BY <1>3, <1>4 DEF ObserveFocusedTab
LEMMA InspectClaim ==
    ASSUME TypeOK, IntentInv, NEW t \in Tabs, ClaimInv(t), InspectPane
    PROVE  ClaimInv(t)'
  <1>1. /\ UNCHANGED <<label, evidence, damaged>> /\ running /\ phase = "inspect"
        /\ claim \in [Tabs -> BOOLEAN] /\ sample \in Sample
    BY DEF InspectPane, herdrVars, TypeOK, HistoryOK, RuntimeOK
  <1>2. CASE StoreFault /\ UNCHANGED claim
    BY <1>1, <1>2, SameStoreSameTab, SameClaim DEF StoreFault, ExitLoop, Sampled
  <1>3. ASSUME NEW c \in Inspected(sample.tab), DecidesOn(c) PROVE ClaimInv(t)'
    <2> DEFINE u == sample.tab
               d == Decision(decision, u, c, sample.label, store.baselines[u])
    <2>1. /\ u \in Tabs
          /\ \A v \in Tabs \ {u} : SameTab(store, store', v)
          /\ store'.intents = store.intents
          /\ d.kind = "create_manual_lock" => store'.locks[u] = sample.label
          /\ d.kind = "record_baseline" =>
               /\ store'.baselines[u] = sample.label
               /\ d.label = sample.label
          /\ d.kind \notin {"create_manual_lock", "record_baseline"} => store' = store
          /\ d.kind = "rename" =>
               /\ phase' = "revalidate"
               /\ sample' = [sample EXCEPT !.target = d.label]
               /\ store.baselines[u] \in {None, sample.label}
          /\ d.kind # "rename" => phase' = "wait"
      BY <1>1, <1>3, InspectEffects
    <2>2. claim' = IF d.kind = "record_baseline" /\ d.label = label[u]
                   THEN [claim EXCEPT ![u] = FALSE] ELSE claim
      BY <1>3 DEF DecidesOn
    <2>3. sample.label # None /\ store.intents[u] = None
      BY <1>1, NoneIsFresh DEF Sample, IntentInv, IntentDiscipline
    <2> HIDE DEF d
    <2>4. d.kind = "rename" => /\ sample'.tab = u /\ sample'.label = sample.label
                               /\ sample'.lifecycle = sample.lifecycle
      BY <1>1, <2>1 DEF Sample
    <2>5. CASE u # t
      <3>1. SameTab(store, store', t) /\ claim'[t] = claim[t]
        BY <1>1, <2>1, <2>2, <2>5
      <3>2. ~Sampled(t)'
        BY <2>1, <2>4, <2>5 DEF Sampled
      <3> QED
        BY <1>1, <3>1, <3>2, SameClaim
    <2>6. CASE u = t
      <3>1. ClaimKnown(t)'
        <4> SUFFICES ASSUME claim'[t]
                     PROVE  ~damaged /\ Known(store', label[t], evidence[t], t)
          BY <1>1 DEF ClaimKnown
        <4>1. ~damaged /\ Known(store, label[t], evidence[t], t)
          BY <1>1, <2>2, <2>6 DEF ClaimInv, ClaimKnown
        <4>2. CASE d.kind = "create_manual_lock"
          BY <2>1, <2>3, <2>6, <4>1, <4>2 DEF Known, IsLocked
        <4>3. CASE d.kind = "record_baseline"
          <5>1. d.label # label[t]
            BY <1>1, <2>1, <2>2, <2>6, <4>3
          <5> QED
            BY <2>1, <2>3, <2>6, <4>1, <4>3, <5>1 DEF Known
        <4>4. CASE d.kind \notin {"create_manual_lock", "record_baseline"}
          BY <2>1, <4>1, <4>4
        <4> QED
          BY <4>2, <4>3, <4>4
      <3>2. ViewKnown(t)'
        BY <1>1, <2>1, <2>4, <2>6 DEF ClaimInv, ViewKnown, Sampled
      <3>3. ClaimHeld(t)'
        BY <2>1, <2>4, <2>6 DEF ClaimHeld, Sampled
      <3> QED
        BY <3>1, <3>2, <3>3 DEF ClaimInv
    <2> QED
      BY <2>5, <2>6
  <1> QED
    BY <1>2, <1>3 DEF InspectPane

(* Revalidation sees the label of the sample on a tab that is not locked    *)
(* and has no intent; a known claim would be told apart from the baseline.  *)
LEMMA RevalidateClaim ==
    ASSUME TypeOK, IntentInv, NEW t \in Tabs, ClaimInv(t), RevalidateObservation
    PROVE  ClaimInv(t)'
  <1>1. UNCHANGED <<label, evidence, damaged, store, claim>> /\ phase = "revalidate"
    BY DEF RevalidateObservation, StoreFault, herdrVars
  <1>2. \/ phase' = "wait"
        \/ StillAsSampled /\ phase' = "confirm" /\ UNCHANGED sample
    BY DEF RevalidateObservation, StoreFault, ExitLoop, EndTick
  <1>3. CASE ~Sampled(t)'
    BY <1>1, <1>3, SameStoreSameTab, SameClaim
  <1>4. CASE Sampled(t)'
    <2>1. /\ Sampled(t) /\ StillAsSampled /\ phase' = "confirm" /\ UNCHANGED sample
      BY <1>1, <1>2, <1>4 DEF Sampled
    <2>2. ~claim[t]
      <3>1. /\ store.intents[t] = None /\ ~IsLocked(store, t)
            /\ store.baselines[t] \in {None, sample.label} /\ label[t] = sample.label
        BY <1>1, <2>1
        DEF IntentInv, IntentDiscipline, ClaimInv, ClaimHeld, StillAsSampled, Sampled
      <3> QED
        BY <3>1 DEF ClaimInv, ClaimKnown, Known
    <2>3. ViewKnown(t)'
      BY <1>1, <2>1 DEF ClaimInv, ViewKnown, Sampled
    <2>4. ClaimKnown(t)' /\ ClaimHeld(t)'
      BY <1>1, <2>1, <2>2 DEF ClaimKnown, ClaimHeld
    <2> QED
      BY <2>3, <2>4 DEF ClaimInv
  <1> QED
    BY <1>3, <1>4

LEMMA ConfirmClaim ==
    ASSUME TypeOK, IntentInv, NEW t \in Tabs, ClaimInv(t), ConfirmCandidate
    PROVE  ClaimInv(t)'
  <1>1. UNCHANGED <<label, evidence, damaged, claim>> /\ phase = "confirm"
    BY DEF ConfirmCandidate, herdrVars
  <1>2. CASE phase' = "wait" /\ UNCHANGED store
    BY <1>1, <1>2, SameStoreSameTab, SameClaim DEF Sampled
  <1>3. CASE store' = RecordIntent(store, sample.tab, NewIntent)
             /\ phase' = "rename" /\ UNCHANGED sample
    <2>1. store \in Store /\ sample.tab \in Tabs /\ NewIntent \in Intent
      BY <1>1 DEF TypeOK, DiskOK, RuntimeOK, Sample, NewIntent, Intent
    <2>2. /\ \A u \in Tabs \ {sample.tab} : SameTab(store, store', u)
          /\ store'.intents[sample.tab] = NewIntent
      BY <1>3, <2>1, StoreEditEffects
    <2>3. CASE sample.tab # t
      BY <1>1, <1>3, <2>2, <2>3, SameClaim DEF Sampled
    <2>4. CASE sample.tab = t
      <3>1. NewIntent.lifecycle = evidence[t] /\ ~claim[t] /\ sample.lifecycle = evidence[t]
        BY <1>1, <2>4 DEF NewIntent, ClaimInv, ViewKnown, ClaimHeld, Sampled
      <3>2. ViewKnown(t)'
        BY <1>1, <1>3, <2>2, <2>4, <3>1 DEF ViewKnown
      <3>3. ClaimKnown(t)' /\ ClaimHeld(t)'
        BY <1>1, <1>3, <3>1 DEF ClaimKnown, ClaimHeld
      <3> QED
        BY <3>2, <3>3 DEF ClaimInv
    <2> QED
      BY <2>3, <2>4
  <1> QED
    BY <1>2, <1>3 DEF ConfirmCandidate, EndTick, ExitLoop

LEMMA RenameClaim ==
    ASSUME TypeOK, NEW t \in Tabs, ClaimInv(t), RenameTab
    PROVE  ClaimInv(t)'
  <1>1. /\ phase = "rename" /\ sample.tab \in Tabs /\ label \in [Tabs -> Labels]
    BY DEF RenameTab, TypeOK, HerdrOK, RuntimeOK, Sample
  <1>2. /\ label' = [label EXCEPT ![sample.tab] = sample.target]
        /\ UNCHANGED <<store, damaged, evidence, claim>> /\ phase' = "wait"
    BY DEF RenameTab, diskVars, EndTick
  <1>3. CASE sample.tab = t
    <2>1. ~claim[t]
      BY <1>1, <1>3 DEF ClaimInv, ClaimHeld, Sampled
    <2> QED
      BY <1>2, <2>1 DEF ClaimInv, ClaimKnown, ViewKnown, ClaimHeld, Sampled
  <1>4. CASE sample.tab # t
    <2>1. label'[t] = label[t]
      BY <1>1, <1>2, <1>4
    <2> QED
      BY <1>2, <2>1, SameStoreSameTab, SameClaim DEF Sampled
  <1> QED
    BY <1>3, <1>4

LEMMA NextClaim ==
    ASSUME TypeOK, IntentInv, NEW t \in Tabs, ClaimInv(t), [Next]_vars, [ViewHeld(t)]_vars
    PROVE  ClaimInv(t)'
  <1>1. ASSUME UNCHANGED <<label, evidence, store, damaged, claim>>,
               phase' = "wait" \/ UNCHANGED <<phase, sample>>
        PROVE  ClaimInv(t)'
    BY <1>1, SameStoreSameTab, SameClaim DEF Sampled
  <1>2. CASE Environment
    <2>1. ViewHeld(t)
      BY DEF ViewHeld, vars, herdrVars
    <2> QED
      BY <1>2, <2>1, EnvironmentClaim
  <1>3. CASE Control
    BY <1>3, ControlClaim
  <1>4. CASE IdleTick
    BY <1>1, <1>4 DEF IdleTick, EndTick, herdrVars, diskVars
  <1>5. CASE ObserveFocusedTab \/ InspectPane \/ RevalidateObservation
    BY <1>5, ObserveClaim, InspectClaim, RevalidateClaim
  <1>6. CASE ConfirmCandidate \/ RenameTab
    BY <1>6, ConfirmClaim, RenameClaim
  <1>7. CASE Failure
    BY <1>1, <1>7
    DEF Failure, RenameFails, SnapshotFails, OwnerExits, EndTick, ExitLoop, herdrVars, diskVars
  <1>8. CASE OwnerStarts \/ Tick
    BY <1>1, <1>8 DEF OwnerStarts, Tick, herdrVars, diskVars
  <1>9. CASE UNCHANGED vars
    BY <1>1, <1>9 DEF vars, herdrVars, diskVars, runtimeVars
  <1> QED
    BY <1>2, <1>3, <1>4, <1>5, <1>6, <1>7, <1>8, <1>9 DEF Next, Sampling

Claims(S) == \A t \in S : ClaimInv(t)

LEMMA InitClaims == ASSUME NEW S \in SUBSET Tabs PROVE Init => Claims(S)
  <1> SUFFICES ASSUME Init, NEW t \in S PROVE ClaimInv(t)
    BY DEF Claims
  <1>1. /\ ~claim[t] /\ phase = "wait"
        /\ store.intents[t] = None
    BY DEF Init, EmptyStore
  <1> QED
    BY <1>1 DEF ClaimInv, ClaimKnown, ViewKnown, ClaimHeld, Sampled

LEMMA NextClaims ==
    ASSUME NEW S \in SUBSET Tabs
    PROVE  TypeOK /\ IntentInv /\ Claims(S) /\ [Next]_vars /\ [\A t \in S : ViewHeld(t)]_vars
             => Claims(S)'
  <1> SUFFICES ASSUME TypeOK, IntentInv, Claims(S), [Next]_vars,
                      [\A t \in S : ViewHeld(t)]_vars, NEW t \in S
               PROVE  ClaimInv(t)'
    BY DEF Claims
  <1>1. t \in Tabs /\ ClaimInv(t) /\ [ViewHeld(t)]_vars
    BY DEF Claims
  <1> QED
    BY <1>1, NextClaim

LEMMA WritesSpareClaims ==
    ASSUME NEW S \in SUBSET Tabs
    PROVE  TypeOK /\ Claims(S) /\ [Next]_vars
             => [\A t \in S : PluginWrites(t) => ~claim[t]]_vars
  <1> SUFFICES ASSUME TypeOK, Claims(S), [Next]_vars, NEW t \in S, PluginWrites(t)
               PROVE  ~claim[t]
    OBVIOUS
  <1>1. RenameTab /\ t = sample.tab /\ ClaimInv(t)
    BY WritesAreRenames DEF Claims
  <1> QED
    BY <1>1 DEF RenameTab, ClaimInv, ClaimHeld, Sampled

(* The plugin never overwrites a label the user gave where the store could  *)
(* know it, on any set of tabs whose views hold, whatever happens to them   *)
(* otherwise and to the other tabs: crashes, failed calls, late renames,    *)
(* damage, reuse, changes of focus, reloads and triggers.                   *)
THEOREM ManualLabelsKeptOn ==
    ASSUME NEW S \in SUBSET Tabs
    PROVE  Spec /\ [][\A t \in S : ViewHeld(t)]_vars
             => [][\A t \in S : PluginWrites(t) => ~claim[t]]_vars
  BY InitClaims, NextClaims, WritesSpareClaims, IntentInvariant, PTL DEF Spec

(* A label the user gave where the store could know it is not overwritten,  *)
(* as long as the view of no tab changes under an intent or a sample of it. *)
THEOREM ManualLabelsKept ==
    Spec /\ [][\A t \in Tabs : ViewHeld(t)]_vars => ManualLabelKept
  <1>1. Init => Claims(Tabs)
    BY InitClaims
  <1>2. TypeOK /\ IntentInv /\ Claims(Tabs) /\ [Next]_vars /\ [\A t \in Tabs : ViewHeld(t)]_vars
          => Claims(Tabs)'
    BY NextClaims
  <1>3. TypeOK /\ Claims(Tabs) /\ [Next]_vars
          => [\A t \in Tabs : PluginWrites(t) => ~claim[t]]_vars
    BY WritesSpareClaims
  <1> QED
    BY <1>1, <1>2, <1>3, IntentInvariant, PTL DEF Spec, ManualLabelKept

(* That is so where panes keep their evidence and tab ids are not reused,   *)
(* whatever is damaged and however late a rename is applied.                *)
LEMMA ViewsHold ==
    ASSUME "view" \notin Hazards, "reuse" \notin Hazards
    PROVE  [Next]_vars => [\A t \in Tabs : ViewHeld(t)]_vars
  <1> SUFFICES ASSUME [Next]_vars PROVE UNCHANGED evidence
    BY DEF ViewHeld
  <1>1. CASE Environment
    BY <1>1 DEF Environment, UserRename, ProgramChange, FocusChange, ViewChange, ReuseTab,
                LateRename, DamageStore, herdrVars
  <1>2. CASE Control
    BY <1>2 DEF Control, Trigger, UnlockFocused, UnlockAllTabs, RepairDiscard,
                ForgetSession, ReloadConfig, herdrVars
  <1>3. CASE Sampling
    BY <1>3 DEF Sampling, IdleTick, ObserveFocusedTab, InspectPane,
                RevalidateObservation, ConfirmCandidate, RenameTab, herdrVars
  <1>4. CASE Failure \/ OwnerStarts \/ Tick
    BY <1>4 DEF Failure, RenameFails, SnapshotFails, OwnerExits, OwnerStarts, Tick, herdrVars
  <1>5. CASE UNCHANGED vars
    BY <1>5 DEF vars, herdrVars
  <1> QED
    BY <1>1, <1>2, <1>3, <1>4, <1>5 DEF Next

(* On a server that neither reuses tab ids nor changes a view, the plugin   *)
(* never overwrites a label the user gave where the store could know it.    *)
THEOREM StableViewsKeepLabels ==
    ASSUME "view" \notin Hazards, "reuse" \notin Hazards
    PROVE  Spec => ManualLabelKept
  <1>1. [Next]_vars => [\A t \in Tabs : ViewHeld(t)]_vars
    BY ViewsHold
  <1>2. Spec => [][\A t \in Tabs : ViewHeld(t)]_vars
    BY <1>1, PTL DEF Spec
  <1> QED
    BY <1>2, ManualLabelsKept
==============================================================================
