------------------------------ MODULE TabRefresh ------------------------------
(***************************************************************************)
(* One Session Runtime, one Herdr server and the user of one session:       *)
(* run_runtime_loop (session_runtime.rs) driving execute_one_shot           *)
(* (refresh_executor.rs) over the decision policy and the durable store.    *)
(*                                                                          *)
(* Every Herdr call is a step of its own, because the user, the programs in *)
(* the panes and Herdr go on between two calls.  What the runtime computes  *)
(* and stores between two calls is part of the step of the first of them.   *)
(* The file store has one writer, so a read after a call sees what that     *)
(* step sees.  A sample is taken to last less than one unit of time (its    *)
(* calls have a 75 ms deadline each, the unit is half a second).            *)
(*                                                                          *)
(* Labels, evidence, shows, focus and author belong to Herdr and the user;  *)
(* store and damaged are on disk; running, phase, decision, nextTick and    *)
(* sample are the memory of the runtime; claim and churn are history.       *)
(***************************************************************************)
EXTENDS RefreshDecision

CONSTANTS
    Period,             \* DEFAULT_SESSION_REFRESH_INTERVAL
    DirectoryCandidate, \* what a pane yields when pane.process_info fails
    Hazards,            \* which of "view", "reuse", "late", "damage" may happen
    MaxChurn            \* bound on the steps of everyone but the runtime

ASSUME RefreshConstants ==
    /\ Period \in Nat \ {0} /\ Quiet <= Period /\ Poll <= Period
    /\ DirectoryCandidate \in Maybe(Candidates)
    /\ Hazards \subseteq {"view", "reuse", "late", "damage"}
    /\ MaxChurn \in Nat

VARIABLES
    label,      \* label[t]: the visible label of t
    author,     \* author[t]: who wrote it, or "stray" (see Mark)
    evidence,   \* evidence[t]: what a snapshot says of the lifecycle of t
    shows,      \* shows[t]: the candidate of t's focused pane under the policy
    focus,      \* the focused tab, or None
    late,       \* renames the client gave up on and Herdr may still apply
    store,      \* the Session-Scoped Tab State file
    damaged,    \* the file does not decode, or identity-less evidence lies beside it
    running,    \* a Ready owner exists
    phase,      \* the Herdr call run_runtime_loop makes next
    decision,   \* RefreshDecisionState
    nextTick,   \* time left until next_tick_at
    sample,     \* locals of evaluate_focused_sample
    claim,      \* claim[t]: the user named t, and the store can know
    churn       \* steps left to the environment

herdrVars   == <<label, author, evidence, shows, focus, late>>
diskVars    == <<store, damaged>>
runtimeVars == <<running, phase, decision, nextTick, sample>>
vars        == <<herdrVars, diskVars, runtimeVars, claim, churn>>

Authors == {"herdr", "user", "plugin", "stray"}
Phases  == {"wait", "inspect", "revalidate", "confirm", "rename"}
Sample  == [tab: Tabs, label: Labels, lifecycle: Evidence, target: Maybe(Labels)]
Late    == [tab: Tabs, label: Labels]

HerdrOK ==
    /\ label \in [Tabs -> Labels]
    /\ author \in [Tabs -> Authors]
    /\ evidence \in [Tabs -> Evidence]
    /\ shows \in [Tabs -> Maybe(Candidates)]
    /\ focus \in Maybe(Tabs)
    /\ late \in SUBSET Late

DiskOK == store \in Store /\ damaged \in BOOLEAN

(* A sample is held exactly between its observation and the end of its      *)
(* tick, and from the decision to rename on it names the label to write.    *)
RuntimeOK ==
    /\ running \in BOOLEAN
    /\ phase \in Phases
    /\ decision \in DecisionState
    /\ nextTick \in 0..Period
    /\ IF phase = "wait" THEN sample = None ELSE sample \in Sample
    /\ phase \in {"revalidate", "confirm", "rename"} => sample.target # None

HistoryOK == claim \in [Tabs -> BOOLEAN] /\ churn \in 0..MaxChurn

TypeOK == HerdrOK /\ DiskOK /\ RuntimeOK /\ HistoryOK

Init ==
    /\ label \in [Tabs -> Labels]
    /\ author = [t \in Tabs |-> "herdr"]
    /\ evidence \in [Tabs -> Evidence]
    /\ shows \in [Tabs -> Maybe(Candidates)]
    /\ focus \in Maybe(Tabs)
    /\ late = {}
    /\ store = EmptyStore
    /\ damaged = FALSE
    /\ running = FALSE
    /\ phase = "wait"
    /\ decision = NewDecisionState
    /\ nextTick = 0
    /\ sample = None
    /\ claim = [t \in Tabs |-> FALSE]
    /\ churn = MaxChurn

Spend == churn > 0 /\ churn' = churn - 1

-------------------------------------------------------------------------------
(* The user, the programs in the panes and Herdr.                           *)

(* The labels of t that reconciliation and lock detection cannot tell from  *)
(* the plugin's own work, whoever wrote them.                               *)
Ambiguous(t) ==
    {store.baselines[t]}
      \cup (IF store.intents[t] = None THEN {}
            ELSE {store.intents[t].previous, store.intents[t].intended})
      \cup {NumberLabel[evidence[t]]}

(* The store can know that t was named by the user: it holds a baseline or  *)
(* an intent of t, the new label is none the plugin could have left, and    *)
(* the runtime is not past its last look at t.                              *)
CanKnow(t, l) ==
    /\ ~damaged
    /\ store.baselines[t] # None \/ store.intents[t] # None
    /\ l \notin Ambiguous(t)
    /\ ~(phase \in {"confirm", "rename"} /\ sample.tab = t)

(* The store can account for the label l of t: it knows no other, or l is   *)
(* an end of the unresolved intent.                                         *)
Accounted(s, l, t) ==
    \/ s.intents[t] = None /\ s.baselines[t] \in {None, l}
    \/ s.intents[t] # None /\ l = s.intents[t].intended
    \/ s.intents[t] # None /\ l = s.intents[t].previous /\ s.baselines[t] \in {None, l}

Sampled(t) == phase # "wait" /\ sample.tab = t

(* A label that comes to t behind the back of the runtime is a stray if the *)
(* store cannot account for it, or if the tab is just being sampled.        *)
Mark(t, l, who) == IF Accounted(store, l, t) /\ ~Sampled(t) THEN who ELSE "stray"

UserRename(t, l) ==
    /\ Spend
    /\ l # label[t]
    /\ label' = [label EXCEPT ![t] = l]
    /\ author' = [author EXCEPT ![t] = "user"]
    /\ claim' = [claim EXCEPT ![t] = CanKnow(t, l)]
    /\ UNCHANGED <<evidence, shows, focus, late, diskVars, runtimeVars>>

ProgramChange(t, c) ==
    /\ Spend
    /\ c # shows[t]
    /\ shows' = [shows EXCEPT ![t] = c]
    /\ UNCHANGED <<label, author, evidence, focus, late, diskVars, runtimeVars, claim>>

FocusChange(t) ==
    /\ Spend
    /\ t # focus
    /\ focus' = t
    /\ UNCHANGED <<label, author, evidence, shows, late, diskVars, runtimeVars, claim>>

(* The focused pane of a living tab, its revision or its number changes.    *)
ViewChange(t, e) ==
    /\ "view" \in Hazards
    /\ Spend
    /\ e # evidence[t]
    /\ evidence' = [evidence EXCEPT ![t] = e]
    /\ UNCHANGED <<label, author, shows, focus, late, diskVars, runtimeVars, claim>>

(* Herdr closes the tab and hands its id to a fresh one, which it labels    *)
(* with the tab's number.                                                   *)
ReuseTab(t, e) ==
    /\ "reuse" \in Hazards
    /\ Spend
    /\ NumberLabel[e] # None
    /\ evidence' = [evidence EXCEPT ![t] = e]
    /\ label' = [label EXCEPT ![t] = NumberLabel[e]]
    /\ author' = [author EXCEPT ![t] = Mark(t, NumberLabel[e], "herdr")]
    /\ claim' = [claim EXCEPT ![t] = FALSE]
    /\ UNCHANGED <<shows, focus, late, diskVars, runtimeVars>>

(* Herdr applies a rename after its client stopped waiting for the answer.  *)
LateRename(r) ==
    /\ late' = late \ {r}
    /\ label' = [label EXCEPT ![r.tab] = r.label]
    /\ author' = [author EXCEPT ![r.tab] = Mark(r.tab, r.label, "plugin")]
    /\ claim' = [claim EXCEPT ![r.tab] = FALSE]
    /\ UNCHANGED <<evidence, shows, focus, diskVars, runtimeVars, churn>>

(* The state file stops decoding, or a file of an older release appears.    *)
DamageStore ==
    /\ "damage" \in Hazards
    /\ Spend
    /\ ~damaged
    /\ damaged' = TRUE
    /\ claim' = [t \in Tabs |-> FALSE]
    /\ UNCHANGED <<herdrVars, store, runtimeVars>>

-------------------------------------------------------------------------------
(* Commands and triggers: run_runtime_loop receives them while it waits.    *)

Waiting == running /\ phase = "wait"

NoteRefreshTrigger ==
    /\ decision' = NoteTrigger(decision)
    /\ nextTick' = Quiet

(* Focus, startup and manual triggers.  A creation trigger is ignored.      *)
Trigger ==
    /\ Waiting
    /\ Spend
    /\ NoteRefreshTrigger
    /\ UNCHANGED <<herdrVars, diskVars, running, phase, sample, claim>>

(* The focused tab is read from Herdr; a failed read of it or of the store  *)
(* ends the command before it changes anything.                             *)
UnlockFocused ==
    /\ Waiting /\ (damaged => focus = None)
    /\ Spend
    /\ store' = IF focus = None THEN store ELSE UnlockTab(store, focus)
    /\ claim' = IF focus = None \/ ~IsLocked(store, focus) THEN claim
                ELSE [claim EXCEPT ![focus] = FALSE]
    /\ NoteRefreshTrigger
    /\ UNCHANGED <<herdrVars, damaged, running, phase, sample>>

UnlockAllTabs ==
    /\ Waiting /\ ~damaged
    /\ Spend
    /\ store' = UnlockAll(store)
    /\ claim' = [t \in Tabs |-> claim[t] /\ ~IsLocked(store, t)]
    /\ NoteRefreshTrigger
    /\ UNCHANGED <<herdrVars, damaged, running, phase, sample>>

(* A valid file is left alone; a damaged one is archived and replaced by an *)
(* empty one.  The runtime does it, or the command line without a runtime.  *)
RepairDiscard ==
    /\ Waiting \/ ~running
    /\ Spend
    /\ store' = IF damaged THEN EmptyStore ELSE store
    /\ damaged' = FALSE
    /\ IF running THEN NoteRefreshTrigger ELSE UNCHANGED <<decision, nextTick>>
    /\ UNCHANGED <<herdrVars, running, phase, sample, claim>>

(* The command line deletes the state of a stopped session.                 *)
ForgetSession ==
    /\ ~running /\ ~damaged
    /\ Spend
    /\ store' = EmptyStore
    /\ claim' = [t \in Tabs |-> FALSE]
    /\ UNCHANGED <<herdrVars, damaged, runtimeVars>>

(* An accepted reload replaces the label policy, hence the candidates; a    *)
(* rejected one changes nothing.                                            *)
ReloadConfig ==
    /\ Waiting
    /\ Spend
    /\ shows' \in [Tabs -> Maybe(Candidates)]
    /\ decision' = NoteTrigger(Complete(decision))
    /\ nextTick' = Quiet
    /\ UNCHANGED <<label, author, evidence, focus, late, diskVars, running, phase, sample, claim>>

-------------------------------------------------------------------------------
(* execute_one_shot, one step for each Herdr call.                          *)

NextSampleIn(d) ==
    IF d.eval.active /\ d.eval.samples > 0 THEN d.eval.again ELSE Period

(* The tick is over: back to recv_until with the next instant to wait for.  *)
EndTick(d) ==
    /\ phase' = "wait"
    /\ sample' = None
    /\ decision' = d
    /\ nextTick' = NextSampleIn(d)
    /\ UNCHANGED running

(* The loop returns; what was in memory is gone.                            *)
ExitLoop ==
    /\ running' = FALSE
    /\ phase' = "wait"
    /\ sample' = None
    /\ UNCHANGED <<decision, nextTick>>

Due == Waiting /\ nextTick = 0

(* No call is made: the quiet window is open, or the deadline has passed.   *)
IdleTick ==
    /\ Due
    /\ \/ NextKind(decision) = "wait" /\ EndTick(decision)
       \/ NextKind(decision) = "stop" /\ EndTick(Complete(Begin(decision)))
    /\ UNCHANGED <<herdrVars, diskVars, claim, churn>>

ObservesNothing ==
    /\ focus = None
    /\ EndTick(Complete(Begin(decision)))
    /\ UNCHANGED store

(* A store that cannot be loaded is a state integrity fault: the loop ends. *)
StoreFault == damaged /\ ExitLoop /\ UNCHANGED store

(* The observation of the focused tab settles what became of an earlier     *)
(* rename; a tab locked before or by that is left alone.                    *)
ObservesTab(t) ==
    LET out   == ReconcileOutcome(store, t, label[t], evidence[t])
        after == Reconcile(store, t, label[t], evidence[t])
        begun == Begin(decision)
        free  == out # "manual_intent" /\ ~IsLocked(after, t)
    IN  /\ focus = t /\ ~damaged
        /\ store' = after
        /\ \/ ~free /\ EndTick(Complete(begun))
           \/ /\ free
              /\ phase' = "inspect"
              /\ sample' = [tab |-> t, label |-> label[t],
                            lifecycle |-> evidence[t], target |-> None]
              /\ decision' = IF out = "reused_tab" THEN ResetTab(begun, t) ELSE begun
              /\ UNCHANGED <<running, nextTick>>

ObserveFocusedTab ==
    /\ Due
    /\ NextKind(decision) = "observe"
    /\ \/ ObservesNothing
       \/ \E t \in Tabs : ObservesTab(t)
       \/ focus # None /\ StoreFault
    /\ UNCHANGED <<herdrVars, damaged, claim, churn>>

(* The process call of the sampled pane: its candidate, or the one of its   *)
(* directory when the call fails.                                           *)
Inspected(t) == {shows[t]} \cup (IF churn > 0 THEN {DirectoryCandidate} ELSE {})

StoreAfterDecision(t, d) ==
    CASE d.kind = "create_manual_lock" -> LockTab(store, t, d.label)
      [] d.kind = "record_baseline"    -> RecordPluginLabel(store, t, d.label)
      [] OTHER                         -> store

DecidesOn(c) ==
    LET t     == sample.tab
        d     == Decision(decision, t, c, sample.label, store.baselines[t])
        after == AfterDecision(decision, t, c, d.kind)
    IN  /\ store' = StoreAfterDecision(t, d)
        /\ claim' = IF d.kind = "record_baseline" /\ d.label = label[t]
                    THEN [claim EXCEPT ![t] = FALSE]
                    ELSE claim
        /\ churn' = IF c = shows[t] THEN churn ELSE churn - 1
        /\ \/ /\ d.kind = "rename"
              /\ phase' = "revalidate"
              /\ sample' = [sample EXCEPT !.target = d.label]
              /\ decision' = after
              /\ UNCHANGED <<running, nextTick>>
           \/ d.kind # "rename" /\ EndTick(after)

InspectPane ==
    /\ running /\ phase = "inspect"
    /\ \/ ~damaged /\ \E c \in Inspected(sample.tab) : DecidesOn(c)
       \/ StoreFault /\ UNCHANGED <<claim, churn>>
    /\ UNCHANGED <<herdrVars, damaged>>

(* revalidate_focused_candidate: the tab is still focused, labelled and     *)
(* framed as in the sample, and not locked.                                 *)
(* A mistake to be caught (README, Mutants). *)
StillFramedAsSampled ==
    /\ focus = sample.tab
    /\ evidence[sample.tab] = sample.lifecycle
    /\ ~IsLocked(store, sample.tab)
StillAsSampled ==
    /\ focus = sample.tab
    /\ label[sample.tab] = sample.label
    /\ evidence[sample.tab] = sample.lifecycle
    /\ ~IsLocked(store, sample.tab)

RevalidateObservation ==
    /\ running /\ phase = "revalidate"
    /\ \/ /\ StillAsSampled /\ ~damaged
          /\ phase' = "confirm"
          /\ UNCHANGED <<running, sample, decision, nextTick, store>>
       \/ ~StillAsSampled /\ EndTick(decision) /\ UNCHANGED store
       \/ StillAsSampled /\ StoreFault
    /\ UNCHANGED <<herdrVars, damaged, claim, churn>>

(* The candidate is read once more; when it is the one decided on, the      *)
(* intent is made durable.                                                  *)
NewIntent == [previous |-> sample.label, intended |-> sample.target,
              lifecycle |-> sample.lifecycle]

Confirms(c) == c # None /\ c.label = sample.target

(* The intent is written, unless the store is damaged or holds an intent of *)
(* the tab (UnresolvedRenameIntent): either error ends the loop.            *)
ConfirmCandidate ==
    /\ running /\ phase = "confirm"
    /\ \E c \in Inspected(sample.tab) :
         /\ churn' = IF c = shows[sample.tab] THEN churn ELSE churn - 1
         /\ \/ /\ Confirms(c)
               /\ IF ~damaged /\ store.intents[sample.tab] = None
                  THEN /\ store' = RecordIntent(store, sample.tab, NewIntent)
                       /\ phase' = "rename"
                       /\ UNCHANGED <<running, sample, decision, nextTick>>
                  ELSE ExitLoop /\ UNCHANGED store
            \/ /\ ~Confirms(c)
               /\ EndTick(decision)
               /\ UNCHANGED store
    /\ UNCHANGED <<herdrVars, damaged, claim>>

(* Herdr applies tab.rename, whether or not its answer arrives in time.     *)
RenameTab ==
    /\ running /\ phase = "rename"
    /\ label' = [label EXCEPT ![sample.tab] = sample.target]
    /\ author' = [author EXCEPT ![sample.tab] = "plugin"]
    /\ EndTick(decision)
    /\ UNCHANGED <<evidence, shows, focus, late, diskVars, claim, churn>>

(* The call fails before Herdr applied the rename.                          *)
RenameFails ==
    /\ running /\ phase = "rename"
    /\ Spend
    /\ late' \in IF "late" \in Hazards
                 THEN {late, late \cup {[tab |-> sample.tab, label |-> sample.target]}}
                 ELSE {late}
    /\ EndTick(decision)
    /\ UNCHANGED <<label, author, evidence, shows, focus, diskVars, claim>>

(* A snapshot call fails while the socket is still there: the error is      *)
(* recorded and the loop goes on.                                           *)
SnapshotFails ==
    /\ running
    /\ Spend
    /\ \/ Due /\ NextKind(decision) = "observe" /\ EndTick(Begin(decision))
       \/ phase = "revalidate" /\ EndTick(decision)
    /\ UNCHANGED <<herdrVars, diskVars, claim>>

-------------------------------------------------------------------------------
(* The owner is killed, faults on its store or finds the session gone; a    *)
(* later hook starts another, whose loop begins with a trigger.             *)

OwnerExits ==
    /\ running
    /\ Spend
    /\ ExitLoop
    /\ UNCHANGED <<herdrVars, diskVars, claim>>

OwnerStarts ==
    /\ ~running
    /\ running' = TRUE
    /\ phase' = "wait"
    /\ sample' = None
    /\ decision' = NoteTrigger(NewDecisionState)
    /\ nextTick' = Quiet
    /\ UNCHANGED <<herdrVars, diskVars, claim, churn>>

Tick ==
    /\ Waiting /\ nextTick > 0
    /\ decision' = Elapse(decision)
    /\ nextTick' = nextTick - 1
    /\ UNCHANGED <<herdrVars, diskVars, running, phase, sample, claim, churn>>

-------------------------------------------------------------------------------
Environment ==
    \/ \E t \in Tabs, l \in Labels : UserRename(t, l)
    \/ \E t \in Tabs, c \in Maybe(Candidates) : ProgramChange(t, c)
    \/ \E t \in Maybe(Tabs) : FocusChange(t)
    \/ \E t \in Tabs, e \in Evidence : ViewChange(t, e) \/ ReuseTab(t, e)
    \/ \E r \in late : LateRename(r)
    \/ DamageStore

Control ==
    \/ Trigger \/ UnlockFocused \/ UnlockAllTabs \/ ReloadConfig
    \/ RepairDiscard \/ ForgetSession

Sampling ==
    \/ IdleTick \/ ObserveFocusedTab \/ InspectPane
    \/ RevalidateObservation \/ ConfirmCandidate \/ RenameTab

Failure == RenameFails \/ SnapshotFails \/ OwnerExits

Next == Environment \/ Control \/ Sampling \/ Failure \/ OwnerStarts \/ Tick

Spec == Init /\ [][Next]_vars

(* The loop never stops taking its turns, time passes, and some hook finds  *)
(* the missing owner: each is one thread or process that is always ready.   *)
Fairness == WF_vars(Sampling) /\ WF_vars(OwnerStarts) /\ WF_vars(Tick)

FairSpec == Spec /\ Fairness

-------------------------------------------------------------------------------
(* Properties.                                                              *)

(* A rename that Herdr applies after its client gave up on it is not among  *)
(* the writes of the plugin: nothing in the code can hold it back.          *)
AppliesLate(t)  == \E r \in late \ late' : r.tab = t
PluginWrites(t) == label'[t] # label[t] /\ author'[t] = "plugin" /\ ~AppliesLate(t)

Announced(t, l) ==
    ~IsLocked(store, t) /\ store.intents[t] # None /\ store.intents[t].intended = l

(* The plugin never changes the label of a locked tab, and it never changes *)
(* any label before the intent that will explain the change is on disk; a   *)
(* rename it gives up on, which Herdr may still apply, was announced like   *)
(* that too (execute_one_shot: "preceded by a durable, session-scoped       *)
(* Automatic Rename Intent").                                               *)
RenameIsWriteAhead ==
    [][/\ \A t \in Tabs : PluginWrites(t) => Announced(t, label'[t])
       /\ \A r \in late' \ late : Announced(r.tab, r.label)]_vars

(* A lock is only ever created over a label the user wrote, or one that     *)
(* came behind the back of the runtime where the store could not account    *)
(* for it: neither a crash between a rename and its confirmation, nor a     *)
(* lost answer, nor a rename applied late but before the next look at the   *)
(* tab, makes the plugin take its own label, or Herdr's, for manual intent  *)
(* (detect_manual_lock, reconcile_automatic_rename_intent).                 *)
LocksAreManual ==
    [][\A t \in Tabs :
         ~IsLocked(store, t) /\ IsLocked(store', t) => author[t] \in {"user", "stray"}]_vars

(* A label the user gave to a tab whose baseline or intent is stored is     *)
(* never overwritten until the user unlocks, except when it was typed after *)
(* the runtime's last look at the tab, or by a rename applied late.         *)
ManualLabelKept ==
    [][\A t \in Tabs : PluginWrites(t) => ~claim[t]]_vars

(* The documents' rule for reused tab ids: a label that spells the tab's    *)
(* own number is Herdr's default for a fresh tab, never manual intent       *)
(* (locks.rs:1-7, CONTEXT.md Manually Locked Tab).                          *)
DefaultLabelNeverLocked ==
    [][\A t \in Tabs : ~IsLocked(store, t) /\ IsLocked(store', t)
         => ~IsDefaultTabLabel(store'.locks[t], evidence[t])]_vars

(* A tab with an unresolved intent is not locked, and while a sample is     *)
(* under way its tab has no unresolved intent but the one of that sample:   *)
(* record_automatic_rename_intent cannot meet an older intent, so the       *)
(* UnresolvedRenameIntent fault never ends an owner.                        *)
IntentDiscipline ==
    /\ \A t \in Tabs : store.intents[t] # None => ~IsLocked(store, t)
    /\ phase \in {"inspect", "revalidate", "confirm"} =>
         store.intents[sample.tab] = None
    /\ phase = "rename" => store.intents[sample.tab] = NewIntent

(* The loop's alarm and the decision state agree: the quiet window is never *)
(* open when the alarm fires, so no evaluation can meet it; an evaluation   *)
(* that decided to rename is over, so it cannot rename twice.               *)
AlarmAgrees ==
    /\ running /\ decision.quiet > 0 => phase = "wait" /\ nextTick = decision.quiet
    /\ running /\ phase \in {"revalidate", "confirm", "rename"} => ~decision.eval.active

(* The history of a tab counts samples of the present evaluation only.  It  *)
(* never gets to hold a stable candidate or a command: an evaluation that   *)
(* finds one is over, and its history is cleared.                           *)
HistoryAgrees ==
    \A t \in Tabs :
      /\ decision.stability[t].count <= decision.eval.samples
      /\ decision.stability[t].lastStable = None
      /\ decision.stability[t].lastCommand = None

(* What the loop waits for, what the evaluation has sampled and what the    *)
(* history has seen agree, whatever triggers, failures and reloads came in  *)
(* between: no label is decided on what an earlier evaluation saw.          *)
ScheduleAgrees == AlarmAgrees /\ HistoryAgrees

(* Once the user, the programs and Herdr rest, the focused tab ends up with *)
(* the label of what it shows, unless it is locked: no crash, lost answer,  *)
(* failed call or superseded evaluation leaves it stale for good            *)
(* (Continuous Focused-Tab Freshness).                                      *)
Settled ==
    focus # None =>
      \/ shows[focus] = None
      \/ IsLocked(store, focus)
      \/ label[focus] = shows[focus].label

Converges == <>[]Settled

(* An unresolved intent does not outlive the next look at its tab: as long  *)
(* as the tab keeps the focus, the intent is settled (crash recovery by     *)
(* reconcile_automatic_rename_intent).                                      *)
IntentsResolve ==
    \A t \in Tabs : store.intents[t] # None /\ focus = t
                       ~> store.intents[t] = None \/ focus # t
==============================================================================
