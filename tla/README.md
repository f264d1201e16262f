# Tabby, verified

Tabby keeps the labels of Herdr's tabs in step with what runs in them. One
*Session Runtime* per Herdr session watches the focused tab, decides on a label
and renames the tab through Herdr's socket, unless the user named the tab
herself. This directory holds TLA+ models of that program, TLC configurations
that check them on small instances, and TLAPS proofs of theorems about them.
The models are translated from the Rust source; file and line of every
definition are in `PROJECT.json` under `map`.

    tlc -workers 2 -config TabRefreshNavigation.cfg MCTabRefresh.tla
    tlapm TabRefreshManual.tla

## The system

| part | source | state it keeps | operations | hard behaviour |
|---|---|---|---|---|
| Session-Scoped Tab State | `locks.rs` | per tab: manual lock, baseline (last label of the plugin), unresolved rename intent | record, unlock, reconcile an intent, detect a manual label | a crash at any point between the intent and its confirmation; labels typed meanwhile |
| State files | `locks.rs`, `SessionTabStateStore` | per session: `state.json`, its lock, temporary and archived files; beside all sessions a `locks.json` of an older release | open, read, mutate (write, rename, sync), repair with its archives, forget | several processes; a kill, a failed call or a failure of the machine between two accesses; names that return; evidence that does not decode |
| Stability | `stability.rs` | per tab: the pending candidate, how often it was seen, the last stable command | observe a candidate | counts that survive what they should not |
| Refresh decision | `refresh_decision.rs` | the active evaluation, quiet window, samples taken, deadline | note a trigger, next action, decide, complete | a trigger in the middle of an evaluation, deadlines and instants that have passed |
| One-Shot Refresh | `refresh_executor.rs` | locals of one sample | snapshot, `pane.process_info`, snapshot, intent, snapshot, `tab.rename` | the user and Herdr act between any two calls; each call may fail; the rename may be applied after its deadline |
| Runtime loop | `session_runtime.rs`, `run_runtime_loop` | the next alarm | commands, triggers, the alarm, faults | command, trigger and alarm compete |
| Ownership | `session_runtime.rs`, `session_runtime/unix.rs` | startup gate and lease (flocked), `runtime.json`, `control.sock` | ensure, start, repair-state, forget-session, the life of an owner | several processes over shared files, kills, orphan children, handoff between two executables |
| Control endpoint | `session_runtime.rs` | bounded queue, four workers, replay memory, trigger slot, command queue | accept, validate, enqueue, answer | deadlines of worker, loop and client; replay; coalescing; handoff |
| Label policy | `labeler.rs` | none | candidate of a pane, presentation | two parts growing under two limits, graphemes of several sizes |
| Configuration | `config.rs` | the policy in force | load, select a profile, inherit, validate, reload | chains of profiles that are sound one by one and not together; a reload that fails |
| Herdr client | `herdr_client.rs` | none | one request and one reply per connection, decoding, the focused pane of a snapshot | replies cut short or late; snapshots that contradict themselves |
| Herdr contract | `herdr_contract.rs` | what the status, the schema and the first snapshot said | validate a Herdr before the runtime is Ready | Herdr stops, restarts, is upgraded or loses the pane between two calls; documents that differ in shape only |
| Identity, status, install, CLI, scripts | `startup.rs`, `paths.rs`, `status.rs`, `install.rs`, `lib.rs`, `scripts/` | none | path resolution, formatting | none that concerns two actors |

How they meet: hooks and commands (short-lived processes) find or start an
owner through Ownership and speak to it through the Control endpoint; its
mailbox feeds the Runtime loop; at its alarm the loop runs one sample of the
One-Shot Refresh, which asks the Refresh decision (and through it Stability)
and the Tab State store, and calls Herdr. A starting owner runs the Herdr
contract once, before it publishes that it is Ready. The runtime, `repair-state`
and `forget-session` open the same state files.

## The modules

| module | models | how |
|---|---|---|
| `TabModel` | what a label, a candidate, a tab's lifecycle evidence is | labels are values; of `tab_number` only the label that spells it matters (`NumberLabel`) |
| `SessionTabState` | `locks.rs` | operators on a store record, one per method; `Reconcile` is `reconcile_automatic_rename_intent` with its four outcomes |
| `Stability` | `stability.rs` | `Observe`, `Verdict` on one tab's history |
| `RefreshDecision` | `refresh_decision.rs` | instants are times left, one unit being the 500 ms cadence; `Elapse` lets a unit pass |
| `TabRefresh` | `refresh_executor.rs` and `run_runtime_loop` over the three above, Herdr, the user | one action per Herdr call; what the code computes and stores before its next call belongs to the same step, as the store has one writer |
| `TabRefreshHistory` | the same with a history variable | counts the snapshots an evaluation asks for |
| `SessionOwner` | abstract: holder of the lease, endpoint, published readiness | what ADR 0010 promises; six actions |
| `Ownership` | every process over the shared files | a step is one access to a shared file or one exchange; a command's position and locals are `client[c]`, a runtime's phase is `owner[l]` |
| `ControlEndpoint` | acceptor, workers, mailbox and loop of one owner | a step is what a thread does under one lock or between two channel operations |
| `PolicyModel` | words, candidates, texts | a text is a sequence of graphemes, a grapheme its scalars, its cells and the cells left when it is cut |
| `Profiles` | `config.rs` | the recursion of `resolve_profile` is `call` and `chain` on the way up, `resolved` on the way down |
| `Labeler` | `labeler.rs` | classification and truncation are operators, a round of the loop of `present_context` is a step |
| `LabelPolicies` | the two over `reload_config` | the loaded file becomes the policy in force or is rejected; the next pane is presented with it |
| `AtomicStore` | abstract: a session's state as one register | which a mutation changes in one step, and which a failure of the machine may set back to a value not yet settled |
| `SessionStateFiles` | the files of `locks.rs` and the processes that share them | a step is one access to a file; a state is the set of the processes whose mutations it contains |
| `JsonSchema` | external: what a JSON schema admits | `Validates` over documents of numbered nodes |
| `Absent` | `Option::None`, of documents, snapshots and calls | a constant shared by the next five |
| `HerdrFocus` | `herdr_client.rs`: errors of a call, `into_focused_observation` | which errors are retryable; the first tab or pane in the listed order that passes a test |
| `HerdrClient` | `herdr_client.rs`: requests and replies | which requests are sent, which replies decode (the types serde fills) |
| `ApiSchema` | `validate_schema` of `herdr_contract.rs` | one operator per function, over nodes that may be references, variants or lists of types |
| `HerdrContract` | `validate_with` over a Herdr that changes | one step per call; what `validate_schema` says of a document is the table `Accepts`, which `MCHerdrContract` fills from `ApiSchema` |
| `SchemaPromises` | what an accepted document admits | `ApiSchema`'s verdict held against `JsonSchema` and `HerdrClient`, for each document that `HerdrContract` accepted |
| `MC...` | values for the constants | `MCHerdrDocuments` makes the documents of the run `contract` |
| `TabRefreshProofs`, `TabRefreshManual` | proofs about `TabRefresh` and `TabRefreshHistory` | below |
| `StateFilesProofs`, `OwnershipProofs`, `ControlEndpointProofs`, `HerdrContractProofs` | proofs about `SessionStateFiles`, `Ownership`, `ControlEndpoint`, `HerdrContract` | below |
| `ProfilesProofs`, `LabelPoliciesProofs` | proofs about `Profiles`, and about `Labeler` under `LabelPolicies` | below |

`TabRefresh` variables and the code: `store`, `damaged` are the file;
`decision` is `RefreshDecisionState`; `nextTick` is `next_tick_at`; `phase` is
the Herdr call made next (`wait` while the loop sits in `recv_until`); `sample`
holds the locals of `evaluate_focused_sample`. `label`, `evidence`, `shows`,
`focus` are Herdr's; `author`, `claim`, `churn` are history. `late` holds renames
the client gave up on and Herdr may still apply. `author[t]` is "stray" where a
label came to `t` behind the back of the runtime (a late rename, the default
label of a reused id) and the store could not account for it, or `t` was just
being sampled (`Mark`): no code that sees only labels could tell it from the
user's.

`Ownership` variables: `gate`, `lease`, `meta`, `sock` are the four files
(`meta.state` tells faults apart by their recorded cause, since later clients
do); `owner[l]` follows `run_owned_session_with_contract_validator` and the
drops at its end: waiting for the lease, checking, bound, ready, retiring
(metadata next), closing (socket next), releasing (lease next), leaving (its
acceptor still answers). Launch ids that nothing refers to are used again, which
stands for an unbounded supply.

`SessionStateFiles` variables: `file` is what a name shows now, `older` what it
may show again if the machine fails before the directory is synced; `temps` are
the names of temporary files; `proc[p]` is a process, its position in a call
and its locals; `archived` are the archives, those of an earlier life that were
replaced included; `acked` and `arrived` are history. A process
holds its lock exactly while its place is one of `Locked`. A repair's lock is
the session's, while the file it may archive in the base directory belongs to
all sessions: that race is in the model.

`HerdrContract` variables: `binary`, `server` and `session` are Herdr's;
`step`, `observed`, `schema`, `asked` are the position and locals of
`validate_with`; `reporters` and `mishaps` are history. A document is kept by
name, as the names of all 826 are the domain of `Documents`.

## Runs

One unit of time is 500 ms: quiet window 2, deadline 5, period 10, grace 4, two
observations, three samples. These are the constants of the program.

| run | instance | shows |
|---|---|---|
| `navigation` | two tabs, four labels, a command and a directory, a file that may be damaged, late renames, three environment steps | `TypeOK`, `IntentDiscipline`, `ScheduleAgrees`, `ManualLabelKept`, `RenameIsWriteAhead`, `LocksAreManual` |
| `liveness` | one tab, reuse, late renames, changes of view, three environment steps, fairness | `Converges`, `IntentsResolve` |
| `ownership` | three launches, a hook of the old and a user of the new executable, two mishaps | `TypeOK`, `ReadyOwnerIsFound`, `SuccessMeansReady`, `OwnershipIsExclusive` (refines `SessionOwner`) |
| `ownership_recovery` | the same with `start` and configuration edits, fairness | `HooksRestoreOwner` |
| `control` | four connections (creation signal, focus signal, a command with the same id, handoff), two workers, queue of two, memory of one id | seven properties of replies, replay, coalescing and handoff |
| `label_policies` | every file of three profiles that inherit in any way and set one thing each; every pair of selectors; 400 combinations of label settings before 30 panes | that exactly the sound files load and what they yield (`LoadsWhatIsSound`, `NearestWins`, `PolicyIsSound`, `IgnoredNeverNames`), what a label shows (`LabelFits`, `WholeGraphemes`, `ShowsBothEnds`, `NothingToSpare`, `SidesGrowInTurn`) |
| `state_files` | two processes of one or two sessions, two pieces of evidence, four names for each, two mishaps | `TypeOK`, `AcknowledgedSurvives`, `EvidenceKept`, `StoreIsAtomic` (refines `AtomicStore`) |
| `contract` | 835 documents, 432 snapshots, three mishaps of Herdr | `ContractTypeOK`, `AcceptedRequestsPass`, `AcceptedRepliesDecode`, `SteadyHerdrIsAccepted`, `OneReleaseAnswered`, `FocusIsCoherent` |
| `evaluation_samples`, `reused_tab_locked`, `lost_manual_label`, `restore_stays_faulted` | as above | the findings below |

Bounds. `MaxChurn` counts only what the user, the programs, Herdr and the disk
do; what the runtime does, and its failures, crashes and restarts, are not
bounded. Three steps of the environment fit a refocus, a change of program and
a label typed between two calls of one sample, or a damage and what follows
it. Two tabs are enough for a focus that leaves
and returns, as the code keeps state per tab. In `Ownership`, `MaxMishaps`
counts kills, crashes, timeouts, edits and explicit commands; two suffice for a
killed hook that leaves an orphan while the user starts another executable, or
for a broken and then repaired configuration. Three launches suffice because
a client that has to spawn always finds a fresh launch or one that is about to
end. In `ControlEndpoint` nothing but the number of connections is bounded.
Three profiles are the fewest with a cycle that one of them inherits from
without being in it, and with a setting two levels up; a thing a profile may
set stands for its kind. The limits of labels run from 1 scalar and 1 cell past
the longest text. The reference definitions (`Ancestor`, `Sound`, `Nearest`,
`Parts`) share none of the algorithm's operators but `Fits` and `Compose`.
`MCSymmetry` (launch ids, process ids, sessions and evidence are only compared)
is used for safety only.

In `SessionStateFiles`, two processes suffice as every conflict is between two,
`MaxMishaps` of 2 lets an id die and come back, or two evidences appear, and
`MaxSequence` of 3 lets a call use its three names after a shorter one. In
`HerdrContract` each document is a sound one with one thing changed somewhere
(a keyword, a type, a format, a null, a field missing or added, a reference, a
variant), or one of the two releases as they are; the sound ones already hold
references, variants and nullable fields. Two changes in one document are not
combined. `Depth` is the program's limit of 16. Three mishaps let a server stop
and come back as another release while a pane exits. `OpenEnvelope` and
`TellsTypesApart` name the two things the schema check does not look at (see
"Gaps"); outside them the two properties hold for every accepted document.

Fairness. `TabRefresh`: the loop takes its turns, time passes, and some hook
finds a missing owner (Herdr fires hooks on every focus change and creation).
`Ownership`: processes that run are scheduled, and hooks keep coming.
`ControlEndpoint`: each thread that can go on does. No fairness is asked of the
user, of Herdr, of failures, of crashes or, in `ControlEndpoint`, of clients.
`LabelPolicies`, `SessionStateFiles` and `HerdrContract` have safety properties
only; a process may stay in a call for ever, as one that hangs does.
`CHECK_DEADLOCK FALSE` stands in the configurations of `Ownership` and
`ControlEndpoint` (a session that stopped without mishaps left, and an owner
that has gone, really rest), of `HerdrContract` (a validation that ended) and of
`SessionStateFiles` (processes that have used up their names).

## Mutants

Each property of a passing run is shown able to fail: a definition with the
comment "a mistake to be caught" is a plausible bug of the definition that
follows it, and with it in place the property is violated. They are listed in
`PROJECT.json`; e.g. `StillFramedAsSampled` revalidates without comparing the
label, `RecordIntentNotDurable` keeps the intent in memory,
`DropMetadataAndLease` releases the lease before the socket is removed,
`RecoverableOfProbesOnly` never retries after a configuration fault,
`VerdictOnTimeout` answers success when a command did not finish,
`SelectorsValidByForm` compares selectors of one form only, `WriteTempUnsynced`
renames a file it has not synced, `CompatibleAlways` is a lock that excludes
nobody, `RequireIntegerField` forgets that a field is unsigned, `ProbePaneOnce`
does not look again when the pane has gone.

## Findings

Four places where the code does not do what a document or comment says; each
has a run whose counterexample is the story.

1. `evaluation_samples`: a failed snapshot does not end an evaluation; it
   leaves its instant due, and the loop asks again at once, past three samples.
2. `reused_tab_locked`: a reused tab id keeps the baseline of the old tab, and
   Herdr's default label is locked as manual intent; the function that would
   prevent it has no caller.
3. `lost_manual_label`: a change of pane focus while an intent is unresolved
   discards the baseline, and the user's label is overwritten.
4. `restore_stays_faulted`: Herdr stops while a starting runtime validates it;
   what was a passing condition is recorded as a fault that no hook retries
   when the session is back.

The theorems below say how far each of the first three reaches: without a failed
snapshot no evaluation asks for more than three (`AnsweredSamplesAreBounded`);
a label that is not the user's is locked only if it came where the store cannot
account for it, or while its tab was being sampled (`LocksAreOverUserLabels`); only a change of view under an intent or a
sample loses a label of the user's (`ManualLabelsKept`).

Seen while modelling, without a run: the two seconds in which a finished
command keeps its label (`docs/design/architecture.md:42`) never act, as every
completed evaluation clears the history they need (that part of `HistoryAgrees`
is proved); `start` succeeds with an orphan of another executable;
`repair-state` does not lift the recorded fault of an owner that died of the
state it repairs; `docs/install.md` says that directory aliases apply only
without a Significant Command, the code applies them in the contextual formats
too; the identity of a session reached through a symbolic link changes when its
socket goes, while `CONTEXT.md` says it is stable.

## Gaps

What the models had to allow for, and no document promises:

* The schema check does not judge the keywords of the envelope and of a request
  variant (`additionalProperties: false`, unknown ones), nor whether a payload
  or a list item may be null or something other than an object, nor
  `agent_status` and the response's `id`. `tab.rename` is accepted for its `ok`
  reply even if `tab_info` cannot be decoded. `request_accepts_type` has no
  depth limit of its own. The live probes make up for most of this.
* A reply cut short by the end of the server is a JSON error, which is not
  retryable; so is a pane that exits during the retry as well.
* A temporary file of a killed process is not cleaned up, and a process that is
  given its id fails to create the same name; an archive is replaced in the same
  case (`EvidenceKept` says so).
* Repairs of two sessions may both archive `locks.json`: the second fails. A
  repair with legacy evidence discards a valid state too. The removal by
  `forget-session` and the archive of `locks.json` are not synced.

## What is proved

The theorems hold for every number of tabs, labels and candidates, of
processes, sessions and names, every duration, every bound on the environment;
they assume `TabConstants`, `RefreshConstants`, `StateFilesConstants`,
`OwnershipConstants`, `EndpointConstants`, `PolicyConstants`,
`ProfilesConstants`, `ContractConstants` and the like, which TLC evaluates in every run.

The refresh loop:

* `TabRefreshProofs!TypeCorrect`: `Spec => []TypeOK`. `TypeOK` also says that
  a sample is held exactly from its observation to the end of its tick, and
  names its target from the decision on. It is inductive by itself.
* `TabRefreshProofs!ScheduleAgreement`, of two parts. `AlarmAgrees`: the alarm
  is the end of the quiet window, and an evaluation that decided to rename is
  over. `HistoryAgrees`: what is known of a tab are looks of the present
  evaluation, none of them yet stable. Each is inductive beside `TypeOK`; for
  the second, a look that makes something stable ends its evaluation, which
  clears the history (`SeenAfterDecision`).
* `TabRefreshProofs!RenamesAreSeenEnough`: a rename is decided on only by an
  evaluation that has itself looked as often as the policy requires. From
  `HistoryAgrees`: with nothing stable yet, a verdict needs that many looks in
  a row (`StableIsSeen`).
* `TabRefreshProofs!AnsweredSamplesAreBounded`: `AtMostThreeSamples`, which the
  run `evaluation_samples` refutes, holds of every behaviour in which no sample
  begins with a failed snapshot. From `SamplesCounted`: the snapshots asked for
  are at most those counted, and one more while a pane is inspected.
* `TabRefreshProofs!IntentsDisciplined`: from the inductive `IntentInv`, which
  adds to `IntentDiscipline` that the tab of a sample past its decision is not
  locked and that a sample under way belongs to a running owner.
* `TabRefreshProofs!RenamesAreWrittenAhead`: from `IntentInv`,
  `WritesAreRenames` (but for a rename applied late, only `RenameTab` makes the
  plugin the author of a label) and `GivenUp` (what may be applied late is what
  that step was about to write). No hypothesis on what may happen.
* `TabRefreshManual!LocksAreOverUserLabels`: from `AccountInv`: a label that is
  neither the user's nor a stray is always accounted for by the store, as
  baseline or as an end of the unresolved intent, and a sample's label is
  current unless such a label came meanwhile. `LocksComeFromLooks` reduces a new
  lock to one of the two places of the code that create one. No hypothesis
  either: reuse and late renames are in what "stray" says, and a late rename
  before the next look at its tab is no stray, as its intent still accounts
  for it.
* `TabRefreshManual!ManualLabelsKeptOn`, for any set of tabs, and
  `ManualLabelsKept`, for all of them: from `ClaimInv(t)`: a claim the store can
  know is known (the tab is locked, or the next look tells the label from
  every label the plugin may have left), what an intent and a sample say of the
  view is true, and a claimed tab does not get past revalidation. Hypothesis
  `ViewHeld(t)`: the view of `t` does not change while an intent or a sample of
  it depends on it, which is what happens in finding 3. `ClaimInv(t)` speaks of
  no other tab, so nothing is asked of the others.
* `TabRefreshManual!StableViewsKeepLabels`: the same where the server neither
  reuses ids nor changes the view of a living tab, which implies `ViewHeld`.

`claim[t]` is set when the user types a label that the store can tell from the
plugin's own work, i.e. there is a baseline or an intent, the label differs
from both ends of it and from the tab number, and the runtime is not past its
last look at the tab. Each condition is needed: TLC finds the label lost
without it. An unlock, a late rename of the tab, its reuse, and damage or removal of
the state take the claim back.

The state files:

* `StateFilesProofs!TypeCorrect`: `Spec => []TypeOK`, from the inductive
  `CallInv`: processes that hold the lock of one session at once only read
  (`LockExcludes`); a call is at a place its operation has (`PlaceOK`); it never
  runs out of names before it ends, and an id not out of lives (`NamesOK`); what
  it found under its lock is still so (`LocalsOK`, `FoundOK`). Without the
  exclusion no step of another process could be told apart from the call's own;
  `AloneUndisturbed` is where it is used, `StepKeepsCallInv` the frame of every
  step.
* `StateFilesProofs!AcknowledgedMutationsSurvive`: inductive beside `CallInv`.
  The rename keeps it as the state renamed is the present one with the call's
  mark (`RenamedState`) and was synced; the sync of the directory as the file is
  still that state (`FoundOK`).
* `StateFilesProofs!EvidenceIsKept`: from `EvidenceInv`, which adds that evidence
  in its place is settled, so that no failure of the machine takes it away, and
  that an archive bears a name its maker will not give again (`Named`, from
  `ProcessesCount`: a counter starts again only in another life).
* `StateFilesProofs!StoreRefinesRegister`: `Spec => StoreIsAtomic`. The rename is
  the mutation (or the creation that ends a repair), the unlink and the archive
  the removal, the sync of the directory the settlement, a failure of the
  machine the setting back of unsettled values; every other step stutters.

Ownership of a session, for any number of launches, clients and executables:

* `OwnershipProofs!OwnershipInvariant`: `OwnershipInv` is inductive. `HolderOK`:
  a runtime is between its first look and its last act exactly while it has the
  lease, and in between the socket and then the metadata are its own; without
  it nobody could say whose files a retiring runtime removes. `UnpublishedOK`:
  neither the metadata nor what any client read names a runtime as Ready before
  it is; needed because a client compares generations only later. `Knows`: a
  client that exchanges messages does so on metadata that said Ready.
* `ReadyOwnerFound`, `SuccessIsReady` and `TypeCorrect` follow from it;
  `ImplementsSessionOwner` is the refinement: each step of a runtime is one of
  `SessionOwner`'s six or a stutter, and clients only stutter (`PublishedNext`).

The control endpoint, for any number of connections, workers, ids and any
memory of ids:

* `ControlEndpointProofs!EndpointInvariant`: `EndpointInv` is inductive.
  `WorkOK` and `MailboxOK`: a request waits in one queue at one position;
  `ResultsOK`: a command that was posted is in the mailbox or completed, which
  ties the worker's wait to the loop's result; `HandoffOK`: a handoff is the
  last of the mailbox, which stays closed; `RecentOK`: the ids remembered are
  the last ones admitted, in their order.
* `AcceptedIsApplied`, `NothingBehindHandoff`, `NoRecentReplay`,
  `ActionableTriggerSurvives`, `TypeCorrect` follow from it.

Configuration and label policy, for any number of profiles, words, graphemes of
any size and texts of any length:

* `LabelPoliciesProofs!PoliciesInvariant`: `PoliciesInv` is inductive.
  `GrowthOK` is what the loop of `present_context` keeps: the two parts shown
  fit, the preferred side is the shorter one, and a side that fell behind had no
  room when they were even. From it `LabelsAreLargest` (larger parts need more
  room, `FewerFit`, so a choice that needs both sides fits only if one side
  alone can grow) and `LabelsAreFair`; `EveryLabelFits`, `GraphemesStayWhole`,
  `BothEndsAreShown`, `TypeCorrect` follow likewise. The size of a text is a
  fold: `SumsExist` to `TotalConcat` show that it adds up.
* `LabelPoliciesProofs!LoadedInvariant`: `LoadedInv` adds `JudgedOK` and
  `InForceOK`. While `resolve_profile` climbs, its chain is the first ancestors
  of the profile and its argument the next (`Climbs`); while it returns, what it
  has resolved is what the ancestors from there on say (`Gathered`), with the
  entries of lists counted as none, one or more (`Counts`); and every profile
  that is not left to do has been found sound (`Remaining`). A chain that meets
  itself never ends (`CycleNeverEnds`); one that does not is no longer than the
  file (`ShortChain`, the pigeonhole principle). From it `SoundFilesLoad`,
  `NearestIsLoaded`, `IgnoredNames` and `PolicyStaysSound`.

`MCSpec` of the run `label_policies` starts from the enumerated files, policies
and panes; the theorems are about `Spec`, which starts from any of their types.

The contract of a Herdr, for any documents, releases, snapshots and mishaps:

* `HerdrContractProofs!ContractInvariant`: `ContractInv` is inductive.
  `ToldOneRelease`: from the status on, one supported release was reported, and
  from the schema on a document of its protocol was accepted; the server that
  answers next may be another one, which is why each snapshot is compared again.
  `SteadySoFar`: a steady Herdr is what the status said, and the pane that is
  asked for is listed unless one has exited, which uses up the single exit that
  the retry forgives.
* `OneReleaseAnswers`, `SteadyHerdrAccepted`, `ContractTypeCorrect` follow from
  it, and `FocusAlwaysCoherent` from the type of a snapshot alone
  (`SnapshotCoherent`): the ids of a snapshot need not even be distinct.

They assume of `validate_schema` only `SchemaVerdicts`: what it accepts for a
protocol names that protocol, and an additive document is accepted for its own.
The run evaluates this for each of its documents with `ApiSchema`'s
`ValidateSchema`, whose recursion over documents the prover cannot follow.
`ContractSpec` starts from any executable, server and snapshot, the run's `Spec`
from the enumerated ones.

The induction theorems of the library take a predicate and cannot be used here;
`ProfilesProofs!Induction` is the same for a set, from the existence of a least
element (`WFMin`), and serves the folds, the ancestors and the longest prefixes.

What the proofs found about the models: `NothingToSpare` and `SidesGrowInTurn`
spoke of every way to read a label as two parts, while equal graphemes can make
it readable in two ways of which the loop means one (`Splits`); a file gave the
global tables an `extends`, which the code's type does not have, and with which
a chain one longer than the profiles would be rejected by `Inherits` alone;
`CandidateOf` relied on the order of a CASE; and `None` had to be said to differ
from launches, clients and requests. The instances had none of these.

Each proof is laid out as one lemma per group of actions, one step per action,
one step per conjunct the action can disturb.

## Only model-checked

Liveness under fairness (`Converges`, `IntentsResolve`, `HooksRestoreOwner`,
`EveryRequestIsAnswered`, `HandoffEndsOwner`), which the prover does not reach,
and what the four findings' runs refute. `JsonSchema`, `ApiSchema` and
`SchemaPromises` use recursive operators over documents, for which it has no
backend: `AcceptedRequestsPass` and `AcceptedRepliesDecode`, and `SchemaVerdicts`
for the documents of the run, stay with TLC.

## Not modelled

In `TabRefresh` a label is a value; how it is made is `Labeler`'s. The
trailing components and the aliases of a directory are part of its text there,
and the widths of two graphemes add up. TOML, text checks and the check of a
file without a session. Whether the bytes of a state file decode and belong to
the session is one choice; `inspect_read_only` and `status.rs` change nothing;
`legacy_persisted_failure_is_retryable` reads the words of older releases' error
messages. A schema is an object (no `true` or `false`), and a document is well
formed. The widths of a protocol number, the bytes on the socket and the slices
in which they are read; file permissions, peer credentials and path resolution;
installation and scripts. A sample is taken to last less than one unit of time.
A clock that jumps is not modelled (the code uses monotonic instants). Two
runtimes of different sessions share nothing but `locks.json`, which is in
`SessionStateFiles`. `forget-session` is modelled three times, as a removal of a
stopped session's store in `TabRefresh`, as its three unguarded steps in
`Ownership` and as its file accesses in `SessionStateFiles`; that nothing starts
in between is not claimed.

## Plan

What would carry the proofs further: `SchemaVerdicts` for every document, which
needs an induction over the depth of documents; `AcceptedRequestsPass` and
`AcceptedRepliesDecode`, which do not hold of every document (`OpenEnvelope`,
`TellsTypesApart`) and need one over pairs of a document and a value.
