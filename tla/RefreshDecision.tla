---------------------------- MODULE RefreshDecision ----------------------------
(***************************************************************************)
(* refresh_decision.rs: the pure, bounded policy of one evaluation.         *)
(* Instants are kept as the time left until them, in one common unit, with  *)
(* 0 for "reached"; Elapse is one unit of time.                             *)
(* The u64 trigger generation is left out: note_trigger, its only writer,   *)
(* also drops the evaluation, so an active evaluation always carries the    *)
(* current generation.                                                      *)
(***************************************************************************)
EXTENDS SessionTabState, Stability

CONSTANTS
    Quiet,          \* FOCUS_QUIET_WINDOW
    Deadline,       \* EVALUATION_DEADLINE
    Poll,           \* StabilityPolicy::poll_interval
    MaxSamples      \* MAX_EVALUATION_SAMPLES

ASSUME DecisionConstants ==
    /\ Quiet \in Nat \ {0} /\ Deadline \in Nat /\ Poll \in Nat
    /\ Quiet < Deadline
    /\ MaxSamples \in Nat \ {0}

(* samples = 0 stands for last_sample_at = None: record_sample sets both.   *)
Evaluation == [active: BOOLEAN, left: 0..Deadline,
               samples: 0..MaxSamples, again: 0..Poll]
NoEvaluation == [active |-> FALSE, left |-> 0, samples |-> 0, again |-> 0]

NoHistory == [t \in Tabs |-> NewStability]

DecisionState ==
    [quiet: 0..Quiet, trigger: Maybe(0..Deadline), eval: Evaluation,
     stability: [Tabs -> StabilityState]]

NewDecisionState ==
    [quiet |-> 0, trigger |-> None, eval |-> NoEvaluation, stability |-> NoHistory]

NoteTrigger(d) ==
    [quiet |-> Quiet, trigger |-> Deadline, eval |-> NoEvaluation, stability |-> NoHistory]

(* A mistake to be caught (README, Mutants). *)
CompleteKeepsEvaluation(d) == [d EXCEPT !.stability = NoHistory]
Complete(d) ==
    [d EXCEPT !.eval = NoEvaluation, !.trigger = None, !.stability = NoHistory]

(* next(), past the quiet window: opens an evaluation when there is none.   *)
Begin(d) ==
    IF d.eval.active
    THEN [d EXCEPT !.quiet = 0]
    ELSE [quiet     |-> 0,
          trigger   |-> None,
          eval      |-> [active  |-> TRUE,
                         left    |-> IF d.trigger = None THEN Deadline ELSE d.trigger,
                         samples |-> 0,
                         again   |-> 0],
          stability |-> NoHistory]

NextKind(d) ==
    IF d.quiet > 0 THEN "wait"
    ELSE IF Begin(d).eval.left = 0 THEN "stop"
    ELSE "observe"

-------------------------------------------------------------------------------
(* decide_observation, for an observation with its identity fields present  *)
(* and manually_locked = false, which is how the executor builds it.        *)

StableLabel(d, t, c) ==
    IF Verdict(d.stability[t], c) = "pending"
    THEN None
    ELSE Effective(d.stability[t], c).label

Decision(d, t, c, visible, baseline) ==
    IF c = None
    THEN [kind |-> "skip_no_candidate", label |-> None]
    ELSE LET stable == StableLabel(d, t, c)
         IN  IF DetectManualLock(visible, baseline, stable)
             THEN [kind |-> "create_manual_lock", label |-> visible]
             ELSE IF stable = None
             THEN [kind |-> "defer", label |-> c.label]
             ELSE IF stable = visible
             THEN [kind |-> "record_baseline", label |-> stable]
             ELSE [kind |-> "rename", label |-> stable]

(* A mistake to be caught (README, Mutants). *)
RecordSampleEndsOnDefer(d, complete) == Complete(d)
RecordSample(d, complete) ==
    IF complete \/ d.eval.samples + 1 >= MaxSamples
    THEN Complete(d)
    ELSE [d EXCEPT !.eval.samples = d.eval.samples + 1, !.eval.again = Poll]

AfterDecision(d, t, c, kind) ==
    LET observed == IF c = None
                    THEN d
                    ELSE [d EXCEPT !.stability[t] = Observe(d.stability[t], c)]
    IN  RecordSample(observed, kind # "defer")

ResetTab(d, t) == [d EXCEPT !.stability[t] = NewStability]

-------------------------------------------------------------------------------
(* A mistake to be caught (README, Mutants). *)
LessUnclamped(n) == n - 1
Less(n) == IF n > 0 THEN n - 1 ELSE 0

Elapse(d) ==
    [quiet     |-> Less(d.quiet),
     trigger   |-> IF d.trigger = None THEN None ELSE Less(d.trigger),
     eval      |-> [d.eval EXCEPT !.left = Less(d.eval.left), !.again = Less(d.eval.again)],
     stability |-> [t \in Tabs |->
                      [d.stability[t] EXCEPT !.grace = Less(d.stability[t].grace)]]]
==============================================================================
