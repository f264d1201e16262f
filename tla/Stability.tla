------------------------------- MODULE Stability -------------------------------
(***************************************************************************)
(* stability.rs: when a stream of candidates of one tab is stable.          *)
(* last_stable_significant.observed_at is kept as `grace`, the time left of *)
(* the significant-to-directory grace period.                               *)
(***************************************************************************)
EXTENDS TabModel

CONSTANTS
    RequiredObservations,   \* DEFAULT_REQUIRED_OBSERVATIONS
    Grace                   \* DEFAULT_SIGNIFICANT_TO_CWD_GRACE

ASSUME StabilityConstants ==
    RequiredObservations \in Nat \ {0} /\ Grace \in Nat

CountLimit == 255           \* consecutive_observations is a saturating u8

StabilityState ==
    [pending:     Maybe(Candidates), count: 0..CountLimit,
     lastStable:  Maybe(Candidates),
     lastCommand: Maybe(Candidates), grace: 0..Grace]

NewStability ==
    [pending |-> None, count |-> 0, lastStable |-> None,
     lastCommand |-> None, grace |-> 0]

(* A directory candidate is replaced by the last stable command while the   *)
(* grace period lasts.                                                      *)
Effective(s, c) ==
    IF c.source = "directory" /\ s.lastCommand # None /\ s.grace > 0
    THEN s.lastCommand
    ELSE c

Consecutive(s, e) ==
    IF s.pending # e THEN 1
    ELSE IF s.count < CountLimit THEN s.count + 1 ELSE CountLimit

Verdict(s, c) ==
    LET e == Effective(s, c)
    IN  IF s.lastStable = e THEN "noop"
        ELSE IF Consecutive(s, e) >= RequiredObservations THEN "rename"
        ELSE "pending"

Observe(s, c) ==
    LET e       == Effective(s, c)
        verdict == Verdict(s, c)
        renews  == c.source = "command" /\ verdict # "pending"
    IN  [pending     |-> e,
         count       |-> Consecutive(s, e),
         lastStable  |-> IF verdict = "rename" THEN e ELSE s.lastStable,
         lastCommand |-> IF renews THEN e ELSE s.lastCommand,
         grace       |-> IF renews THEN Grace ELSE s.grace]
==============================================================================
