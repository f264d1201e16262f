------------------------------ MODULE AtomicStore ------------------------------
(***************************************************************************)
(* What a session's state file is to those who use it: one register, which  *)
(* a mutation changes in one step from its present value, and which a       *)
(* failure of the machine may set back to a value that is not yet settled.  *)
(***************************************************************************)
CONSTANTS Sessions, Pids, Evidence, None

VARIABLES
    value,  \* the marks of the mutations in it, evidence, or None
    past    \* the values it may still be set back to

vars == <<value, past>>

Init ==
    /\ value \in [Sessions -> Evidence \cup {None}]
    /\ past = [s \in Sessions |-> {}]

Set(s, v) ==
    /\ value' = [value EXCEPT ![s] = v]
    /\ past' = [past EXCEPT ![s] = @ \cup {value[s]}]

Mutate(s, p) == value[s] \notin Evidence /\ Set(s, (IF value[s] = None THEN {} ELSE value[s]) \cup {p})
Remove(s)    == Set(s, None)
Create(s)    == value[s] = None /\ Set(s, {})

Settle(s) == past' = [past EXCEPT ![s] = {}] /\ UNCHANGED value

Damage(s) ==
    /\ value[s] \notin Evidence
    /\ \E e \in Evidence : value' = [value EXCEPT ![s] = e]
    /\ past' = [past EXCEPT ![s] = {}]

SetBack ==
    /\ \A s \in Sessions : value'[s] \in past[s] \cup {value[s]}
    /\ past' = [s \in Sessions |-> {}]

Next ==
    \/ \E s \in Sessions : \/ \E p \in Pids : Mutate(s, p)
                           \/ Remove(s) \/ Create(s) \/ Settle(s) \/ Damage(s)
    \/ SetBack

Spec == Init /\ [][Next]_vars
================================================================================
