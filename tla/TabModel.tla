------------------------------- MODULE TabModel -------------------------------
(***************************************************************************)
(* The data of one Herdr Session that every other module talks about: tabs, *)
(* labels, label candidates and the lifecycle evidence a snapshot carries.  *)
(* Strings are opaque here; only the comparisons the code makes on them are *)
(* kept.                                                                    *)
(***************************************************************************)
EXTENDS Naturals

CONSTANTS
    Tabs,            \* tab identifiers Herdr hands out (and may hand out again)
    Labels,          \* visible tab labels
    Candidates,      \* what labeler.rs can derive: [label, source]
    Evidence,        \* TabLifecycleEvidence: workspace, tab number, pane, revision
    NumberLabel,     \* [Evidence -> label that spells the tab number, or None]
    None             \* the absent Option

ASSUME NoneIsFresh ==
    /\ None \notin Tabs
    /\ None \notin Labels
    /\ None \notin Candidates
    /\ None \notin Nat

ASSUME DataTypes ==
    /\ Candidates \subseteq [label: Labels, source: {"command", "directory"}]
    /\ NumberLabel \in [Evidence -> Labels \cup {None}]

Maybe(S) == S \cup {None}
==============================================================================
