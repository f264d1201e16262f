------------------------------ MODULE MCOwnership ------------------------------
(* Values for the constants of Ownership: the clients run different         *)
(* executables, as after an upgrade.                                        *)
EXTENDS Ownership, TLC

CONSTANTS old, new, hook, user

MCBinaries == {old, new}
MCClients == {hook, user}
MCBinaryOf == [c \in MCClients |-> IF c = hook THEN old ELSE new]

(* Launch ids are compared and nothing else; the runs of liveness           *)
(* properties do without the symmetry.                                      *)
MCSymmetry == Permutations(Launches)
================================================================================
