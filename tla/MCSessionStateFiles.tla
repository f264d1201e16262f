-------------------------- MODULE MCSessionStateFiles --------------------------
(* Values for the constants of SessionStateFiles.                            *)
EXTENDS SessionStateFiles, TLC

(* Process ids, sessions and pieces of evidence are only compared.           *)
MCSymmetry == Permutations(Pids) \cup Permutations(Sessions) \cup Permutations(Evidence)
================================================================================
