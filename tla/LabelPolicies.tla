----------------------------- MODULE LabelPolicies -----------------------------
(***************************************************************************)
(* A session's Label Policy from config.toml to the label of a pane: the    *)
(* runtime loads the file when it starts and whenever it is asked to, keeps *)
(* the policy it has when the file is rejected, and presents panes with it. *)
(***************************************************************************)
EXTENDS Profiles, Labeler

CONSTANTS DefaultLength, DefaultSeparator, PrefixOf

ASSUME PoliciesConstants ==
    /\ DefaultLength \in 1..MaxMaxLength
    /\ DefaultSeparator \in [Formats -> Text]
    /\ PrefixOf \in [0..N -> Text]  \* the prefix a profile gives its candidates

vars == <<profilesVars, labelerVars>>

TypeOK == ProfilesTypeOK /\ LabelerTypeOK

Or(value, default) == IF value = None THEN default ELSE value

(* LabelPolicy::configured, from a file that compiled.                      *)
Configured(r) ==
    LET format == Or(r.labels.format, "directory_and_command")
    IN  [significant |-> BuiltinSignificant \cup Listed(r.significant),
         ignored     |-> Listed(r.ignored),
         prefix      |-> [c \in Candidates |->
                            IF r.prefixes[c] = None THEN <<>> ELSE PrefixOf[r.prefixes[c]]],
         maxLength   |-> Or(r.labels.maxLength, DefaultLength),
         maxWidth    |-> r.labels.maxWidth,
         format      |-> format,
         separator   |-> Or(r.labels.separator, DefaultSeparator[format])]

(* The start of a runtime, and config reload.                               *)
(* A mistake to be caught (README, Mutants). *)
ActivateAnyway == IF outcome' = "loading" THEN policy ELSE Configured(Or(resolved', Nothing))
Activate == IF outcome' = "valid" THEN Configured(resolved') ELSE policy

Load == LoadStep /\ policy' = Activate /\ UNCHANGED <<pane, phase, growth, label>>

(* The loop serves a command or a sample at a time.                         *)
Present == outcome # "loading" /\ PresentStep /\ UNCHANGED profilesVars

(* Config reload, or the next start of a runtime whose file was rejected.   *)
Reload ==
    /\ outcome # "loading" /\ (policy = None \/ phase = "done")
    /\ todo' = None /\ call' = None /\ chain' = <<>> /\ resolved' = None
    /\ outcome' = "loading"
    /\ phase' = "present"
    /\ UNCHANGED <<file, policy, pane, growth, label>>

Init == ProfilesInit /\ LabelerInit

Next == Load \/ Present \/ Reload

Spec == Init /\ [][Next]_vars

(* The file the policy in force came from, when it is the present one.      *)
InForce == phase = "done" /\ outcome = "valid" /\ file # Absent

(* A command that some profile of the selected chain ignores never names a  *)
(* pane, be it run by itself, as a runner or through node (README:          *)
(* additional_ignored; "command lists add entries").                        *)
IgnoredNeverNames ==
    InForce /\ SignificantCommand # None =>
      /\ SignificantCommand[1] \notin Ignoreds(Selected)
      /\ CommandOf(pane.processes[SignificantProcess]) \notin Ignoreds(Selected)

(* The policy in force changes only to that of a file without faults; a     *)
(* rejected file leaves it as it is (README: "a rejected reload keeps the   *)
(* last valid policy").                                                     *)
PolicyIsSound == [][policy' # policy => outcome' = "valid" /\ Sound]_vars
================================================================================
