-------------------------------- MODULE Labeler --------------------------------
(***************************************************************************)
(* labeler.rs: the label of a pane under a Label Policy.  The first process *)
(* of the foreground that counts names the command; the command, its        *)
(* directory or both make the label, which must fit in maxLength scalars    *)
(* and maxWidth cells.  When both do not fit together, the command is shown *)
(* from its start and the directory up to its end, each growing in turn.    *)
(***************************************************************************)
EXTENDS PolicyModel

CONSTANT Name   \* the text of a candidate, its alias applied

ASSUME LabelerConstants == Name \in [Candidates -> Text \ {<<>>}]

VARIABLES
    policy,  \* the LabelPolicy in force, or None
    pane,    \* what the sample sees: processes, as normalized_argv, and directory
    phase,   \* "present", "grow" or "done"
    growth,  \* graphemes of the command shown, first of the directory shown
    label    \* the text of the candidate, or None

labelerVars == <<policy, pane, phase, growth, label>>

Policy ==
    [significant: SUBSET Words, ignored: SUBSET Words, prefix: [Candidates -> Text],
     maxLength: Nat \ {0}, maxWidth: Nat \cup {None}, format: Formats, separator: Text]

Process == [argv: Seq(Words), name: Words \cup {None}]
Pane    == [processes: Seq(Process), directory: Text \cup {None}]

(* The first of normalized_argv, or else the name of the process.           *)
CommandOf(process) == IF process.argv # <<>> THEN process.argv[1] ELSE process.name

(* The runner a node process runs, which the user may have ignored.         *)
(* A mistake to be caught (README, Mutants). *)
ShimAnyRunner(argv) ==
    /\ Len(argv) >= 3 /\ argv[1] = "node" /\ argv[2] \in DOMAIN NodeRunner
    /\ <<NodeRunner[argv[2]], argv[3]>> \in Runners
Shim(argv) ==
    /\ Len(argv) >= 3 /\ argv[1] = "node" /\ argv[2] \in DOMAIN NodeRunner
    /\ NodeRunner[argv[2]] \notin policy.ignored
    /\ <<NodeRunner[argv[2]], argv[3]>> \in Runners

(* significant_process_label.                                               *)
CandidateOf(process) ==
    LET argv    == process.argv
        command == CommandOf(process)
    IN  IF command = None \/ command \in policy.ignored THEN None
        ELSE IF command \in policy.significant THEN <<command>>
        ELSE IF Len(argv) >= 2 /\ SubSeq(argv, 1, 2) \in Runners THEN SubSeq(argv, 1, 2)
        ELSE IF Shim(argv) /\ command \notin BuiltinIgnored THEN <<NodeRunner[argv[2]], argv[3]>>
        ELSE None

SignificantProcess == SelectInSeq(pane.processes, LAMBDA p : CandidateOf(p) # None)
SignificantCommand ==
    IF SignificantProcess = 0 THEN None ELSE CandidateOf(pane.processes[SignificantProcess])

(* significant_command_presentation.                                        *)
Command   == policy.prefix[SignificantCommand] \o Name[SignificantCommand]
Directory == pane.directory

LabelerInit ==
    /\ policy = None \/ policy \in Policy
    /\ pane \in Pane /\ pane.directory # <<>>
    /\ phase = "present" /\ growth = None /\ label = None

LabelerTypeOK ==
    /\ policy = None \/ policy \in Policy
    /\ pane \in Pane /\ pane.directory # <<>>
    /\ phase \in {"present", "grow", "done"}
    /\ IF phase = "grow"
       THEN growth \in [commands: 1..Len(Command), start: 1..Len(pane.directory),
                        prefer: {"command", "directory"}]
       ELSE growth = None
    /\ label \in Text \cup {None}

(* A mistake to be caught (README, Mutants). *)
FitsByLength(text) == Chars(text) <= policy.maxLength
Fits(text) ==
    /\ Chars(text) <= policy.maxLength
    /\ policy.maxWidth # None => Cells(text) <= policy.maxWidth

LongestPrefix(text, Ok(_)) ==
    SubSeq(text, 1, CHOOSE n \in 0..Len(text) :
                      /\ Ok(SubSeq(text, 1, n))
                      /\ n < Len(text) => ~Ok(SubSeq(text, 1, n + 1)))

(* truncate_final: scalars first, so that the last grapheme may be cut.     *)
ScalarPrefix(text) ==
    LET whole == LongestPrefix(text, FitsByLength)
        room  == policy.maxLength - Chars(whole)
        next  == text[Len(whole) + 1]
    IN  IF whole = text \/ room = 0 THEN whole
        ELSE Append(whole, [next EXCEPT !.chars = room, !.cells = next.cut])

TruncateFinal(text) ==
    IF policy.maxWidth = None THEN ScalarPrefix(text)
    ELSE LongestPrefix(ScalarPrefix(text), LAMBDA t : Cells(t) <= policy.maxWidth)

(* truncate_grapheme_prefix.                                                *)
(* A mistake to be caught (README, Mutants). *)
TruncateAnywhere(text) == TruncateFinal(text)
TruncateGraphemePrefix(text) == LongestPrefix(text, Fits)

(* present_context, the closure compose.                                    *)
DirectoryFirst == policy.format = "directory_and_command"
Compose(command, directory) ==
    IF DirectoryFirst THEN directory \o policy.separator \o command
    ELSE command \o policy.separator \o directory

(* The part of the directory from one of its graphemes on.                  *)
(* A mistake to be caught (README, Mutants). *)
DirectoryStart(start) == SubSeq(Directory, 1, Len(Directory) + 1 - start)
DirectoryEnd(start) == SubSeq(Directory, start, Len(Directory))

Shown(g) == Compose(SubSeq(Command, 1, g.commands), DirectoryEnd(g.start))
Minimum  == [commands |-> 1, start |-> Len(Directory), prefer |-> "command"]

Contextual == policy.format # "command_only"

Decide(text) == label' = text /\ phase' = "done" /\ growth' = None /\ UNCHANGED <<policy, pane>>

Presents == policy # None /\ phase = "present"

(* candidate_for_pane without a command.                                    *)
PresentDirectory ==
    /\ Presents /\ SignificantCommand = None
    /\ Decide(IF Directory = None THEN None ELSE TruncateFinal(Directory))

PresentCommand ==
    /\ Presents /\ SignificantCommand # None
    /\ \/ ~Contextual /\ Decide(TruncateFinal(Command))
       \/ Contextual /\ Directory = None /\ Decide(TruncateGraphemePrefix(Command))

(* present_context before its loop.                                         *)
PresentContext ==
    /\ Presents /\ SignificantCommand # None /\ Contextual /\ Directory # None
    /\ \/ /\ Fits(Compose(Command, Directory))
          /\ Decide(Compose(Command, Directory))
       \/ /\ ~Fits(Compose(Command, Directory)) /\ ~Fits(Shown(Minimum))
          /\ Decide(TruncateGraphemePrefix(IF DirectoryFirst THEN Directory ELSE Command))
       \/ /\ ~Fits(Compose(Command, Directory)) /\ Fits(Shown(Minimum))
          /\ phase' = "grow" /\ growth' = Minimum
          /\ UNCHANGED <<policy, pane, label>>

(* One round of the loop.                                                   *)
Other(side) == IF side = "command" THEN "directory" ELSE "command"

(* A mistake to be caught (README, Mutants). *)
GrownAgain(side) ==
    IF side = "command" THEN [growth EXCEPT !.commands = @ + 1]
    ELSE [growth EXCEPT !.start = @ - 1]
Grown(side) ==
    IF side = "command" THEN [growth EXCEPT !.commands = @ + 1, !.prefer = "directory"]
    ELSE [growth EXCEPT !.start = @ - 1, !.prefer = "command"]

CanGrow(side) ==
    /\ IF side = "command" THEN growth.commands < Len(Command) ELSE growth.start > 1
    /\ Fits(Shown(Grown(side)))

(* A mistake to be caught (README, Mutants). *)
PreferredGrows(side) == side = growth.prefer /\ CanGrow(side)
Grows(side) == CanGrow(side) /\ (side = growth.prefer \/ ~CanGrow(Other(side)))

Grow ==
    /\ phase = "grow"
    /\ \E side \in {"command", "directory"} : Grows(side) /\ growth' = Grown(side)
    /\ UNCHANGED <<policy, pane, phase, label>>

Stop ==
    /\ phase = "grow" /\ \A side \in {"command", "directory"} : ~Grows(side)
    /\ Decide(Shown(growth))

PresentStep == PresentDirectory \/ PresentCommand \/ PresentContext \/ Grow \/ Stop
-------------------------------------------------------------------------------
Done == phase = "done" /\ label # None

(* A label fits in both limits, whichever way it was cut, the graphemes cut *)
(* short and the separator counted (README: "Tabby bounds the final label").*)
LabelFits ==
    Done => /\ Chars(label) <= policy.maxLength
            /\ policy.maxWidth # None => Cells(label) <= policy.maxWidth

(* What a contextual label shows is made of whole graphemes, also when one  *)
(* of its parts is missing or too long (command-directory-labels.md: "It    *)
(* retains complete graphemes").                                            *)
WholeGraphemes ==
    Done /\ Contextual /\ SignificantCommand # None =>
      Range(label) \subseteq Range(Command) \cup Range(policy.separator)
                              \cup (IF Directory = None THEN {} ELSE Range(Directory))

BothParts == Contextual /\ SignificantCommand # None /\ Directory # None

(* The label of c graphemes of the command and d of the directory.          *)
Parts(c, d) ==
    Compose(SubSeq(Command, 1, c), SubSeq(Directory, Len(Directory) + 1 - d, Len(Directory)))

Sizes == (1..Len(Command)) \X (1..Len(Directory))

(* A label of two parts keeps the start of the command and the end of the   *)
(* directory whenever one grapheme of each fits, and otherwise is a part of *)
(* the first component without a dangling separator (README, "When a        *)
(* contextual label exceeds either configured limit").                      *)
ShowsBothEnds ==
    Done /\ BothParts =>
      IF Fits(Parts(1, 1)) THEN \E s \in Sizes : label = Parts(s[1], s[2])
      ELSE IsPrefix(label, IF DirectoryFirst THEN Directory ELSE Command)

(* The sizes the label may be read as: equal graphemes can make it split in *)
(* two ways, of which the properties mean one.                              *)
Splits == {s \in Sizes : label = Parts(s[1], s[2])}

(* No grapheme that would still fit is left out, on either side.            *)
NothingToSpare ==
    Done /\ BothParts /\ Fits(Parts(1, 1)) =>
      \E s \in Splits : \A t \in Sizes :
        t # s /\ t[1] >= s[1] /\ t[2] >= s[2] => ~Fits(Parts(t[1], t[2]))

(* Neither side grows at the expense of the other: one that shows fewer     *)
(* graphemes is complete, or had no room when they were even.               *)
SidesGrowInTurn ==
    Done /\ BothParts /\ Fits(Parts(1, 1)) =>
      \E s \in Splits :
        /\ s[1] > s[2] + 1 /\ s[2] < Len(Directory) => ~Fits(Parts(s[2] + 1, s[2] + 1))
        /\ s[2] > s[1] /\ s[1] < Len(Command) => ~Fits(Parts(s[1] + 1, s[1]))
================================================================================
