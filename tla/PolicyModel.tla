------------------------------ MODULE PolicyModel ------------------------------
(***************************************************************************)
(* What config.rs and labeler.rs share: words of a command line, candidates *)
(* made of them, and texts.  A text is a sequence of graphemes, of which    *)
(* only their size matters; cut is the width left to a grapheme cut short.  *)
(***************************************************************************)
EXTENDS Naturals, SequencesExt

CONSTANTS
    None,
    Words,               \* basenames of commands and their arguments
    BuiltinSignificant,  \* DEFAULT_INTERACTIVE_COMMANDS
    BuiltinIgnored,      \* DEFAULT_IGNORED_COMMANDS
    Runners,             \* DEFAULT_RUNNER_SUBCOMMANDS
    NodeRunner           \* the runner a script run by node stands for

Candidates == {<<w>> : w \in Words} \cup Runners

ASSUME PolicyConstants ==
    /\ BuiltinSignificant \subseteq Words /\ BuiltinIgnored \subseteq Words
    /\ BuiltinSignificant \cap BuiltinIgnored = {}
    /\ Runners \subseteq Words \X Words
    /\ NodeRunner \in [DOMAIN NodeRunner -> Words]
    /\ None \notin Words

Grapheme == [id: Nat, chars: Nat \ {0}, cells: Nat, cut: Nat]
Text     == Seq(Grapheme)
Formats  == {"command_only", "command_and_directory", "directory_and_command"}

Total(size, text) == FoldLeft(LAMBDA sum, g : sum + g[size], 0, text)
Chars(text) == Total("chars", text)
Cells(text) == Total("cells", text)
================================================================================
