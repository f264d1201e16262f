---------------------------- MODULE MCLabelPolicies ----------------------------
(* Values for the constants of LabelPolicies.  Two families of starts: every *)
(* file of three profiles that set one thing each, before a few panes; and   *)
(* one profile of every combination of label settings, before every pane.    *)
EXTENDS LabelPolicies

MCWords == {"nvim", "sh", "node", "pnpm", "pnpm.cjs", "dev", "yazi"}
MCNodeRunner == [w \in {"pnpm", "pnpm.cjs"} |-> "pnpm"]
MCRunners == {<<"pnpm", "dev">>}

(* Graphemes: plain, wide, a letter with accents, a joined emoji, a flag.    *)
Plain(n)    == [id |-> n, chars |-> 1, cells |-> 1, cut |-> 0]
Wide(n)     == [id |-> n, chars |-> 1, cells |-> 2, cut |-> 0]
Accented(n) == [id |-> n, chars |-> 3, cells |-> 1, cut |-> 1]
Joined(n)   == [id |-> n, chars |-> 3, cells |-> 2, cut |-> 2]
Flag(n)     == [id |-> n, chars |-> 2, cells |-> 2, cut |-> 1]

MCName == [c \in Candidates |->
    CASE c = <<"nvim">> -> <<Plain(1), Plain(2), Plain(3), Plain(4)>>
      [] c = <<"yazi">> -> <<Wide(1), Joined(2)>>
      [] OTHER          -> <<Accented(1), Plain(2), Wide(3)>>]

MCPrefixOf == [p \in 0..N |-> IF p = 0 THEN <<>> ELSE <<Flag(40 + p)>>]
MCDefaultSeparator ==
    [f \in Formats |-> IF f = "directory_and_command" THEN <<Plain(30), Plain(31)>>
                       ELSE <<Plain(32)>>]

Directories == {<<Plain(11), Plain(12), Plain(13), Plain(14), Plain(15)>>,
                <<Joined(11), Flag(12), Plain(13)>>, <<Wide(11)>>, <<Accented(11), Wide(12)>>}

Run(argv) == [argv |-> argv, name |-> None]
Foregrounds ==
    {<<>>, <<Run(<<"sh">>), Run(<<"nvim">>)>>, <<[argv |-> <<>>, name |-> "yazi"]>>,
     <<Run(<<"node", "pnpm.cjs", "dev">>), Run(<<"nvim">>)>>, <<Run(<<"pnpm", "dev">>)>>,
     <<Run(<<"sh", "dev">>), Run(<<"node", "dev">>)>>}
Panes == [processes: Foregrounds, directory: Directories \cup {None}]

Empty == [extends |-> None, labels |-> NoLabels, prefixes |-> {},
          significant |-> {}, ignored |-> {}]

(* What one profile of a file may set, and extend.                           *)
Contents ==
    {Empty,
     [Empty EXCEPT !.labels.maxLength = 4],
     [Empty EXCEPT !.significant = {"yazi"}],
     [Empty EXCEPT !.ignored = {"pnpm", "yazi"}],
     [Empty EXCEPT !.prefixes = {<<"yazi">>, <<"pnpm", "dev">>}]}
Inheriting == {[c EXCEPT !.extends = e] : c \in Contents, e \in Names \cup {Unknown, None}}

(* No two profiles set the same length.                                      *)
Own(p, profile) ==
    IF profile.labels.maxLength = None THEN profile
    ELSE [profile EXCEPT !.labels.maxLength = @ + p]

(* What the global tables may say when a profile is selected or none is.     *)
Globals == {Empty, [Empty EXCEPT !.labels.maxLength = 0], [Empty EXCEPT !.significant = {"sh"}]}

Select(form, session, profile) == [form |-> form, session |-> session, profile |-> profile]
Selectors ==
    {<<>>, <<Select("identity", "here", Unknown)>>, <<Select("named_session", "there", 3)>>}
      \cup {<<Select(f, s, 3), Select("identity", "here", 2)>> :
              f \in {"identity", "identity_hex", "named_session"}, s \in {"here", "there"}}

FileOf(global, profiles, selectors) ==
    [profiles |-> [p \in 0..N |-> IF p = 0 THEN global ELSE profiles[p]], selectors |-> selectors]

(* Files of linked profiles, the first one selected.                         *)
Linked == {FileOf(Empty, [p \in Names |-> Own(p, ps[p])], <<Select("identity_hex", "here", 1)>>) :
             ps \in [Names -> Inheriting]}

(* Files with every way to select a profile.                                 *)
Selecting == {FileOf(g, [p \in Names |-> [Empty EXCEPT !.labels.maxLength = p]], s) :
                g \in Globals, s \in Selectors}

(* Files with every combination of label settings.                           *)
Settings == [maxLength: 1..10, maxWidth: {None, 1, 3, 4, 7}, format: Formats \cup {None},
             separator: {None, <<Plain(33), Wide(34), Plain(35)>>}]
Labelled == {FileOf([Empty EXCEPT !.labels = l, !.significant = {"yazi"}], [p \in Names |-> Empty], <<>>) :
               l \in Settings}

(* The policy an earlier file left in force.                                 *)
Earlier == Configured([Nothing EXCEPT !.labels.maxLength = 3])

APane == [processes |-> <<Run(<<"node", "pnpm.cjs", "dev">>), Run(<<"yazi">>)>>,
          directory |-> <<Plain(11), Plain(12)>>]

Before(p) == pane = p /\ phase = "present" /\ growth = None /\ label = None

MCInit ==
    /\ StartLoading
    /\ \/ file \in Linked \cup Selecting \cup {Absent} /\ policy = None /\ Before(APane)
       \/ file \in Selecting \cup {Absent} /\ policy = Earlier /\ Before(APane)
       \/ file \in Labelled /\ policy = None /\ \E p \in Panes : Before(p)

MCSpec == MCInit /\ [][Next]_vars
================================================================================
