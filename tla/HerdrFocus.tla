----------------------------- MODULE HerdrFocus -----------------------------
(***************************************************************************)
(* herdr_client.rs: how a call of Herdr can fail, and the focused tab and   *)
(* pane Tabby reads off a snapshot.                                         *)
(***************************************************************************)
EXTENDS Absent, Naturals, SequencesExt

CONSTANTS
    TabIds, PaneIds,
    Directories   \* the empty one among them, or not

(* send_request_line and decode_response: how a call can fail.  A line cut  *)
(* off by the end of the connection is read as a line, and is not JSON.     *)
TransportErrors == {"not_found", "refused", "reset", "closed", "timed_out"}
CallErrors      == TransportErrors \cup {"denied", "json", "rpc", "pane_not_found", "protocol"}
IsRetryableTransport(error) == error \in TransportErrors

(* What session.snapshot says of tabs and panes, in the order it lists them. *)
TabEntry  == [id: TabIds, focused: BOOLEAN]
PaneEntry ==
    [id: PaneIds, tab: TabIds, focused: BOOLEAN,
     foregroundCwd: Directories \cup {None}, cwd: Directories \cup {None}]
Sessions  ==
    [tabs: Seq(TabEntry), panes: Seq(PaneEntry),
     focusedTab: TabIds \cup {None}, focusedPane: PaneIds \cup {None}]
Observations == [tab: TabIds, pane: PaneIds, directory: Directories \cup {None}]

Ids(seq) == {seq[i].id : i \in DOMAIN seq}

(* Iterator::find: the first element, if any, that passes a test.           *)
Passing(seq, Test(_)) == {i \in DOMAIN seq : Test(seq[i])}
Finds(seq, Test(_))     == Passing(seq, Test) # {}
Found(seq, Test(_))   == seq[Min(Passing(seq, Test))]

(* SessionSnapshot::into_focused_observation.                               *)
SelectedTab(s) ==
    LET Named(p) == p.id = s.focusedPane
        Flagged(t) == t.focused
    IN  IF s.focusedTab \in Ids(s.tabs) THEN s.focusedTab
        ELSE IF Finds(s.panes, Named) THEN Found(s.panes, Named).tab
        ELSE IF Finds(s.tabs, Flagged) THEN Found(s.tabs, Flagged).id ELSE None

(* A mistake to be caught (README, Mutants). *)
SelectedPaneOfAnyTab(s, tab, fallback) ==
    LET Named(p) == p.id = s.focusedPane
        Flagged(p) == p.tab = tab /\ p.focused
        Listed(p) == p.tab = tab
    IN  IF Finds(s.panes, Named) THEN s.focusedPane
        ELSE IF Finds(s.panes, Flagged) THEN Found(s.panes, Flagged).id
        ELSE IF fallback /\ Finds(s.panes, Listed) THEN Found(s.panes, Listed).id ELSE None

SelectedPane(s, tab, fallback) ==
    LET Named(p) == p.tab = tab /\ p.id = s.focusedPane
        Flagged(p) == p.tab = tab /\ p.focused
        Listed(p) == p.tab = tab
    IN  IF Finds(s.panes, Named) THEN s.focusedPane
        ELSE IF Finds(s.panes, Flagged) THEN Found(s.panes, Flagged).id
        ELSE IF fallback /\ Finds(s.panes, Listed) THEN Found(s.panes, Listed).id ELSE None

WorkingDirectory(pane) ==
    IF pane.foregroundCwd \notin {None, ""} THEN pane.foregroundCwd
    ELSE IF pane.cwd \notin {None, ""} THEN pane.cwd ELSE None

(* With the fallback for a sample, without it for the contract's probe.     *)
FocusedObservation(s, fallback) ==
    LET tab  == SelectedTab(s)
        pane == SelectedPane(s, tab, fallback)
        Selected(p) == p.id = pane /\ p.tab = tab
    IN  IF tab \in Ids(s.tabs) /\ Finds(s.panes, Selected)
        THEN [tab |-> tab, pane |-> pane,
              directory |-> WorkingDirectory(Found(s.panes, Selected))]
        ELSE None
==============================================================================
