-------------------------- MODULE HerdrContractProofs --------------------------
(***************************************************************************)
(* Theorems about HerdrContract: what a validation that ends was told, and  *)
(* what a snapshot shows as focused.                                        *)
(***************************************************************************)
EXTENDS HerdrContract, WellFoundedInduction, TLAPS

-------------------------------------------------------------------------------
(* Iterator::find.                                                          *)

LEMMA LeastPosition ==
    ASSUME NEW T, T \subseteq Nat, T # {}
    PROVE  Min(T) \in T
  <1> DEFINE R == OpToRel(<, Nat)
  <1>1. IsWellFoundedOn(R, Nat)
    BY NatLessThanWellFounded
  <1>2. \A m, n \in Nat : m < n => <<m, n>> \in R
    BY DEF OpToRel
  <1> HIDE DEF R
  <1>3. PICK n \in T : \A m \in T : ~(<<m, n>> \in R)
    BY <1>1, WFMin
  <1>4. \A m \in T : ~(m < n) /\ m \in Nat /\ n \in Nat
    BY <1>2, <1>3
  <1>5. \A m \in T : n <= m
    BY <1>4
  <1> QED
    BY <1>5 DEF Min

(* An element that is found is one of the sequence, and passes the test: of  *)
(* the positions that pass, the first is one.                               *)
LEMMA FoundPosition ==
    ASSUME NEW S, NEW seq \in Seq(S), NEW hits, hits \subseteq DOMAIN seq, hits # {}
    PROVE  Min(hits) \in hits /\ seq[Min(hits)] \in S /\ seq[Min(hits)] \in Range(seq)
  <1>1. hits \subseteq Nat
    OBVIOUS
  <1>2. Min(hits) \in hits
    BY <1>1, LeastPosition
  <1> QED
    BY <1>2 DEF Range

-------------------------------------------------------------------------------
(* What is read off a snapshot.                                             *)

LEMMA SelectedTabType ==
    ASSUME NEW s \in Sessions
    PROVE  /\ SelectedTab(s) \in TabIds \cup {None}
           /\ s.focusedTab \in Ids(s.tabs) => SelectedTab(s) = s.focusedTab
  <1> DEFINE named   == {i \in DOMAIN s.panes : s.panes[i].id = s.focusedPane}
             flagged == {i \in DOMAIN s.tabs : s.tabs[i].focused}
  <1>1. s.tabs \in Seq(TabEntry) /\ s.panes \in Seq(PaneEntry) /\ s.focusedTab \in TabIds \cup {None}
    BY DEF Sessions
  <1>2. SelectedTab(s) =
          IF s.focusedTab \in Ids(s.tabs) THEN s.focusedTab
          ELSE IF named # {} THEN s.panes[Min(named)].tab
          ELSE IF flagged # {} THEN s.tabs[Min(flagged)].id ELSE None
    BY DEF SelectedTab, Finds, Found, Passing
  <1>3. named # {} => s.panes[Min(named)] \in PaneEntry
    BY <1>1, FoundPosition
  <1>4. flagged # {} => s.tabs[Min(flagged)] \in TabEntry
    BY <1>1, FoundPosition
  <1> HIDE DEF named, flagged
  <1> QED
    BY <1>1, <1>2, <1>3, <1>4 DEF PaneEntry, TabEntry

CalledFocused(s, p) == p.focused \/ p.id = s.focusedPane

(* A pane that is selected is one of the tab, the one that is named if there *)
(* is one, else one that is flagged, and any only with the fallback.        *)
SelectionIs(s, tab, fallback, pane) ==
    /\ pane # None =>
         \E p \in Range(s.panes) : p.tab = tab /\ p.id = pane /\ (fallback \/ CalledFocused(s, p))
    /\ (\E p \in Range(s.panes) : p.tab = tab /\ CalledFocused(s, p)) =>
         /\ pane # None /\ pane = SelectedPane(s, tab, TRUE)
         /\ \E p \in Range(s.panes) : p.tab = tab /\ p.id = pane /\ CalledFocused(s, p)
    /\ (\E p \in Range(s.panes) : p.tab = tab /\ p.id = s.focusedPane) => pane = s.focusedPane

LEMMA SelectedPaneFacts ==
    ASSUME NEW s \in Sessions, NEW tab \in TabIds, NEW fallback \in BOOLEAN
    PROVE  SelectionIs(s, tab, fallback, SelectedPane(s, tab, fallback))
  <1> DEFINE pane    == SelectedPane(s, tab, fallback)
             named   == {i \in DOMAIN s.panes : s.panes[i].tab = tab /\ s.panes[i].id = s.focusedPane}
             flagged == {i \in DOMAIN s.panes : s.panes[i].tab = tab /\ s.panes[i].focused}
             listed  == {i \in DOMAIN s.panes : s.panes[i].tab = tab}
  <1>1. s.panes \in Seq(PaneEntry) /\ None \notin PaneIds
    BY ContractConstants DEF Sessions
  <1>2. \A b \in BOOLEAN : SelectedPane(s, tab, b) =
          IF named # {} THEN s.focusedPane
          ELSE IF flagged # {} THEN s.panes[Min(flagged)].id
          ELSE IF b /\ listed # {} THEN s.panes[Min(listed)].id ELSE None
    BY DEF SelectedPane, Finds, Found, Passing
  <1>3. flagged # {} => /\ Min(flagged) \in flagged /\ s.panes[Min(flagged)] \in PaneEntry
                        /\ s.panes[Min(flagged)] \in Range(s.panes)
    BY <1>1, FoundPosition
  <1>4. listed # {} => /\ Min(listed) \in listed /\ s.panes[Min(listed)] \in PaneEntry
                       /\ s.panes[Min(listed)] \in Range(s.panes)
    BY <1>1, FoundPosition
  <1>5. \A i \in DOMAIN s.panes : s.panes[i] \in Range(s.panes) /\ s.panes[i] \in PaneEntry
    BY <1>1 DEF Range
  <1>6. \A p \in Range(s.panes) : \E i \in DOMAIN s.panes : p = s.panes[i]
    BY DEF Range
  <1>7. \A p \in PaneEntry : p.id # None
    BY <1>1 DEF PaneEntry
  <1>8. pane # None =>
          \E p \in Range(s.panes) : p.tab = tab /\ p.id = pane /\ (fallback \/ p.focused \/ p.id = s.focusedPane)
    <2>1. CASE named # {}
      BY <1>2, <1>5, <2>1
    <2>2. CASE named = {} /\ flagged # {}
      BY <1>2, <1>3, <2>2
    <2>3. CASE named = {} /\ flagged = {}
      BY <1>2, <1>4, <2>3
    <2> QED
      BY <2>1, <2>2, <2>3
  <1>9. (\E p \in Range(s.panes) : p.tab = tab /\ p.id = s.focusedPane) => pane = s.focusedPane
    BY <1>2, <1>6
  <1>10. ASSUME NEW q \in Range(s.panes), q.tab = tab, q.focused \/ q.id = s.focusedPane
         PROVE  /\ pane # None /\ pane = SelectedPane(s, tab, TRUE)
                /\ \E p \in Range(s.panes) : p.tab = tab /\ (p.focused \/ p.id = s.focusedPane) /\ p.id = pane
    <2>1. named # {} \/ flagged # {}
      BY <1>6, <1>10
    <2>2. CASE named # {}
      BY <1>2, <1>5, <1>7, <2>2
    <2>3. CASE named = {}
      BY <1>2, <1>3, <1>7, <2>1, <2>3
    <2> QED
      BY <2>2, <2>3
  <1> HIDE DEF named, flagged, listed, pane
  <1>11. SelectionIs(s, tab, fallback, pane)
    BY <1>8, <1>9, <1>10 DEF CalledFocused, SelectionIs
  <1> QED
    BY <1>11 DEF pane

(* FocusedObservation, with the pane it selects and the one it describes.   *)
Described(s, tab, pane) ==
    LET hits == {i \in DOMAIN s.panes : s.panes[i].id = pane /\ s.panes[i].tab = tab}
    IN  IF tab \in Ids(s.tabs) /\ hits # {}
        THEN [tab |-> tab, pane |-> pane, directory |-> WorkingDirectory(s.panes[Min(hits)])]
        ELSE None

ObservationIs(s, focused, tab, pane) ==
    /\ focused = Described(s, tab, pane)
    /\ focused # None <=>
         tab \in Ids(s.tabs) /\ \E p \in Range(s.panes) : p.tab = tab /\ p.id = pane
    /\ focused # None =>
         /\ focused \in Observations /\ focused.tab = tab /\ focused.pane = pane
         /\ \E p \in Range(s.panes) :
              p.tab = tab /\ p.id = pane /\ focused.directory = WorkingDirectory(p)

LEMMA ObservationFacts ==
    ASSUME NEW s \in Sessions, NEW fallback \in BOOLEAN
    PROVE  ObservationIs(s, FocusedObservation(s, fallback), SelectedTab(s),
                         SelectedPane(s, SelectedTab(s), fallback))
  <1> DEFINE tab     == SelectedTab(s)
             pane    == SelectedPane(s, tab, fallback)
             focused == FocusedObservation(s, fallback)
             of   == {p \in Range(s.panes) : p.tab = tab /\ p.id = pane}
             hits == {i \in DOMAIN s.panes : s.panes[i].id = pane /\ s.panes[i].tab = tab}
             seen == [tab |-> tab, pane |-> pane, directory |-> WorkingDirectory(s.panes[Min(hits)])]
  <1>1. s.panes \in Seq(PaneEntry) /\ None \notin Observations
    BY ContractConstants DEF Sessions
  <1>2. focused = IF tab \in Ids(s.tabs) /\ hits # {} THEN seen ELSE None
    BY DEF FocusedObservation, Finds, Found, Passing
  <1> focused = Described(s, tab, pane)
    BY <1>2 DEF Described
  <1> HIDE DEF tab, pane, focused
  <1>3. hits # {} <=> of # {}
    BY DEF Range
  <1>4. ASSUME hits # {}
        PROVE  s.panes[Min(hits)] \in of /\ s.panes[Min(hits)] \in PaneEntry /\ seen \in Observations
    <2>1. Min(hits) \in hits /\ s.panes[Min(hits)] \in PaneEntry /\ s.panes[Min(hits)] \in Range(s.panes)
      BY <1>1, <1>4, FoundPosition
    <2>2. s.panes[Min(hits)].id = pane /\ s.panes[Min(hits)].tab = tab
      BY <2>1
    <2> HIDE DEF hits
    <2>3. WorkingDirectory(s.panes[Min(hits)]) \in Directories \cup {None}
      BY <2>1 DEF WorkingDirectory, PaneEntry
    <2>4. tab \in TabIds /\ pane \in PaneIds
      BY <2>1, <2>2 DEF PaneEntry
    <2> QED
      BY <2>1, <2>2, <2>3, <2>4 DEF Observations
  <1> HIDE DEF hits
  <1>5. ASSUME tab \in Ids(s.tabs), hits # {}
        PROVE  focused = seen /\ seen \in Observations /\ focused # None
    BY <1>1, <1>2, <1>4, <1>5
  <1>6. focused # None => tab \in Ids(s.tabs) /\ hits # {}
    BY <1>2
  <1>7. focused # None => /\ focused \in Observations /\ focused.tab = tab /\ focused.pane = pane
                          /\ focused.directory = WorkingDirectory(s.panes[Min(hits)])
                          /\ s.panes[Min(hits)] \in of
    BY <1>4, <1>5, <1>6
  <1> HIDE DEF of
  <1>8. ObservationIs(s, focused, tab, pane)
    BY <1>2, <1>3, <1>5, <1>6, <1>7 DEF of, ObservationIs
  <1> QED
    BY <1>8 DEF tab, pane, focused

(* Of one snapshot: the tab, the panes selected with and without fallback,   *)
(* and what the two observations are.                                        *)
CoherentIs(s, probed, sampled, panes) ==
    /\ sampled # None =>
         /\ sampled.tab \in Ids(s.tabs)
         /\ \E p \in panes :
              /\ p.tab = sampled.tab /\ p.id = sampled.pane
              /\ sampled.directory \in ({p.foregroundCwd, p.cwd} \ {""}) \cup {None}
    /\ probed # None =>
         /\ sampled = probed
         /\ \E p \in panes : p.tab = probed.tab /\ p.id = probed.pane /\ CalledFocused(s, p)
    /\ s.focusedTab \in Ids(s.tabs) =>
         \A p \in panes : p.tab = s.focusedTab /\ CalledFocused(s, p) =>
           /\ probed # None /\ probed.tab = s.focusedTab
           /\ p.id = s.focusedPane => probed.pane = s.focusedPane

LEMMA SnapshotCoherent ==
    ASSUME NEW s \in Sessions
    PROVE  CoherentIs(s, FocusedObservation(s, FALSE), FocusedObservation(s, TRUE), Range(s.panes))
  <1> DEFINE tab     == SelectedTab(s)
             first   == SelectedPane(s, tab, FALSE)
             last    == SelectedPane(s, tab, TRUE)
             probed  == FocusedObservation(s, FALSE)
             sampled == FocusedObservation(s, TRUE)
             panes   == Range(s.panes)
  <1>1. s.tabs \in Seq(TabEntry) /\ s.panes \in Seq(PaneEntry)
    BY DEF Sessions
  <1>2. /\ tab \in TabIds \cup {None}
        /\ s.focusedTab \in Ids(s.tabs) => tab = s.focusedTab
    BY SelectedTabType
  <1>3. tab \in Ids(s.tabs) => tab \in TabIds
    <2>1. \A i \in DOMAIN s.tabs : s.tabs[i] \in TabEntry
      BY <1>1
    <2>2. \A t \in TabEntry : t.id \in TabIds
      BY DEF TabEntry
    <2> QED
      BY <2>1, <2>2 DEF Ids
  <1>4. /\ probed = Described(s, tab, first)
        /\ probed # None <=> tab \in Ids(s.tabs) /\ \E p \in panes : p.tab = tab /\ p.id = first
        /\ probed # None => probed.tab = tab /\ probed.pane = first
    <2>1. ObservationIs(s, probed, tab, first)
      BY ObservationFacts, FALSE \in BOOLEAN
    <2> QED
      BY <2>1 DEF ObservationIs
  <1>5. /\ sampled = Described(s, tab, last)
        /\ sampled # None <=> tab \in Ids(s.tabs) /\ \E p \in panes : p.tab = tab /\ p.id = last
        /\ sampled # None => /\ sampled.tab = tab /\ sampled.pane = last
                             /\ \E p \in panes : p.tab = tab /\ p.id = last /\ sampled.directory = WorkingDirectory(p)
    <2>1. ObservationIs(s, sampled, tab, last)
      BY ObservationFacts, TRUE \in BOOLEAN
    <2> QED
      BY <2>1 DEF ObservationIs
  <1>6. ASSUME tab \in TabIds
        PROVE  /\ first # None => \E p \in panes : p.tab = tab /\ p.id = first /\ CalledFocused(s, p)
               /\ (\E p \in panes : p.tab = tab /\ CalledFocused(s, p)) => /\ first # None /\ first = last
                                              /\ \E p \in panes : p.tab = tab /\ CalledFocused(s, p) /\ p.id = first
               /\ (\E p \in panes : p.tab = tab /\ p.id = s.focusedPane) => first = s.focusedPane
    <2>1. SelectionIs(s, tab, FALSE, first)
      BY <1>6, SelectedPaneFacts, FALSE \in BOOLEAN
    <2> QED
      BY <2>1 DEF SelectionIs
  <1> HIDE DEF tab, first, last, probed, sampled
  <1>7. \A p : WorkingDirectory(p) \in ({p.foregroundCwd, p.cwd} \ {""}) \cup {None}
    BY DEF WorkingDirectory
  <1>8. \A p \in panes : p.id # None
    <2>1. \A p \in PaneEntry : p.id # None
      BY ContractConstants DEF PaneEntry
    <2> QED
      BY <1>1, <2>1 DEF Range
  <1>9. sampled # None =>
             /\ sampled.tab \in Ids(s.tabs)
             /\ \E p \in panes :
                  /\ p.tab = sampled.tab /\ p.id = sampled.pane
                  /\ sampled.directory \in ({p.foregroundCwd, p.cwd} \ {""}) \cup {None}
    BY <1>5, <1>7
  <1>10. ASSUME probed # None
         PROVE  /\ sampled = probed
                /\ \E p \in panes : p.tab = probed.tab /\ p.id = probed.pane /\ CalledFocused(s, p)
    <2>1. tab \in TabIds /\ first # None
      BY <1>3, <1>4, <1>8, <1>10
    <2>2. first = last /\ \E p \in panes : p.tab = tab /\ p.id = first /\ CalledFocused(s, p)
      BY <1>6, <2>1
    <2> QED
      BY <1>4, <1>5, <1>10, <2>2
  <1>11. ASSUME s.focusedTab \in Ids(s.tabs), NEW q \in panes, q.tab = s.focusedTab, CalledFocused(s, q)
         PROVE  /\ probed # None /\ probed.tab = s.focusedTab
                /\ q.id = s.focusedPane => probed.pane = s.focusedPane
    <2>1. tab = s.focusedTab /\ tab \in TabIds /\ q.tab = tab
      BY <1>2, <1>3, <1>11
    <2>2. \E p \in panes : p.tab = tab /\ p.id = first
      BY <1>6, <1>11, <2>1
    <2> QED
      BY <1>4, <1>6, <1>11, <2>1, <2>2
  <1>12. CoherentIs(s, probed, sampled, panes)
    BY <1>9, <1>10, <1>11 DEF CoherentIs
  <1> QED
    BY <1>12 DEF probed, sampled, panes

LEMMA FocusCoherent == session \in Sessions => FocusIsCoherent
  <1> SUFFICES ASSUME session \in Sessions PROVE FocusIsCoherent
    OBVIOUS
  <1> DEFINE probed  == FocusedObservation(session, FALSE)
             sampled == FocusedObservation(session, TRUE)
             panes   == Range(session.panes)
  <1>1. CoherentIs(session, probed, sampled, panes)
    BY SnapshotCoherent
  <1> HIDE DEF probed, sampled, panes
  <1>2. /\ sampled # None =>
             /\ sampled.tab \in Ids(session.tabs)
             /\ \E p \in panes :
                  /\ p.tab = sampled.tab /\ p.id = sampled.pane
                  /\ sampled.directory \in ({p.foregroundCwd, p.cwd} \ {""}) \cup {None}
        /\ probed # None =>
             /\ sampled = probed
             /\ \E p \in panes : /\ p.tab = probed.tab /\ p.id = probed.pane
                                 /\ p.focused \/ p.id = session.focusedPane
        /\ session.focusedTab \in Ids(session.tabs) =>
             \A p \in panes :
               p.tab = session.focusedTab /\ (p.focused \/ p.id = session.focusedPane) =>
                 /\ probed # None /\ probed.tab = session.focusedTab
                 /\ p.id = session.focusedPane => probed.pane = session.focusedPane
    BY <1>1 DEF CoherentIs, CalledFocused
  <1> QED
    BY <1>2 DEF FocusIsCoherent, probed, sampled, panes

-------------------------------------------------------------------------------
(* The validation.                                                          *)

ProbeSteps == {"snapshot", "process", "snapshot retry", "process retry"}

(* From the status on one release was reported, and from the schema on its   *)
(* document was accepted.                                                    *)
ToldOneRelease ==
    /\ step \in {"schema"} \cup ProbeSteps \/ outcome = "valid" =>
         observed \in Releases /\ Supported(observed) /\ reporters = {observed}
    /\ step \in ProbeSteps \/ outcome = "valid" =>
         schema \in DocumentNames /\ Documents[schema].protocol = observed.protocol

(* While Herdr is steady it is what the status said, and the pane asked for  *)
(* is there until one exits; the retry has seen that.                        *)
SteadySoFar ==
    Steady /\ SoundHerdr =>
      /\ observed # None => observed = server.release
      /\ step = "process" => mishaps.exit = 1 \/ asked \in Ids(session.panes)
      /\ step \in {"snapshot retry", "process retry"} => mishaps.exit = 1
      /\ step = "process retry" => asked \in Ids(session.panes)
      /\ outcome \notin {"Incompatible", "MissingBinaryPath", "pane_not_found"}

ContractInv == ContractTypeOK /\ ToldOneRelease /\ SteadySoFar

LEMMA InitContract == ContractInit => ContractInv
  <1> SUFFICES ASSUME ContractInit PROVE ContractInv
    OBVIOUS
  <1>1. MaxMishaps \in Nat /\ None \notin Outcomes
    BY ContractConstants
  <1>2. mishaps \in [Kinds -> 0..MaxMishaps]
    BY <1>1 DEF ContractInit
  <1>3. ContractTypeOK
    BY <1>2 DEF ContractInit, ContractTypeOK, Steps
  <1>4. ToldOneRelease
    BY <1>1 DEF ContractInit, ToldOneRelease, ProbeSteps, Outcomes
  <1>5. SteadySoFar
    BY <1>1 DEF ContractInit, SteadySoFar, Outcomes, Errors, CallErrors
  <1> QED
    BY <1>3, <1>4, <1>5 DEF ContractInv

(* A call leaves Herdr alone, so that whether it is steady stays the same.   *)
LEMMA SameWorld ==
    ASSUME UNCHANGED worldVars
    PROVE  /\ Steady' = Steady /\ SoundHerdr' = SoundHerdr
           /\ UNCHANGED <<binary, server, session, mishaps>>
  BY DEF worldVars, Steady, SoundHerdr

LEMMA SelectBinaryInv == ContractInv /\ SelectBinary => ContractInv'
  <1> SUFFICES ASSUME ContractInv, SelectBinary PROVE ContractInv'
    OBVIOUS
  <1>1. /\ step = "binary" /\ UNCHANGED <<observed, schema, asked, reporters>>
        /\ UNCHANGED <<binary, server, session, mishaps>>
        /\ Steady' = Steady /\ SoundHerdr' = SoundHerdr
    BY SameWorld DEF SelectBinary
  <1>2. /\ binary.path \in Paths
        /\ \/ binary.path # "absolute" /\ step' = "done" /\ outcome' \in {"MissingBinaryPath", "Incompatible"}
           \/ binary.path = "absolute" /\ step' = "status" /\ outcome' = outcome
    BY DEF SelectBinary, Conclude, Proceed, ContractInv, ContractTypeOK, Binaries, Paths
  <1>3. None \notin Outcomes
    BY ContractConstants
  <1>4. ContractTypeOK'
    BY <1>1, <1>2, <1>3 DEF ContractInv, ContractTypeOK, Steps, Outcomes, Errors
  <1>5. ToldOneRelease'
    BY <1>1, <1>2, <1>3 DEF ContractInv, ToldOneRelease, ProbeSteps, ContractTypeOK, Outcomes
  <1>6. SteadySoFar'
    BY <1>1, <1>2 DEF ContractInv, SteadySoFar, SoundHerdr
  <1> QED
    BY <1>4, <1>5, <1>6 DEF ContractInv

LEMMA CommandFailsInv == ContractInv /\ CommandFails => ContractInv'
  <1> SUFFICES ASSUME ContractInv, CommandFails PROVE ContractInv'
    OBVIOUS
  <1>1. /\ step \in {"status", "schema"} /\ UNCHANGED <<observed, schema, asked, reporters>>
        /\ UNCHANGED <<binary, server, session, mishaps>>
        /\ Steady' = Steady /\ SoundHerdr' = SoundHerdr
        /\ step' = "done" /\ outcome' = "CommandFailed"
    BY SameWorld DEF CommandFails, Conclude
  <1>2. "CommandFailed" # None
    BY ContractConstants DEF Outcomes, Errors
  <1>3. ContractTypeOK'
    BY <1>1, <1>2 DEF ContractInv, ContractTypeOK, Steps, Outcomes, Errors
  <1>4. ToldOneRelease'
    BY <1>1 DEF ToldOneRelease, ProbeSteps
  <1>5. SteadySoFar'
    BY <1>1 DEF ContractInv, SteadySoFar
  <1> QED
    BY <1>3, <1>4, <1>5 DEF ContractInv

LEMMA ValidateStatusInv == ContractInv /\ ValidateStatus => ContractInv'
  <1> SUFFICES ASSUME ContractInv, ValidateStatus PROVE ContractInv'
    OBVIOUS
  <1> DEFINE fits == server.running /\ Supported(server.release) /\ server.socket = "selected"
  <1>1. /\ step = "status" /\ UNCHANGED <<schema, asked>>
        /\ UNCHANGED <<binary, server, session, mishaps>>
        /\ Steady' = Steady /\ SoundHerdr' = SoundHerdr
        /\ reporters' = IF server.running THEN {server.release} ELSE {}
        /\ \/ fits /\ step' = "schema" /\ outcome' = outcome /\ observed' = server.release
           \/ ~fits /\ step' = "done" /\ outcome' = "Incompatible" /\ observed' = observed
    BY SameWorld DEF ValidateStatus, Conclude, Proceed
  <1>2. /\ server.release \in Releases
        /\ fits => server.release.protocol >= MinimumProtocol
        /\ None \notin Outcomes /\ "Incompatible" \in Outcomes
    BY ContractConstants DEF ContractInv, ContractTypeOK, Servers, Supported, Outcomes, Errors
  <1>3. outcome = None
    BY <1>1 DEF ContractInv, ContractTypeOK
  <1>4. SoundHerdr => fits
    BY DEF SoundHerdr
  <1>5. fits => Supported(server.release) /\ server.running
    OBVIOUS
  <1> HIDE DEF fits
  <1>6. ContractTypeOK'
    BY <1>1, <1>2, <1>3 DEF ContractInv, ContractTypeOK, Steps
  <1>7. ToldOneRelease'
    BY <1>1, <1>2, <1>3, <1>5 DEF ToldOneRelease, ProbeSteps, Outcomes
  <1>8. SteadySoFar'
    BY <1>1, <1>4 DEF ContractInv, SteadySoFar
  <1> QED
    BY <1>6, <1>7, <1>8 DEF ContractInv

LEMMA ReadSchemaInv == ContractInv /\ ReadSchema => ContractInv'
  <1> SUFFICES ASSUME ContractInv, ReadSchema PROVE ContractInv'
    OBVIOUS
  <1> DEFINE accepted == Accepts[binary.document][observed.protocol]
  <1>1. /\ step = "schema" /\ UNCHANGED <<observed, asked, reporters>>
        /\ UNCHANGED <<binary, server, session, mishaps>>
        /\ Steady' = Steady /\ SoundHerdr' = SoundHerdr
        /\ \/ accepted /\ step' = "snapshot" /\ outcome' = outcome /\ schema' = binary.document
           \/ ~accepted /\ step' = "done" /\ outcome' = "Incompatible" /\ schema' = schema
    BY SameWorld DEF ReadSchema, Conclude, Proceed
  <1>2. /\ observed \in Releases /\ Supported(observed) /\ reporters = {observed}
        /\ outcome = None /\ binary.document \in DocumentNames
        /\ None \notin Outcomes /\ "Incompatible" \in Outcomes /\ None \notin Releases
    BY <1>1, ContractConstants
    DEF ContractInv, ContractTypeOK, ToldOneRelease, Binaries, Outcomes, Errors
  <1>3. accepted => Documents[binary.document].protocol = observed.protocol
    BY <1>2, SchemaVerdicts DEF DocumentNames
  <1>4. Steady /\ SoundHerdr => accepted
    <2>1. Steady /\ SoundHerdr => observed = server.release
      BY <1>2 DEF ContractInv, SteadySoFar
    <2> QED
      BY <2>1, <1>2, SchemaVerdicts DEF SoundHerdr, DocumentNames
  <1> HIDE DEF accepted
  <1>5. ContractTypeOK'
    BY <1>1, <1>2 DEF ContractInv, ContractTypeOK, Steps
  <1>6. ToldOneRelease'
    BY <1>1, <1>2, <1>3 DEF ToldOneRelease, ProbeSteps, Outcomes
  <1>7. SteadySoFar'
    BY <1>1, <1>4 DEF ContractInv, SteadySoFar
  <1> QED
    BY <1>5, <1>6, <1>7 DEF ContractInv

LEMMA ProbeFailsInv == ContractInv /\ ProbeFails => ContractInv'
  <1> SUFFICES ASSUME ContractInv, ProbeFails PROVE ContractInv'
    OBVIOUS
  <1>1. PICK e \in CallErrors \ {"pane_not_found"} : outcome' = e
    <2>1. {"not_found", "refused"} \subseteq CallErrors \ {"pane_not_found"}
      BY DEF CallErrors, TransportErrors
    <2> QED
      BY <2>1 DEF ProbeFails, Conclude
  <1>2. /\ step \in ProbeSteps /\ UNCHANGED <<observed, schema, asked, reporters>>
        /\ UNCHANGED <<binary, server, session, mishaps>>
        /\ Steady' = Steady /\ SoundHerdr' = SoundHerdr
        /\ step' = "done"
    BY SameWorld DEF ProbeFails, Conclude, ProbeSteps
  <1>3. /\ e \in Outcomes /\ e # None
        /\ e \notin {"valid", "Incompatible", "MissingBinaryPath", "pane_not_found"}
    BY <1>1, ContractConstants DEF Outcomes, Errors, CallErrors, TransportErrors
  <1>4. ContractTypeOK'
    BY <1>1, <1>2, <1>3 DEF ContractInv, ContractTypeOK, Steps
  <1>5. ToldOneRelease'
    BY <1>1, <1>2, <1>3 DEF ToldOneRelease, ProbeSteps
  <1>6. SteadySoFar'
    BY <1>1, <1>2, <1>3 DEF ContractInv, SteadySoFar
  <1> QED
    BY <1>4, <1>5, <1>6 DEF ContractInv

(* The pane a probe asks for is one of those listed.                         *)
LEMMA AsksListedPane ==
    ASSUME session \in Sessions, NEW focused,
           focused = FocusedObservation(session, FALSE), focused # None
    PROVE  focused.pane \in PaneIds /\ focused.pane \in Ids(session.panes)
  <1>1. ObservationIs(session, focused, SelectedTab(session),
                      SelectedPane(session, SelectedTab(session), FALSE))
    BY ObservationFacts, FALSE \in BOOLEAN
  <1>2. focused \in Observations /\ \E p \in Range(session.panes) : p.id = focused.pane
    BY <1>1 DEF ObservationIs
  <1> QED
    BY <1>2 DEF Observations, Range, Ids

LEMMA ProbeSnapshotInv ==
    ASSUME ContractInv, NEW here, NEW next, ProbeSnapshot(here, next),
           <<here, next>> \in {<<"snapshot", "process">>, <<"snapshot retry", "process retry">>}
    PROVE  ContractInv'
  <1> DEFINE focused == FocusedObservation(session, FALSE)
  <1>1. /\ step = here /\ UNCHANGED <<observed, schema>>
        /\ UNCHANGED <<binary, server, session, mishaps>>
        /\ Steady' = Steady /\ SoundHerdr' = SoundHerdr
        /\ reporters' = reporters \cup {server.release}
        /\ \/ server.release # observed /\ step' = "done" /\ outcome' = "Incompatible" /\ asked' = asked
           \/ server.release = observed /\ step' = "done" /\ outcome' = "valid" /\ asked' = asked
           \/ /\ server.release = observed /\ focused # None
              /\ step' = next /\ outcome' = outcome /\ asked' = focused.pane
    BY SameWorld DEF ProbeSnapshot, Conclude, Proceed
  <1>2. focused # None => focused.pane \in PaneIds /\ focused.pane \in Ids(session.panes)
    BY AsksListedPane DEF ContractInv, ContractTypeOK
  <1> HIDE DEF focused
  <1>3. \/ here = "snapshot" /\ next = "process"
        \/ here = "snapshot retry" /\ next = "process retry"
    OBVIOUS
  <1>4. /\ outcome = None /\ {"valid", "Incompatible"} \subseteq Outcomes
        /\ None \notin Outcomes /\ None \notin PaneIds /\ None \notin Releases
        /\ observed \in Releases /\ Supported(observed) /\ reporters = {observed}
        /\ schema \in DocumentNames /\ Documents[schema].protocol = observed.protocol
        /\ server.release \in Releases
    BY <1>1, <1>3, ContractConstants
    DEF ContractInv, ContractTypeOK, ToldOneRelease, ProbeSteps, Outcomes, Errors, Servers
  <1>5. Steady /\ SoundHerdr => server.release = observed
    BY <1>4 DEF ContractInv, SteadySoFar
  <1>6. ContractTypeOK'
    BY <1>1, <1>2, <1>3, <1>4 DEF ContractInv, ContractTypeOK, Steps
  <1>7. ToldOneRelease'
    BY <1>1, <1>3, <1>4 DEF ToldOneRelease, ProbeSteps
  <1>8. SteadySoFar'
    BY <1>1, <1>2, <1>3, <1>4, <1>5 DEF ContractInv, SteadySoFar
  <1> QED
    BY <1>6, <1>7, <1>8 DEF ContractInv

LEMMA ProbePaneInv == ContractInv /\ ProbePane => ContractInv'
  <1> SUFFICES ASSUME ContractInv, ProbePane PROVE ContractInv'
    OBVIOUS
  <1> DEFINE there == asked \in Ids(session.panes)
  <1>1. /\ step \in {"process", "process retry"} /\ UNCHANGED <<observed, schema, asked, reporters>>
        /\ UNCHANGED <<binary, server, session, mishaps>>
        /\ Steady' = Steady /\ SoundHerdr' = SoundHerdr
        /\ \/ there /\ server.exact /\ step' = "done" /\ outcome' = "valid"
           \/ there /\ ~server.exact /\ step' = "done" /\ outcome' = "Incompatible"
           \/ ~there /\ step = "process" /\ step' = "snapshot retry" /\ outcome' = outcome
           \/ ~there /\ step = "process retry" /\ step' = "done" /\ outcome' = "pane_not_found"
    BY SameWorld DEF ProbePane, Conclude, Proceed
  <1>2. /\ outcome = None /\ None \notin Outcomes
        /\ {"valid", "Incompatible", "pane_not_found"} \subseteq Outcomes
    BY <1>1, ContractConstants DEF ContractInv, ContractTypeOK, Outcomes, Errors, CallErrors
  <1>3. Steady /\ SoundHerdr => server.exact /\ (step = "process" => mishaps.exit = 1 \/ there)
                                /\ (step = "process retry" => mishaps.exit = 1 /\ there)
    BY DEF ContractInv, SteadySoFar, SoundHerdr
  <1> HIDE DEF there
  <1>4. ContractTypeOK'
    BY <1>1, <1>2 DEF ContractInv, ContractTypeOK, Steps
  <1>5. ToldOneRelease'
    BY <1>1, <1>2 DEF ContractInv, ToldOneRelease, ProbeSteps
  <1>6. SteadySoFar'
    BY <1>1, <1>2, <1>3 DEF ContractInv, SteadySoFar
  <1> QED
    BY <1>4, <1>5, <1>6 DEF ContractInv

-------------------------------------------------------------------------------
(* What happens to Herdr.                                                   *)

LEMMA HappensMoves ==
    ASSUME ContractTypeOK, NEW kind \in Kinds, Happens(kind)
    PROVE  /\ UNCHANGED <<step, observed, schema, asked, reporters, outcome>>
           /\ mishaps' \in [Kinds -> 0..MaxMishaps]
           /\ mishaps'[kind] = mishaps[kind] + 1
           /\ \A k \in Kinds \ {kind} : mishaps'[k] = mishaps[k]
           /\ \A k \in Kinds : mishaps[k] \in Nat
  <1>1. mishaps \in [Kinds -> 0..MaxMishaps] /\ MaxMishaps \in Nat
    BY ContractConstants DEF ContractTypeOK
  <1>2. \A k \in Kinds : mishaps[k] \in Nat
    BY <1>1
  <1>3. mishaps.stop \in Nat /\ mishaps.start \in Nat /\ mishaps.upgrade \in Nat /\ mishaps.exit \in Nat
    BY <1>2 DEF Kinds
  <1>4. mishaps.stop + mishaps.start + mishaps.upgrade + mishaps.exit < MaxMishaps
    BY DEF Happens
  <1>5. \A k \in Kinds : mishaps[k] + 1 \in 0..MaxMishaps
    BY <1>1, <1>3, <1>4 DEF Kinds
  <1>6. mishaps' = [mishaps EXCEPT ![kind] = mishaps[kind] + 1]
    BY DEF Happens
  <1> QED
    BY <1>1, <1>2, <1>5, <1>6 DEF Happens

(* Such a step keeps the invariant if Herdr is no longer steady after it.    *)
LEMMA UnsteadyInv ==
    ASSUME ContractInv, NEW kind \in Kinds, Happens(kind),
           kind \in {"stop", "start", "upgrade"},
           binary' \in Binaries, server' \in Servers, session' \in Sessions
    PROVE  ContractInv'
  <1>1. /\ UNCHANGED <<step, observed, schema, asked, reporters, outcome>>
        /\ mishaps' \in [Kinds -> 0..MaxMishaps]
        /\ mishaps'[kind] = mishaps[kind] + 1
        /\ \A k \in Kinds \ {kind} : mishaps'[k] = mishaps[k]
        /\ \A k \in Kinds : mishaps[k] \in Nat
    BY HappensMoves DEF ContractInv
  <1>2. ContractTypeOK'
    BY <1>1 DEF ContractInv, ContractTypeOK
  <1>3. ToldOneRelease'
    BY <1>1 DEF ContractInv, ToldOneRelease
  <1>4. ~Steady'
    <2>1. \A k \in Kinds : mishaps'[k] \in Nat
      BY <1>1
    <2>2. mishaps'.stop \in Nat /\ mishaps'.start \in Nat /\ mishaps'.upgrade \in Nat
      BY <2>1 DEF Kinds
    <2>3. mishaps'[kind] > 0
      BY <1>1
    <2>4. mishaps'.stop > 0 \/ mishaps'.start > 0 \/ mishaps'.upgrade > 0
      BY <2>3
    <2> QED
      BY <2>2, <2>4 DEF Steady
  <1> QED
    BY <1>2, <1>3, <1>4 DEF ContractInv, SteadySoFar

LEMMA ServerInv == ContractInv /\ (ServerStops \/ ServerStarts \/ BinaryUpgraded) => ContractInv'
  <1> SUFFICES ASSUME ContractInv, ServerStops \/ ServerStarts \/ BinaryUpgraded PROVE ContractInv'
    OBVIOUS
  <1>1. /\ binary \in Binaries /\ server \in Servers /\ session \in Sessions
        /\ {"stop", "start", "upgrade"} \subseteq Kinds
    BY DEF ContractInv, ContractTypeOK, Kinds
  <1>2. CASE ServerStops
    BY <1>1, <1>2, UnsteadyInv DEF ServerStops, Servers
  <1>3. CASE ServerStarts
    BY <1>1, <1>3, UnsteadyInv DEF ServerStarts, Servers
  <1>4. CASE BinaryUpgraded
    BY <1>1, <1>4, UnsteadyInv, ContractConstants DEF BinaryUpgraded, Binaries, DocumentNames
  <1> QED
    BY <1>2, <1>3, <1>4

LEMMA PaneExitsInv == ContractInv /\ PaneExits => ContractInv'
  <1> SUFFICES ASSUME ContractInv, PaneExits PROVE ContractInv'
    OBVIOUS
  <1>1. /\ UNCHANGED <<step, observed, schema, asked, reporters, outcome>>
        /\ mishaps' \in [Kinds -> 0..MaxMishaps]
        /\ mishaps'.exit = mishaps.exit + 1
        /\ UNCHANGED <<mishaps.stop, mishaps.start, mishaps.upgrade>>
        /\ mishaps.exit \in Nat
    BY HappensMoves DEF ContractInv, PaneExits, Kinds
  <1>2. UNCHANGED <<binary, server>>
    BY DEF PaneExits
  <1>3. PICK gone \in DOMAIN session.panes :
          \E f \in Ids(RemoveAt(session.panes, gone)) \cup {None} :
            session' = [session EXCEPT !.panes = RemoveAt(session.panes, gone), !.focusedPane = f]
    BY DEF PaneExits
  <1> DEFINE left == RemoveAt(session.panes, gone)
  <1>4. PICK focus \in Ids(left) \cup {None} :
          session' = [session EXCEPT !.panes = left, !.focusedPane = focus]
    BY <1>3
  <1>5. session \in Sessions /\ session.panes \in Seq(PaneEntry)
    BY DEF ContractInv, ContractTypeOK, Sessions
  <1>6. left \in Seq(PaneEntry)
    <2>1. gone \in 1..Len(session.panes) /\ Len(session.panes) \in Nat
      BY <1>5
    <2>2. /\ SubSeq(session.panes, 1, gone - 1) \in Seq(PaneEntry)
          /\ SubSeq(session.panes, gone + 1, Len(session.panes)) \in Seq(PaneEntry)
      BY <1>5, <2>1
    <2> QED
      BY <2>2 DEF RemoveAt
  <1>7. Ids(left) \subseteq PaneIds
    <2>1. \A i \in DOMAIN left : left[i] \in PaneEntry
      BY <1>6
    <2> QED
      BY <2>1 DEF Ids, PaneEntry
  <1>8. session' \in Sessions
    <2> HIDE DEF left
    <2>1. session' = [session EXCEPT !.panes = left, !.focusedPane = focus]
      BY <1>4 DEF left
    <2>2. focus \in PaneIds \cup {None}
      BY <1>4, <1>7 DEF left
    <2> QED
      BY <1>5, <1>6, <2>1, <2>2 DEF Sessions
  <1>9. ContractTypeOK'
    BY <1>1, <1>2, <1>8 DEF ContractInv, ContractTypeOK
  <1>10. ToldOneRelease'
    BY <1>1 DEF ContractInv, ToldOneRelease
  <1>11. SteadySoFar'
    <2> SUFFICES ASSUME Steady', SoundHerdr' PROVE SteadySoFar'
      BY DEF SteadySoFar
    <2>1. mishaps.exit = 0 /\ mishaps'.exit = 1 /\ Steady /\ SoundHerdr
      BY <1>1, <1>2 DEF Steady, SoundHerdr
    <2>2. /\ observed # None => observed = server.release
          /\ step \notin {"snapshot retry", "process retry"}
          /\ outcome \notin {"Incompatible", "MissingBinaryPath", "pane_not_found"}
      <3>1. mishaps.exit # 1
        BY <2>1
      <3> QED
        BY <2>1, <3>1 DEF ContractInv, SteadySoFar
    <2> QED
      BY <1>1, <1>2, <2>1, <2>2 DEF SteadySoFar
  <1> QED
    BY <1>9, <1>10, <1>11 DEF ContractInv

LEMMA NextContract == ContractInv /\ [ContractNext]_contractVars => ContractInv'
  <1> SUFFICES ASSUME ContractInv, [ContractNext]_contractVars PROVE ContractInv'
    OBVIOUS
  <1>1. CASE World
    BY <1>1, ServerInv, PaneExitsInv DEF World
  <1>2. CASE ProbeSnapshot("snapshot", "process") \/ ProbeSnapshot("snapshot retry", "process retry")
    BY <1>2, ProbeSnapshotInv
  <1>3. CASE SelectBinary \/ CommandFails \/ ValidateStatus \/ ReadSchema \/ ProbeFails \/ ProbePane
    BY <1>3, SelectBinaryInv, CommandFailsInv, ValidateStatusInv, ReadSchemaInv, ProbeFailsInv, ProbePaneInv
  <1>4. CASE UNCHANGED contractVars
    <2>1. /\ UNCHANGED <<binary, server, session, mishaps>>
          /\ UNCHANGED <<step, observed, schema, asked, reporters, outcome>>
          /\ Steady' = Steady /\ SoundHerdr' = SoundHerdr
      BY <1>4, SameWorld DEF contractVars, worldVars
    <2> QED
      BY <2>1 DEF ContractInv, ContractTypeOK, ToldOneRelease, SteadySoFar
  <1> QED
    BY <1>1, <1>2, <1>3, <1>4 DEF ContractNext, Validate

(* Whatever happens to Herdr between two calls, the validation of one        *)
(* release is told apart from that of another.                               *)
LEMMA ContractInvariant == ContractSpec => []ContractInv
  BY InitContract, NextContract, PTL DEF ContractSpec

(* Every variable of the validation has its type, and a release that the     *)
(* status reported has the minimum protocol.                                 *)
THEOREM ContractTypeCorrect == ContractSpec => []ContractTypeOK
  <1>1. ContractInv => ContractTypeOK
    BY DEF ContractInv
  <1> QED
    BY <1>1, ContractInvariant, PTL

(* A validation that succeeds was told one supported release, and accepted a *)
(* document of its protocol, although the server may be replaced and the     *)
(* executable upgraded between any two calls.                                *)
THEOREM OneReleaseAnswers == ContractSpec => []OneReleaseAnswered
  <1>1. ContractInv => OneReleaseAnswered
    BY DEF ContractInv, ToldOneRelease, OneReleaseAnswered
  <1> QED
    BY <1>1, ContractInvariant, PTL

(* A sound Herdr that is steady but for one pane that exits is never found   *)
(* incompatible, whatever it shows and whichever pane exits.                 *)
THEOREM SteadyHerdrAccepted == ContractSpec => []SteadyHerdrIsAccepted
  <1>1. ContractInv => SteadyHerdrIsAccepted
    BY DEF ContractInv, SteadySoFar, SteadyHerdrIsAccepted
  <1> QED
    BY <1>1, ContractInvariant, PTL

(* The focused pane read off any snapshot is one of the focused tab; the     *)
(* probe and the sample agree on it.                                         *)
THEOREM FocusAlwaysCoherent == ContractSpec => []FocusIsCoherent
  <1>1. ContractInv => FocusIsCoherent
    BY FocusCoherent DEF ContractInv, ContractTypeOK
  <1> QED
    BY <1>1, ContractInvariant, PTL
===============================================================================
