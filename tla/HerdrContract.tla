---------------------------- MODULE HerdrContract ----------------------------
(***************************************************************************)
(* herdr_contract.rs, validate_live: before a runtime becomes Ready it asks *)
(* the Herdr binary for its status and its schema, and the session's server *)
(* for a snapshot and for the processes of the focused pane.  Five calls,   *)
(* and the server may stop, come back as another release, or lose the pane  *)
(* between any two of them.                                                 *)
(***************************************************************************)
EXTENDS HerdrFocus

CONSTANTS
    Documents,        \* what a Herdr binary may print, by name: its protocol, its schema
    Accepts,          \* what validate_schema (ApiSchema) says of them: Accepts[name][protocol]
    Additive,         \* those that only add to what Tabby needs
    Upgraded,         \* those of the binaries an upgrade installs
    Releases,         \* of Herdr: a version, as the numbers between its dots
                      \*   (None for what is no number), and a protocol
    MinimumVersion, MinimumProtocol,
    MaxMishaps        \* bound on what happens to Herdr meanwhile

Errors   == {"MissingBinaryPath", "CommandFailed", "Incompatible"} \cup CallErrors
Outcomes == {"valid"} \cup Errors

ASSUME ContractConstants ==
    /\ Additive \cup Upgraded \subseteq DOMAIN Documents
    /\ MinimumProtocol \in Nat /\ MaxMishaps \in Nat
    /\ \A r \in Releases : r.protocol \in Nat
    /\ None \notin Releases /\ None \notin DOMAIN Documents /\ None \notin Observations
    /\ None \notin TabIds /\ None \notin PaneIds /\ None \notin Outcomes

(* What this module needs of validate_schema: it accepts a document only    *)
(* for the protocol the document names, and then one that only adds to what *)
(* Tabby needs.  Of any other document either verdict is possible.          *)
ASSUME SchemaVerdicts ==
    \A n \in DOMAIN Documents, r \in Releases :
      /\ Accepts[n][r.protocol] => Documents[n].protocol = r.protocol
      /\ n \in Additive /\ Documents[n].protocol = r.protocol => Accepts[n][r.protocol]

VARIABLES
    binary,     \* the executable of HERDR_BIN_PATH: the path given, what it prints
    server,     \* the session's server: is it running, its release, its socket,
                \*   and does it answer for the pane it is asked for
    session,    \* what it shows
    mishaps,    \* how often each thing has happened to Herdr
    step,       \* the call that is next
    observed,   \* the release status reported
    schema,     \* the document that was accepted
    asked,      \* the pane whose processes are asked for
    reporters,  \* history: the releases that answered status and session.snapshot
    outcome     \* None, "valid", or the error of the failed call

worldVars    == <<binary, server, session, mishaps>>
contractVars == <<worldVars, step, observed, schema, asked, reporters, outcome>>

Steps  == {"binary", "status", "schema", "snapshot", "process",
           "snapshot retry", "process retry", "done"}
Paths  == {"absolute", "relative", "missing"}
Kinds  == {"stop", "start", "upgrade", "exit"}
DocumentNames == DOMAIN Documents
Binaries == [path: Paths, document: DocumentNames]
Servers  ==
    [running: BOOLEAN, release: Releases, socket: {"selected", "other"}, exact: BOOLEAN]

(* HerdrContractError::is_retryable: such a failure leaves no record.       *)
IsRetryable(error) == IsRetryableTransport(error)

ContractTypeOK ==
    /\ binary \in Binaries /\ server \in Servers
    /\ session \in Sessions
    /\ mishaps \in [Kinds -> 0..MaxMishaps]
    /\ step \in Steps /\ (step = "done" <=> outcome # None)
    /\ observed \in Releases \cup {None} /\ (observed # None => observed.protocol >= MinimumProtocol)
    /\ schema \in DocumentNames \cup {None}
    /\ asked \in PaneIds \cup {None}
    /\ asked # None => step \in {"process", "snapshot retry", "process retry", "done"}
    /\ step \in {"process", "process retry"} => asked # None
    /\ reporters \subseteq Releases
    /\ outcome \in Outcomes \cup {None}

(* Any executable, server and session to begin with.                        *)
ContractInit ==
    /\ binary \in Binaries /\ server \in Servers /\ session \in Sessions
    /\ mishaps = [k \in Kinds |-> 0]
    /\ step = "binary"
    /\ observed = None /\ schema = None /\ asked = None /\ outcome = None
    /\ reporters = {}

(* version_at_least_minimum.                                                *)
Compare(v, w, i) == \A j \in 1..i-1 : v[j] = w[j]
VersionAtLeastMinimum(v) ==
    /\ Len(v) = 3 /\ None \notin Range(v)
    /\ \/ v = MinimumVersion
       \/ \E i \in 1..3 : Compare(v, MinimumVersion, i) /\ v[i] > MinimumVersion[i]
(* A mistake to be caught (README, Mutants). *)
SupportedVersion(release) == VersionAtLeastMinimum(release.version)
Supported(release) ==
    VersionAtLeastMinimum(release.version) /\ release.protocol >= MinimumProtocol

(* The end of the validation, and its going on with another call.           *)
Conclude(o) == outcome' = o /\ step' = "done"
Proceed(s)  == step' = s /\ UNCHANGED outcome

(* required_herdr_binary.                                                   *)
SelectBinary ==
    /\ step = "binary"
    /\ CASE binary.path = "missing"  -> Conclude("MissingBinaryPath")
         [] binary.path = "relative" -> Conclude("Incompatible")
         [] binary.path = "absolute" -> Proceed("status")
    /\ UNCHANGED <<worldVars, observed, schema, asked, reporters>>

(* command_json: the command may not run, fail, or print no JSON.           *)
CommandFails ==
    /\ step \in {"status", "schema"}
    /\ Conclude("CommandFailed")
    /\ UNCHANGED <<worldVars, observed, schema, asked, reporters>>

ValidateStatus ==
    /\ step = "status"
    /\ IF server.running /\ Supported(server.release) /\ server.socket = "selected"
       THEN Proceed("schema") /\ observed' = server.release
       ELSE Conclude("Incompatible") /\ UNCHANGED observed
    /\ reporters' = IF server.running THEN {server.release} ELSE {}
    /\ UNCHANGED <<worldVars, schema, asked>>

(* validate_schema, of the document for the protocol its server reported.    *)
ReadSchema ==
    /\ step = "schema"
    /\ IF Accepts[binary.document][observed.protocol]
       THEN Proceed("snapshot") /\ schema' = binary.document
       ELSE Conclude("Incompatible") /\ UNCHANGED schema
    /\ UNCHANGED <<worldVars, observed, asked, reporters>>

(* A live probe whose call fails.  A reply cut short by the end of the      *)
(* server is a line that is not JSON.                                       *)
ProbeFails ==
    /\ step \in {"snapshot", "process", "snapshot retry", "process retry"}
    /\ \E e \in IF server.running THEN CallErrors \ {"not_found", "refused", "pane_not_found"}
                ELSE {"not_found", "refused"} :
         Conclude(e)
    /\ UNCHANGED <<worldVars, observed, schema, asked, reporters>>

(* A mistake to be caught (README, Mutants). *)
ProbeSnapshotUnchecked(here, next) ==
    /\ step = here /\ server.running
    /\ LET focused == FocusedObservation(session, FALSE)
       IN  IF here = "snapshot" /\ server.release # observed
           THEN Conclude("Incompatible") /\ UNCHANGED asked
           ELSE IF focused = None THEN Conclude("valid") /\ UNCHANGED asked
           ELSE Proceed(next) /\ asked' = focused.pane
    /\ reporters' = reporters \cup {server.release}
    /\ UNCHANGED <<worldVars, observed, schema>>

(* session.snapshot, validate_snapshot_contract, and the pane to ask for.   *)
ProbeSnapshot(here, next) ==
    /\ step = here /\ server.running
    /\ LET focused == FocusedObservation(session, FALSE)
       IN  IF server.release # observed THEN Conclude("Incompatible") /\ UNCHANGED asked
           ELSE IF focused = None THEN Conclude("valid") /\ UNCHANGED asked
           ELSE Proceed(next) /\ asked' = focused.pane
    /\ reporters' = reporters \cup {server.release}
    /\ UNCHANGED <<worldVars, observed, schema>>

(* A mistake to be caught (README, Mutants). *)
ProbePaneOnce ==
    /\ step \in {"process", "process retry"} /\ server.running
    /\ Conclude(IF asked \notin Ids(session.panes) THEN "pane_not_found"
                ELSE IF server.exact THEN "valid" ELSE "Incompatible")
    /\ UNCHANGED <<worldVars, observed, schema, asked, reporters>>

(* pane.process_info: the processes of the pane, or of another one, or an   *)
(* error when there is no such pane; the first time that leads to a retry.  *)
ProbePane ==
    /\ step \in {"process", "process retry"} /\ server.running
    /\ IF asked \in Ids(session.panes)
       THEN Conclude(IF server.exact THEN "valid" ELSE "Incompatible")
       ELSE IF step = "process" THEN Proceed("snapshot retry") ELSE Conclude("pane_not_found")
    /\ UNCHANGED <<worldVars, observed, schema, asked, reporters>>

(* What happens to Herdr meanwhile, once the first call can notice.         *)
Happens(kind) ==
    /\ step \notin {"binary", "done"}
    /\ mishaps.stop + mishaps.start + mishaps.upgrade + mishaps.exit < MaxMishaps
    /\ mishaps' = [mishaps EXCEPT ![kind] = @ + 1]
    /\ UNCHANGED <<step, observed, schema, asked, reporters, outcome>>

ServerStops ==
    /\ Happens("stop") /\ server.running
    /\ server' = [server EXCEPT !.running = FALSE]
    /\ UNCHANGED <<binary, session>>

ServerStarts ==
    /\ Happens("start") /\ ~server.running
    /\ \E r \in Releases : server' = [server EXCEPT !.running = TRUE, !.release = r]
    /\ UNCHANGED <<binary, session>>

BinaryUpgraded ==
    /\ Happens("upgrade")
    /\ \E n \in Upgraded : binary' = [binary EXCEPT !.document = n]
    /\ UNCHANGED <<server, session>>

(* A pane exits, and another one may be focused.                            *)
PaneExits ==
    /\ Happens("exit") /\ server.running
    /\ \E gone \in DOMAIN session.panes :
         LET left == RemoveAt(session.panes, gone)
         IN  \E focus \in Ids(left) \cup {None} :
               session' = [session EXCEPT !.panes = left, !.focusedPane = focus]
    /\ UNCHANGED <<binary, server>>

World == ServerStops \/ ServerStarts \/ BinaryUpgraded \/ PaneExits

Validate ==
    \/ SelectBinary \/ CommandFails \/ ValidateStatus \/ ReadSchema \/ ProbeFails \/ ProbePane
    \/ ProbeSnapshot("snapshot", "process")
    \/ ProbeSnapshot("snapshot retry", "process retry")

ContractNext == World \/ Validate

ContractSpec == ContractInit /\ [][ContractNext]_contractVars

(* A supported Herdr whose document only adds to what Tabby needs, and      *)
(* which stays as it is but for one pane that exits, is never recorded as   *)
(* incompatible (ADR 0014, "accept additive fields"; the single retry).     *)
Steady == mishaps.stop + mishaps.start + mishaps.upgrade = 0 /\ mishaps.exit <= 1
SoundHerdr ==
    /\ binary.path = "absolute" /\ binary.document \in Additive
    /\ Supported(server.release) /\ server.running /\ server.socket = "selected" /\ server.exact
    /\ Documents[binary.document].protocol = server.release.protocol
SteadyHerdrIsAccepted ==
    Steady /\ SoundHerdr => outcome \notin {"Incompatible", "MissingBinaryPath", "pane_not_found"}

(* A validation that succeeds was told one release only, by the status and  *)
(* by every snapshot, and its document is of that release, although the     *)
(* server may be replaced between any two calls.  (An answer about the       *)
(* processes of a pane does not tell who gave it.)                          *)
OneReleaseAnswered ==
    outcome = "valid" =>
      /\ reporters = {observed} /\ Supported(observed)
      /\ Documents[schema].protocol = observed.protocol

(* What a snapshot shows as focused is a listed pane of a listed tab; a     *)
(* probe asks only for one that Herdr calls focused, and asks if the tab it *)
(* names has one, for the very pane it names if that belongs to the tab;    *)
(* and a sample, which may fall back to the first pane, agrees with the     *)
(* probe when there is one.                                                 *)
FocusIsCoherent ==
    LET probed  == FocusedObservation(session, FALSE)
        sampled == FocusedObservation(session, TRUE)
        panes   == Range(session.panes)
        CalledFocused(p) == p.focused \/ p.id = session.focusedPane
    IN  /\ sampled # None =>
             /\ sampled.tab \in Ids(session.tabs)
             /\ \E p \in panes :
                  /\ p.tab = sampled.tab /\ p.id = sampled.pane
                  /\ sampled.directory \in ({p.foregroundCwd, p.cwd} \ {""}) \cup {None}
        /\ probed # None =>
             /\ sampled = probed
             /\ \E p \in panes : p.tab = probed.tab /\ p.id = probed.pane /\ CalledFocused(p)
        /\ session.focusedTab \in Ids(session.tabs) =>
             \A p \in panes : p.tab = session.focusedTab /\ CalledFocused(p) =>
               /\ probed # None /\ probed.tab = session.focusedTab
               /\ p.id = session.focusedPane => probed.pane = session.focusedPane
==============================================================================
