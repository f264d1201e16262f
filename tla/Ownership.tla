------------------------------- MODULE Ownership -------------------------------
(***************************************************************************)
(* session_runtime.rs: how the processes of one Herdr Session agree on one  *)
(* Session Runtime.  Clients are runs of the command line (hooks, actions   *)
(* and a user's commands); a launch is one spawned `tabby runtime`.  They   *)
(* share four files: the startup gate and the lifetime lease, which are     *)
(* flocked, the metadata, replaced by rename, and the control socket.       *)
(*                                                                          *)
(* A step is one access to a shared file or one exchange over the socket.   *)
(* The timeouts of the code may strike at any time, but each costs one of   *)
(* the MaxMishaps steps, as do crashes, edits and damage.                   *)
(***************************************************************************)
EXTENDS Naturals

CONSTANTS
    Launches,       \* launch ids; one that nothing refers to is new again
    Clients,        \* command-line processes that run side by side
    Binaries,       \* installed Tabby executables
    BinaryOf,       \* [Clients -> Binaries]: the executable a client runs
    Commands,       \* which of "start", "repair", "forget" are ever given
    Hazards,        \* which of "damage", "contract" may happen
    None,
    MaxMishaps

Maybe(S) == S \cup {None}

(* RuntimeMetadataState, a fault being told apart by its recorded cause:    *)
(* "retryable" is what an older release persisted of a failed live probe.   *)
Meta == [launch: Maybe(Launches), state: {"Ready", "config", "retryable", "fatal"}]
Ready(l) == [launch |-> l, state |-> "Ready"]
Faulted(l, cause) == [launch |-> l, state |-> cause]
LegacyFault == [launch |-> None, state |-> "retryable"]

ASSUME OwnershipConstants ==
    /\ None \notin Launches \cup Clients \cup Binaries \cup Meta
    /\ BinaryOf \in [Clients -> Binaries]
    /\ Commands \subseteq {"start", "repair", "forget"}
    /\ Hazards \subseteq {"damage", "contract"}
    /\ MaxMishaps \in Nat

VARIABLES
    session,    \* whether the Herdr server accepts connections
    config,     \* whether config.toml loads
    store,      \* the Session-Scoped Tab State file
    gate,       \* the client that holds startup.lock, or None
    lease,      \* the launch that holds runtime.lease, or None
    meta,       \* runtime.json, or None
    sock,       \* the launch that bound control.sock, or None
    owner,      \* owner[l]: how far the process of launch l is
    binary,     \* binary[l]: the executable of launch l
    handoff,    \* handoff[l]: whether PrepareHandoff is in l's mailbox
    client,     \* client[c]: where c is in its command, and its locals
    said,       \* said[c]: the owner c's last command reported success with
    mishaps     \* mishaps left

outside   == <<session, config, store>>
files     == <<gate, lease, meta, sock>>
processes == <<owner, binary, handoff, client, said>>
vars      == <<outside, files, processes, mishaps>>

Closing == {"retiring", "closing", "releasing"}
Holding == {"checking", "failing", "bound", "ready"} \cup Closing
Serving == {"bound", "ready", "leaving"} \cup Closing  \* the acceptor thread lives
Phases  == {"none", "waiting"} \cup Holding \cup Serving

Programs == {"ensure", "start", "repair", "forget"}
Places == {"idle", "gate", "inspect", "inspect_metadata", "inspect_socket",
           "read", "judge", "connect", "exchange", "await", "release",
           "spawn", "child", "discard", "probe", "herdr", "forget"}
Client == [cmd: Programs, pc: Places, op: {"signal", "handoff", "repair"},
           held: BOOLEAN, saved: Maybe(Meta), conn: Maybe(Launches),
           child: Maybe(Launches)]
Idle == [cmd |-> "ensure", pc |-> "idle", op |-> "signal", held |-> FALSE,
         saved |-> None, conn |-> None, child |-> None]

(* What a client at each place of its command knows.                        *)
LocalsOK(c) ==
    /\ client[c].pc \in {"judge", "connect", "exchange", "await", "inspect_socket"}
         => client[c].saved # None
    /\ client[c].pc \in {"exchange", "await"} => client[c].conn # None
    /\ client[c].pc = "child" => client[c].child # None

TypeOK ==
    /\ session \in {"up", "down"} /\ config \in {"good", "bad"}
    /\ store \in {"valid", "undecodable", "legacy"}
    /\ gate \in Maybe(Clients) /\ lease \in Maybe(Launches)
    /\ meta \in Maybe(Meta) /\ sock \in Maybe(Launches)
    /\ owner \in [Launches -> Phases]
    /\ binary \in [Launches -> Maybe(Binaries)]
    /\ handoff \in [Launches -> {"no", "queued", "taken"}]
    /\ client \in [Clients -> Client] /\ \A c \in Clients : LocalsOK(c)
    /\ said \in [Clients -> Maybe(Launches)]
    /\ mishaps \in 0..MaxMishaps

Init ==
    /\ session = "up" /\ config = "good" /\ store = "valid"
    /\ gate = None /\ lease = None /\ sock = None
    /\ meta \in {None, LegacyFault}
    /\ owner = [l \in Launches |-> "none"]
    /\ binary = [l \in Launches |-> None]
    /\ handoff = [l \in Launches |-> "no"]
    /\ client = [c \in Clients |-> Idle]
    /\ said = [c \in Clients |-> None]
    /\ mishaps = MaxMishaps

Spend == mishaps > 0 /\ mishaps' = mishaps - 1
Free  == UNCHANGED mishaps

-------------------------------------------------------------------------------
(* How a client moves on.                                                   *)

At(c, pc) == client[c].pc = pc
Goto(c, pc) == client' = [client EXCEPT ![c].pc = pc] /\ UNCHANGED <<gate, said>>

(* The command ends, reporting the owner l or a failure (None); the gate's  *)
(* guard is dropped.                                                        *)
Finish(c, l) ==
    /\ client' = [client EXCEPT ![c] = Idle]
    /\ gate' = IF gate = c THEN None ELSE gate
    /\ said' = [said EXCEPT ![c] = l]

(* LifetimeLease::is_held takes the lock for a moment, so a probe that      *)
(* meets another one takes it for an owner.                                 *)
Probes(held) ==
    \/ held = (lease # None) /\ Free
    \/ lease = None /\ held = TRUE /\ Spend

(* request_ready_owner: Ok(None), no coherent Ready owner was found; an     *)
(* error; Ok(Some(l)).                                                      *)
Returns(c, pc) ==
    /\ client' = [client EXCEPT ![c].pc = pc, ![c].saved = None, ![c].conn = None]
    /\ UNCHANGED <<gate, said>>

Unanswered(c) ==
    IF client[c].child # None THEN Returns(c, "child")
    ELSE IF client[c].cmd = "ensure" THEN Returns(c, "spawn")
    ELSE Finish(c, None)

Refused(c) == Finish(c, None)

Accepted(c, l) ==
    IF client[c].op = "handoff" THEN Returns(c, "release") ELSE Finish(c, l)

-------------------------------------------------------------------------------
(* Commands begin; ensure-started, refresh and the focus and creation hooks *)
(* are "ensure".                                                            *)

Begin(c, cmd) ==
    /\ At(c, "idle")
    /\ cmd # "forget" => session = "up"
    /\ IF cmd = "ensure" THEN Free ELSE cmd \in Commands /\ Spend
    /\ client' = [client EXCEPT ![c] =
                    [Idle EXCEPT !.cmd = cmd,
                                 !.pc = IF cmd = "forget" THEN "probe" ELSE "gate"]]
    /\ said' = [said EXCEPT ![c] = None]
    /\ UNCHANGED <<outside, files, owner, binary, handoff>>

(* The gate is tried once; a busy gate ends the command.                    *)
EnterGate(c) ==
    /\ At(c, "gate")
    /\ IF gate = None
       THEN /\ gate' = c
            /\ client' = [client EXCEPT ![c].pc =
                            IF client[c].cmd = "ensure" THEN "read" ELSE "inspect"]
            /\ UNCHANGED said
       ELSE Finish(c, None)
    /\ UNCHANGED <<outside, lease, meta, sock, owner, binary, handoff, mishaps>>

-------------------------------------------------------------------------------
(* request_ready_owner, one step for each file it reads.                    *)

ReadMetadata(c) ==
    /\ At(c, "read")
    /\ IF meta = None THEN Unanswered(c)
       ELSE /\ client' = [client EXCEPT
                 ![c].saved = meta,
                 ![c].pc = IF meta.state = "Ready" THEN "connect" ELSE "judge"]
            /\ UNCHANGED <<gate, said>>
    /\ UNCHANGED <<outside, lease, meta, sock, owner, binary, handoff, mishaps>>

(* A recorded fault is final, unless nobody holds the lease and its cause   *)
(* is one that a new owner may not meet again.                              *)
(* A mistake to be caught (README, Mutants). *)
RecoverableOfProbesOnly(m, held) == ~held /\ m.state = "retryable"
Recoverable(m, held) ==
    /\ ~held
    /\ m.state = "retryable" \/ (m.state = "config" /\ config = "good")

JudgeFault(c) ==
    /\ At(c, "judge")
    /\ \E held \in BOOLEAN :
         /\ Probes(held)
         /\ IF Recoverable(client[c].saved, held) THEN Unanswered(c) ELSE Refused(c)
    /\ UNCHANGED <<outside, lease, meta, sock, owner, binary, handoff>>

(* A mistake to be caught (README, Mutants). *)
ConnectUnchecked(c) ==
    /\ At(c, "connect")
    /\ client' = [client EXCEPT ![c].conn = sock, ![c].pc = "exchange"]
    /\ UNCHANGED <<outside, files, owner, binary, handoff, said, mishaps>>
Connect(c) ==
    /\ At(c, "connect")
    /\ IF sock # None /\ owner[sock] \in Serving
       THEN /\ client' = [client EXCEPT ![c].conn = sock, ![c].pc = "exchange"]
            /\ UNCHANGED <<gate, said>>
       ELSE Unanswered(c)
    /\ UNCHANGED <<outside, lease, meta, sock, owner, binary, handoff, mishaps>>

(* handle_control_request of the connected owner, and what the client makes *)
(* of its reply.  An owner whose loop has ended still accepts a signal, but *)
(* completes no mutation.                                                   *)
Takes(c, l) ==
    /\ handoff[l] = "no"
    /\ CASE client[c].op = "signal"  -> TRUE
         [] client[c].op = "repair"  -> owner[l] = "ready"
         [] client[c].op = "handoff" -> BinaryOf[c] # binary[l]

(* The launch id of the request is checked by the owner, that of the reply  *)
(* by the client.                                                           *)
(* A mistake to be caught (README, Mutants). *)
AnyGeneration(c, l) == TRUE
SameGeneration(c, l) == client[c].saved.launch = l

Exchange(c) ==
    /\ At(c, "exchange")
    /\ LET l == client[c].conn
       IN  \/ owner[l] \notin Serving /\ Refused(c) /\ UNCHANGED <<store, handoff>>
           \/ /\ owner[l] \in Serving
              /\ ~SameGeneration(c, l)
              /\ Unanswered(c)
              /\ UNCHANGED <<store, handoff>>
           \/ /\ owner[l] \in Serving
              /\ SameGeneration(c, l)
              /\ ~Takes(c, l)
              /\ Refused(c)
              /\ UNCHANGED <<store, handoff>>
           \/ /\ owner[l] \in Serving
              /\ SameGeneration(c, l)
              /\ Takes(c, l)
              /\ IF client[c].op = "handoff"
                 THEN handoff' = [handoff EXCEPT ![l] = "queued"] /\ Goto(c, "await")
                 ELSE Accepted(c, l) /\ UNCHANGED handoff
              /\ store' = IF client[c].op = "repair" THEN "valid" ELSE store
    /\ UNCHANGED <<session, config, lease, meta, sock, owner, binary, mishaps>>

(* The reply to PrepareHandoff is written once the loop took the command.   *)
AwaitHandoff(c) ==
    /\ At(c, "await")
    /\ LET l == client[c].conn
       IN  \/ handoff[l] = "taken" /\ Accepted(c, l)
           \/ owner[l] \notin Serving /\ Refused(c)
    /\ UNCHANGED <<outside, lease, meta, sock, owner, binary, handoff, mishaps>>

(* The endpoint is busy or slow: the client's read deadline passes.         *)
RequestFails(c) ==
    /\ client[c].pc \in {"exchange", "await"}
    /\ Spend
    /\ Refused(c)
    /\ UNCHANGED <<outside, lease, meta, sock, owner, binary, handoff>>

-------------------------------------------------------------------------------
(* start_owner_and_wait_ready: spawn, then poll for any Ready owner.        *)

Fresh(l) ==
    /\ owner[l] = "none"
    /\ sock # l
    /\ meta # None => meta.launch # l
    /\ \A c \in Clients :
         /\ client[c].conn # l /\ client[c].child # l
         /\ client[c].saved # None => client[c].saved.launch # l

SpawnOwner(c) ==
    /\ At(c, "spawn")
    /\ \E l \in Launches :
         /\ Fresh(l)
         /\ owner' = [owner EXCEPT ![l] = "waiting"]
         /\ binary' = [binary EXCEPT ![l] = BinaryOf[c]]
         /\ handoff' = [handoff EXCEPT ![l] = "no"]
         /\ client' = [client EXCEPT ![c] = [Idle EXCEPT !.cmd = client[c].cmd,
                                                         !.pc = "read",
                                                         !.child = l]]
    /\ UNCHANGED <<outside, files, said, mishaps>>

Killed(l) ==
    /\ owner' = [owner EXCEPT ![l] = "none"]
    /\ lease' = IF lease = l THEN None ELSE lease

PollChild(c) ==
    /\ At(c, "child")
    /\ LET l == client[c].child
       IN  \/ owner[l] = "none" /\ Refused(c) /\ Free /\ UNCHANGED <<owner, lease>>
           \/ owner[l] # "none" /\ Goto(c, "read") /\ Free /\ UNCHANGED <<owner, lease>>
           \/ owner[l] # "none" /\ Spend /\ Killed(l) /\ Refused(c)
    /\ UNCHANGED <<outside, meta, sock, binary, handoff>>

-------------------------------------------------------------------------------
(* inspect_runtime, and what start and repair make of it.                   *)

InspectLease(c) ==
    /\ At(c, "inspect")
    /\ \E held \in BOOLEAN :
         /\ Probes(held)
         /\ client' = [client EXCEPT ![c].held = held, ![c].pc = "inspect_metadata"]
    /\ UNCHANGED <<outside, files, owner, binary, handoff, said>>

Inspection(m, held, is_socket) ==
    CASE m = None -> IF held THEN "starting" ELSE "absent"
      [] m # None /\ m.state = "retryable" /\ ~held -> "absent"
      [] m # None /\ m.state = "Ready" /\ ~held /\ ~is_socket -> "absent"
      [] m # None /\ m.state = "Ready" /\ held /\ is_socket -> "ready"
      [] m # None /\ m.state = "config" /\ ~held -> "config_fault"
      [] OTHER -> IF held THEN "held_fault" ELSE "fault"

Concludes(c, m, found) ==
    LET asks(op) == /\ client' = [client EXCEPT ![c].pc = "read", ![c].op = op,
                                                ![c].saved = None]
                    /\ UNCHANGED <<gate, said>>
    IN  IF client[c].cmd = "start"
        THEN CASE found = "ready" ->
                    asks(IF binary[m.launch] = BinaryOf[c] THEN "signal" ELSE "handoff")
               [] found = "absent" \/ (found = "config_fault" /\ config = "good") ->
                    Goto(c, "spawn")
               [] OTHER -> Finish(c, None)
        ELSE CASE found = "ready" -> asks("repair")
               [] found \in {"absent", "config_fault", "fault"} -> Goto(c, "discard")
               [] OTHER -> Finish(c, None)

InspectMetadata(c) ==
    /\ At(c, "inspect_metadata")
    /\ IF meta # None /\ meta.state = "Ready"
       THEN /\ client' = [client EXCEPT ![c].saved = meta, ![c].pc = "inspect_socket"]
            /\ UNCHANGED <<gate, said>>
       ELSE Concludes(c, meta, Inspection(meta, client[c].held, FALSE))
    /\ UNCHANGED <<outside, lease, meta, sock, owner, binary, handoff, mishaps>>

InspectSocket(c) ==
    /\ At(c, "inspect_socket")
    /\ LET m == client[c].saved
       IN  Concludes(c, m, Inspection(m, client[c].held, sock # None))
    /\ UNCHANGED <<outside, lease, meta, sock, owner, binary, handoff, mishaps>>

(* wait_for_runtime_release polls until its deadline.                       *)
AwaitRelease(c) ==
    /\ At(c, "release")
    /\ \/ lease = None /\ Goto(c, "spawn") /\ Free
       \/ Spend /\ Finish(c, None)
    /\ UNCHANGED <<outside, lease, meta, sock, owner, binary, handoff>>

(* repair_discard by the client itself.                                     *)
DiscardState(c) ==
    /\ At(c, "discard")
    /\ store' = "valid"
    /\ Finish(c, None)
    /\ UNCHANGED <<session, config, lease, meta, sock, owner, binary, handoff, mishaps>>

-------------------------------------------------------------------------------
(* forget_stopped_session: no gate, three steps.                            *)

ForgetProbes(c) ==
    /\ At(c, "probe")
    /\ \E held \in BOOLEAN :
         /\ Probes(held)
         /\ IF held THEN Finish(c, None) ELSE Goto(c, "herdr")
    /\ UNCHANGED <<outside, lease, meta, sock, owner, binary, handoff>>

ForgetConnects(c) ==
    /\ At(c, "herdr")
    /\ IF session = "up" THEN Finish(c, None) ELSE Goto(c, "forget")
    /\ UNCHANGED <<outside, lease, meta, sock, owner, binary, handoff, mishaps>>

(* A store that does not load is left alone.                                *)
ForgetsState(c) ==
    /\ At(c, "forget")
    /\ Finish(c, None)
    /\ UNCHANGED <<outside, lease, meta, sock, owner, binary, handoff, mishaps>>

(* The client is killed; a child it spawned lives on.                       *)
ClientDies(c) ==
    /\ ~At(c, "idle")
    /\ Spend
    /\ Finish(c, None)
    /\ UNCHANGED <<outside, lease, meta, sock, owner, binary, handoff>>

-------------------------------------------------------------------------------
(* run_owned_session of launch l.                                           *)

Becomes(l, phase) == owner' = [owner EXCEPT ![l] = phase]
OwnerKeeps == UNCHANGED <<outside, gate, binary, client, said>>

(* A mistake to be caught (README, Mutants). *)
AcquireHeldLease(l) ==
    /\ owner[l] = "waiting"
    /\ lease' = l
    /\ Becomes(l, "checking")
    /\ OwnerKeeps /\ UNCHANGED <<meta, sock, handoff, mishaps>>
AcquireLease(l) ==
    /\ owner[l] = "waiting" /\ lease = None
    /\ lease' = l
    /\ Becomes(l, "checking")
    /\ OwnerKeeps /\ UNCHANGED <<meta, sock, handoff, mishaps>>

(* The lease stays taken, or the session is gone before it is resolved.     *)
GiveUpLease(l) ==
    /\ owner[l] = "waiting"
    /\ lease # None \/ session = "down"
    /\ Becomes(l, "none")
    /\ OwnerKeeps /\ UNCHANGED <<lease, meta, sock, handoff, mishaps>>

(* A live probe failed, be it that the session is gone, or legacy evidence  *)
(* lies beside the store: the process ends and records nothing.             *)
StartFails(l) ==
    /\ owner[l] = "checking"
    /\ IF session = "down" \/ store = "legacy" THEN Free ELSE Spend
    /\ Becomes(l, "failing")
    /\ OwnerKeeps /\ UNCHANGED <<lease, meta, sock, handoff>>

(* A status that says the server is not running is a mismatch, not a        *)
(* failure of the transport (validate_status), so it is recorded.           *)
InitialFault(l, cause) ==
    /\ owner[l] = "checking"
    /\ \/ cause = "config" /\ config = "bad" /\ Free
       \/ cause = "fatal" /\ session = "down" /\ Free
       \/ cause = "fatal" /\ session = "up" /\ "contract" \in Hazards /\ Spend
    /\ meta' = Faulted(l, cause)
    /\ Becomes(l, "failing")
    /\ OwnerKeeps /\ UNCHANGED <<lease, sock, handoff>>

(* bind_private_listener removes whatever socket lies at the path.          *)
BindEndpoint(l) ==
    /\ owner[l] = "checking"
    /\ session = "up" /\ config = "good" /\ store # "legacy"
    /\ sock' = l
    /\ Becomes(l, "bound")
    /\ OwnerKeeps /\ UNCHANGED <<lease, meta, handoff, mishaps>>

PublishReady(l) ==
    /\ owner[l] = "bound"
    /\ meta' = Ready(l)
    /\ Becomes(l, "ready")
    /\ OwnerKeeps /\ UNCHANGED <<lease, sock, handoff, mishaps>>

(* Every evaluation rewrites the metadata, whatever lies there.             *)
LoopWritesMetadata(l) ==
    /\ owner[l] = "ready"
    /\ meta' = Ready(l)
    /\ OwnerKeeps /\ UNCHANGED <<lease, sock, owner, handoff, mishaps>>

(* run_runtime_loop returns Ok: the session is gone, or a handoff is taken. *)
LoopEnds(l) ==
    /\ owner[l] = "ready"
    /\ \/ session = "down" /\ UNCHANGED handoff
       \/ handoff[l] = "queued" /\ handoff' = [handoff EXCEPT ![l] = "taken"]
    /\ Becomes(l, "retiring")
    /\ OwnerKeeps /\ UNCHANGED <<lease, meta, sock, mishaps>>

(* It returns an error: the store does not load.  The metadata is retained. *)
LoopFaults(l) ==
    /\ owner[l] = "ready" /\ store # "valid"
    /\ meta' = Faulted(l, "fatal")
    /\ Becomes(l, "closing")
    /\ OwnerKeeps /\ UNCHANGED <<lease, sock, handoff, mishaps>>

(* RuntimeArtifacts::drop, then the drop of the lease, then the exit.       *)
(* A mistake to be caught (README, Mutants). *)
DropMetadataAndLease(l) ==
    /\ owner[l] = "retiring"
    /\ meta' = IF meta # None /\ meta.launch = l THEN None ELSE meta
    /\ lease' = None
    /\ Becomes(l, "closing")
    /\ OwnerKeeps /\ UNCHANGED <<sock, handoff, mishaps>>
DropMetadata(l) ==
    /\ owner[l] = "retiring"
    /\ meta' = IF meta # None /\ meta.launch = l THEN None ELSE meta
    /\ Becomes(l, "closing")
    /\ OwnerKeeps /\ UNCHANGED <<lease, sock, handoff, mishaps>>

DropEndpoint(l) ==
    /\ owner[l] = "closing"
    /\ sock' = None
    /\ Becomes(l, "releasing")
    /\ OwnerKeeps /\ UNCHANGED <<lease, meta, handoff, mishaps>>

(* A process that never bound the endpoint serves nobody after that.        *)
ReleaseLease(l) ==
    /\ owner[l] \in {"failing", "releasing"}
    /\ lease' = None
    /\ Becomes(l, IF owner[l] = "failing" THEN "none" ELSE "leaving")
    /\ OwnerKeeps /\ UNCHANGED <<meta, sock, handoff, mishaps>>

ExitProcess(l) ==
    /\ owner[l] = "leaving"
    /\ Becomes(l, "none")
    /\ OwnerKeeps /\ UNCHANGED <<lease, meta, sock, handoff, mishaps>>

(* The kernel drops the lock; metadata and socket stay behind.              *)
OwnerCrashes(l) ==
    /\ owner[l] # "none"
    /\ Spend
    /\ Killed(l)
    /\ OwnerKeeps /\ UNCHANGED <<meta, sock, handoff>>

-------------------------------------------------------------------------------
(* The Herdr server, the user's editor and the disk.                        *)

World ==
    /\ Spend
    /\ \/ session' \in {"up", "down"} \ {session} /\ UNCHANGED <<config, store>>
       \/ config' \in {"good", "bad"} \ {config} /\ UNCHANGED <<session, store>>
       \/ /\ "damage" \in Hazards /\ store = "valid"
          /\ store' \in {"undecodable", "legacy"}
          /\ UNCHANGED <<session, config>>
    /\ UNCHANGED <<files, processes>>

ClientStep(c) ==
    \/ EnterGate(c) \/ ReadMetadata(c) \/ JudgeFault(c) \/ Connect(c)
    \/ Exchange(c) \/ AwaitHandoff(c) \/ SpawnOwner(c) \/ PollChild(c)
    \/ InspectLease(c) \/ InspectMetadata(c) \/ InspectSocket(c)
    \/ AwaitRelease(c) \/ DiscardState(c)
    \/ ForgetProbes(c) \/ ForgetConnects(c) \/ ForgetsState(c)

OwnerStep(l) ==
    \/ AcquireLease(l) \/ GiveUpLease(l) \/ StartFails(l)
    \/ \E cause \in {"config", "fatal"} : InitialFault(l, cause)
    \/ BindEndpoint(l) \/ PublishReady(l) \/ LoopEnds(l) \/ LoopFaults(l)
    \/ DropMetadata(l) \/ DropEndpoint(l) \/ ReleaseLease(l) \/ ExitProcess(l)

Next ==
    \/ \E c \in Clients : \/ \E cmd \in Programs : Begin(c, cmd)
                          \/ ClientStep(c) \/ RequestFails(c) \/ ClientDies(c)
    \/ \E l \in Launches : OwnerStep(l) \/ LoopWritesMetadata(l) \/ OwnerCrashes(l)
    \/ World

Spec == Init /\ [][Next]_vars

(* Processes that run are scheduled, and hooks keep coming.                 *)
Fairness ==
    /\ \A l \in Launches : WF_vars(OwnerStep(l))
    /\ \A c \in Clients : WF_vars(ClientStep(c)) /\ WF_vars(Begin(c, "ensure"))

FairSpec == Spec /\ Fairness

-------------------------------------------------------------------------------
(* Properties.                                                              *)

(* Every process past its wait for the lease is the holder of the lease, so *)
(* two runtimes never sample one session; and what a Ready runtime          *)
(* published stays in place until it withdraws it itself: no starting,      *)
(* dying, killed or recovering process takes its endpoint or its metadata.  *)
ReadyOwnerIsFound ==
    \A l \in Launches :
      /\ owner[l] \in Holding <=> lease = l
      /\ owner[l] = "ready" => sock = l /\ meta = Ready(l)

(* A command reports success only with an owner that got as far as Ready:   *)
(* what a crashed owner left on disk, and an endpoint opened before         *)
(* readiness is published, never pass for an owner (CONTEXT.md, Startup     *)
(* Gate: "a spawned PID or metadata record alone is not proof").            *)
SuccessMeansReady ==
    [][\A c \in Clients : said'[c] # None /\ said'[c] # said[c] =>
         owner[said'[c]] \in {"ready", "leaving"} \cup Closing]_vars

(* The lease, the endpoint and the metadata change only as SessionOwner     *)
(* allows: each is written by the holder of the lease alone.                *)
Abstract == INSTANCE SessionOwner WITH
    holder    <- lease,
    endpoint  <- sock,
    published <- IF meta # None /\ meta.state = "Ready" THEN meta.launch ELSE None

OwnershipIsExclusive == Abstract!Spec

SomeOwnerReady == \E l \in Launches : owner[l] = "ready"

SessionIsWell == session = "up" /\ config = "good" /\ store = "valid"
Terminal == meta # None /\ meta.state = "fatal"

(* While the session runs and the configuration loads, hooks bring back a   *)
(* Ready owner after any crash, kill, lost reply, busy gate, handoff or     *)
(* fixed configuration, and it stays (CONTEXT.md, Continuous Focused-Tab    *)
(* Freshness), unless a terminal fault is on record.                        *)
HooksRestoreOwner == <>[](SessionIsWell /\ ~Terminal) => <>[]SomeOwnerReady

(* The same whatever is on record: "When Herdr restores the session [...]   *)
(* exactly one new Session Runtime becomes Ready" (docs/install.md).        *)
RestoreBringsOwner == <>[]SessionIsWell => <>[]SomeOwnerReady
================================================================================
