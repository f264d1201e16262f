---------------------------- MODULE OwnershipProofs ----------------------------
(***************************************************************************)
(* Theorems about Ownership for any number of launches, clients and         *)
(* executables, any commands and any number of mishaps.                     *)
(***************************************************************************)
EXTENDS Ownership, TLAPS

-------------------------------------------------------------------------------
(* The inductive invariant.                                                 *)

(* What a client has learnt of the owner it speaks to.                      *)
Knows(c) ==
    /\ client[c].pc \in {"connect", "exchange", "await"} => client[c].saved.state = "Ready"
    /\ client[c].pc = "await" => client[c].op = "handoff"

(* A runtime holds the lease from its first look at the session to its last *)
(* act, and between the two owns the endpoint and the metadata.             *)
HolderOK(l) ==
    /\ owner[l] \in Holding <=> lease = l
    /\ owner[l] \in {"bound", "ready", "retiring", "closing"} => sock = l
    /\ owner[l] \in {"ready", "retiring"} => meta = Ready(l)

(* Nothing anywhere says of a runtime that it is Ready before it is.        *)
Early == {"waiting", "checking", "failing", "bound"}
UnpublishedOK(l) ==
    owner[l] \in Early =>
      /\ meta # Ready(l)
      /\ \A c \in Clients : client[c].saved # Ready(l)

OwnershipInv ==
    /\ TypeOK
    /\ \A c \in Clients : Knows(c)
    /\ \A l \in Launches : HolderOK(l) /\ UnpublishedOK(l)

-------------------------------------------------------------------------------
(* The moves of a client.                                                   *)

LEMMA RecordFacts ==
    /\ None \notin Meta /\ None \notin Launches /\ None \notin Clients
    /\ \A l \in Launches : Ready(l) \in Meta /\ Ready(l).launch = l /\ Ready(l).state = "Ready"
    /\ \A l \in Launches, cause \in {"config", "fatal"} :
         Faulted(l, cause) \in Meta /\ Faulted(l, cause).state = cause
         /\ Faulted(l, cause).launch = l
    /\ LegacyFault \in Meta /\ LegacyFault.state = "retryable"
    /\ \A m \in Meta : m.state = "Ready" => m = Ready(m.launch)
  BY OwnershipConstants DEF Ready, Faulted, LegacyFault, Meta, Maybe

(* What a step of client c does to its own record, to the gate and to what  *)
(* it reported: it reports an owner only after an exchange with it.         *)
Moves(c) ==
    /\ client' \in [Clients -> Client]
    /\ LocalsOK(c)' /\ Knows(c)'
    /\ client'[c].saved \in {None, client[c].saved, meta}
    /\ \A d \in Clients \ {c} : client'[d] = client[d] /\ said'[d] = said[d]
    /\ gate' \in Maybe(Clients)
    /\ said' \in [Clients -> Maybe(Launches)]
    /\ \/ said'[c] \in {said[c], None}
       \/ /\ client[c].pc = "exchange" /\ said'[c] = client[c].conn
          /\ owner[said'[c]] \in Serving /\ SameGeneration(c, said'[c])

(* The fields of a client.                                                  *)
LEMMA ClientFacts ==
    ASSUME TypeOK, NEW c \in Clients
    PROVE  /\ client[c] \in Client
           /\ client[c].cmd \in Programs /\ client[c].pc \in Places
           /\ client[c].op \in {"signal", "handoff", "repair"} /\ client[c].held \in BOOLEAN
           /\ client[c].saved \in Maybe(Meta) /\ client[c].conn \in Maybe(Launches)
           /\ client[c].child \in Maybe(Launches)
           /\ LocalsOK(c) /\ gate \in Maybe(Clients) /\ said \in [Clients -> Maybe(Launches)]
           /\ meta \in Maybe(Meta) /\ sock \in Maybe(Launches)
  BY DEF TypeOK, Client

LEMMA IdleFacts == Idle \in Client /\ Idle.pc = "idle" /\ Idle.saved = None
  BY DEF Idle, Client, Programs, Places, Maybe

LEMMA FinishMoves ==
    ASSUME TypeOK, NEW c \in Clients, NEW l \in Maybe(Launches), Finish(c, l),
           \/ l = None
           \/ /\ client[c].pc = "exchange" /\ l = client[c].conn
              /\ owner[l] \in Serving /\ SameGeneration(c, l)
    PROVE  Moves(c)
  <1>1. /\ client' \in [Clients -> Client] /\ client'[c] = Idle
        /\ \A d \in Clients \ {c} : client'[d] = client[d] /\ said'[d] = said[d]
        /\ said' \in [Clients -> Maybe(Launches)] /\ said'[c] = l
    BY ClientFacts, IdleFacts DEF Finish, TypeOK
  <1>2. gate' \in Maybe(Clients)
    BY DEF Finish, TypeOK, Maybe
  <1>3. LocalsOK(c)' /\ Knows(c)'
    BY <1>1, IdleFacts DEF LocalsOK, Knows
  <1> QED
    BY <1>1, <1>2, <1>3, IdleFacts DEF Moves

LEMMA ReturnsMoves ==
    ASSUME TypeOK, NEW c \in Clients, NEW pc \in {"child", "spawn", "release"}, Returns(c, pc),
           pc = "child" => client[c].child # None
    PROVE  Moves(c)
  <1> DEFINE x == [client[c] EXCEPT !.pc = pc, !.saved = None, !.conn = None]
  <1>1. /\ x \in Client /\ x.pc = pc /\ x.saved = None /\ x.child = client[c].child
    BY ClientFacts DEF Client, Places, Maybe
  <1>2. client' = [client EXCEPT ![c] = x]
    BY DEF Returns, TypeOK
  <1> HIDE DEF x
  <1>3. /\ client' \in [Clients -> Client] /\ client'[c] = x
        /\ \A d \in Clients \ {c} : client'[d] = client[d]
    BY <1>1, <1>2 DEF TypeOK
  <1>4. LocalsOK(c)' /\ Knows(c)'
    BY <1>1, <1>3 DEF LocalsOK, Knows
  <1>5. gate' = gate /\ said' = said
    BY DEF Returns
  <1> QED
    BY <1>1, <1>3, <1>4, <1>5, ClientFacts DEF Moves

LEMMA GotoMoves ==
    ASSUME TypeOK, NEW c \in Clients, NEW pc \in {"spawn", "discard", "herdr", "forget", "read"},
           Goto(c, pc)
    PROVE  Moves(c)
  <1> DEFINE x == [client[c] EXCEPT !.pc = pc]
  <1>1. /\ x \in Client /\ x.pc = pc /\ x.saved = client[c].saved
    BY ClientFacts DEF Client, Places
  <1>2. client' = [client EXCEPT ![c] = x]
    BY DEF Goto, TypeOK
  <1> HIDE DEF x
  <1>3. /\ client' \in [Clients -> Client] /\ client'[c] = x
        /\ \A d \in Clients \ {c} : client'[d] = client[d]
    BY <1>1, <1>2 DEF TypeOK
  <1>4. LocalsOK(c)' /\ Knows(c)'
    BY <1>1, <1>3 DEF LocalsOK, Knows
  <1>5. gate' = gate /\ said' = said
    BY DEF Goto
  <1> QED
    BY <1>1, <1>3, <1>4, <1>5, ClientFacts DEF Moves

(* A move of the program counter that reads something on the way.           *)
LEMMA RecordMoves ==
    ASSUME TypeOK, NEW c \in Clients, NEW x \in Client,
           client' = [client EXCEPT ![c] = x], gate' = gate \/ gate' = c, said' = said,
           x.saved \in {None, client[c].saved, meta},
           x.pc \in {"judge", "connect", "exchange", "await", "inspect_socket"} => x.saved # None,
           x.pc \in {"exchange", "await"} => x.conn # None,
           x.pc = "child" => x.child # None,
           x.pc \in {"connect", "exchange", "await"} => x.saved.state = "Ready",
           x.pc = "await" => x.op = "handoff"
    PROVE  Moves(c)
  <1>1. /\ client' \in [Clients -> Client] /\ client'[c] = x
        /\ \A d \in Clients \ {c} : client'[d] = client[d]
    BY DEF TypeOK
  <1>2. LocalsOK(c)' /\ Knows(c)'
    BY <1>1 DEF LocalsOK, Knows
  <1>3. gate' \in Maybe(Clients)
    BY DEF TypeOK, Maybe
  <1> QED
    BY <1>1, <1>2, <1>3, ClientFacts DEF Moves

LEMMA UnansweredMoves ==
    ASSUME TypeOK, NEW c \in Clients, Unanswered(c)
    PROVE  Moves(c)
  BY ReturnsMoves, FinishMoves DEF Unanswered, Maybe

LEMMA RefusedMoves ==
    ASSUME TypeOK, NEW c \in Clients, Refused(c)
    PROVE  Moves(c)
  BY FinishMoves DEF Refused, Maybe

LEMMA ConcludesMoves ==
    ASSUME TypeOK, NEW c \in Clients, NEW m, NEW found, Concludes(c, m, found)
    PROVE  Moves(c)
  <1>1. ASSUME NEW op \in {"signal", "handoff", "repair"},
               client' = [client EXCEPT ![c].pc = "read", ![c].op = op, ![c].saved = None],
               UNCHANGED <<gate, said>>
        PROVE  Moves(c)
    <2> DEFINE x == [client[c] EXCEPT !.pc = "read", !.op = op, !.saved = None]
    <2>1. x \in Client /\ x.pc = "read" /\ x.saved = None
      BY ClientFacts DEF Client, Places, Maybe
    <2>2. client' = [client EXCEPT ![c] = x]
      BY <1>1 DEF TypeOK
    <2> HIDE DEF x
    <2> QED
      BY <1>1, <2>1, <2>2, RecordMoves
  <1>2. CASE Finish(c, None)
    BY <1>2, FinishMoves DEF Maybe
  <1>3. CASE Goto(c, "spawn") \/ Goto(c, "discard")
    BY <1>3, GotoMoves
  <1> QED
    BY <1>1, <1>2, <1>3 DEF Concludes

(* Before it speaks to an owner, and after.                                 *)
LEMMA ReadMoves ==
    ASSUME TypeOK, NEW c \in Clients, Knows(c),
           EnterGate(c) \/ ReadMetadata(c) \/ JudgeFault(c) \/ Connect(c)
    PROVE  Moves(c)
  <1>1. CASE EnterGate(c)
    <2>1. CASE gate = None
      <3> DEFINE x == [client[c] EXCEPT !.pc = IF client[c].cmd = "ensure" THEN "read" ELSE "inspect"]
      <3>1. x \in Client /\ x.pc \in {"read", "inspect"} /\ x.saved = client[c].saved
        BY ClientFacts DEF Client, Places
      <3>2. client' = [client EXCEPT ![c] = x] /\ gate' = c /\ said' = said
        BY <1>1, <2>1 DEF EnterGate, TypeOK
      <3> HIDE DEF x
      <3> QED
        BY <3>1, <3>2, RecordMoves
    <2>2. CASE gate # None
      BY <1>1, <2>2, FinishMoves DEF EnterGate, Maybe
    <2> QED
      BY <2>1, <2>2
  <1>2. CASE ReadMetadata(c)
    <2>1. CASE meta = None
      BY <1>2, <2>1, UnansweredMoves DEF ReadMetadata
    <2>2. CASE meta # None
      <3> DEFINE pc == IF meta.state = "Ready" THEN "connect" ELSE "judge"
                 x == [client[c] EXCEPT !.saved = meta, !.pc = pc]
      <3>1. /\ x \in Client /\ x.saved = meta /\ x.pc \in {"connect", "judge"}
            /\ x.pc = "connect" => meta.state = "Ready"
        BY <2>2, ClientFacts DEF Client, Places
      <3>2. client' = [client EXCEPT ![c] = x] /\ UNCHANGED <<gate, said>>
        BY <1>2, <2>2 DEF ReadMetadata, TypeOK
      <3> HIDE DEF x
      <3> QED
        BY <2>2, <3>1, <3>2, RecordMoves
    <2> QED
      BY <2>1, <2>2
  <1>3. CASE JudgeFault(c)
    BY <1>3, UnansweredMoves, RefusedMoves DEF JudgeFault
  <1>4. CASE Connect(c)
    <2>1. CASE sock # None /\ owner[sock] \in Serving
      <3> DEFINE x == [client[c] EXCEPT !.conn = sock, !.pc = "exchange"]
      <3>1. /\ x \in Client /\ x.saved = client[c].saved /\ x.pc = "exchange" /\ x.conn = sock
        BY ClientFacts DEF Client, Places
      <3>2. client' = [client EXCEPT ![c] = x] /\ UNCHANGED <<gate, said>>
        BY <1>4, <2>1 DEF Connect, TypeOK
      <3>3. client[c].saved # None /\ client[c].saved.state = "Ready"
        BY <1>4, ClientFacts DEF Connect, At, LocalsOK, Knows
      <3> HIDE DEF x
      <3> QED
        BY <2>1, <3>1, <3>2, <3>3, RecordMoves
    <2>2. CASE ~(sock # None /\ owner[sock] \in Serving)
      BY <1>4, <2>2, UnansweredMoves DEF Connect
    <2> QED
      BY <2>1, <2>2
  <1> QED
    BY <1>1, <1>2, <1>3, <1>4

LEMMA ExchangeMoves ==
    ASSUME TypeOK, NEW c \in Clients, Knows(c), Exchange(c) \/ AwaitHandoff(c) \/ RequestFails(c)
    PROVE  Moves(c)
  <1>1. CASE Refused(c) \/ Unanswered(c)
    BY <1>1, RefusedMoves, UnansweredMoves
  <1>2. CASE Exchange(c)
    <2> DEFINE l == client[c].conn
    <2>1. /\ client[c].pc = "exchange" /\ client[c].saved # None /\ l \in Launches
          /\ client[c].saved.state = "Ready" /\ client[c].saved \in Meta
      BY <1>2, ClientFacts DEF Exchange, At, LocalsOK, Knows, Maybe
    <2>2. CASE /\ owner[l] \in Serving /\ SameGeneration(c, l) /\ client[c].op = "handoff"
               /\ Goto(c, "await")
      <3> DEFINE x == [client[c] EXCEPT !.pc = "await"]
      <3>1. /\ x \in Client /\ x.pc = "await" /\ x.saved = client[c].saved
            /\ x.conn = client[c].conn /\ x.op = client[c].op
        BY ClientFacts DEF Client, Places
      <3>2. client' = [client EXCEPT ![c] = x] /\ UNCHANGED <<gate, said>>
        BY <2>2 DEF Goto, TypeOK
      <3>3. x.conn # None
        BY <2>1, <3>1, RecordFacts
      <3> HIDE DEF x
      <3> QED
        BY <2>1, <2>2, <3>1, <3>2, <3>3, RecordMoves
    <2>3. CASE /\ owner[l] \in Serving /\ SameGeneration(c, l) /\ client[c].op # "handoff"
               /\ Accepted(c, l)
      BY <2>1, <2>3, FinishMoves DEF Accepted, Maybe
    <2> QED
      BY <1>1, <1>2, <2>2, <2>3 DEF Exchange
  <1>3. CASE AwaitHandoff(c)
    <2>1. client[c].op = "handoff"
      BY <1>3 DEF AwaitHandoff, At, Knows
    <2>2. Refused(c) \/ Returns(c, "release")
      BY <1>3, <2>1 DEF AwaitHandoff, Accepted
    <2> QED
      BY <1>1, <2>2, ReturnsMoves
  <1>4. CASE RequestFails(c)
    BY <1>1, <1>4 DEF RequestFails
  <1> QED
    BY <1>2, <1>3, <1>4

LEMMA OtherMoves ==
    ASSUME TypeOK, NEW c \in Clients, Knows(c),
           \/ SpawnOwner(c) \/ PollChild(c)
           \/ InspectLease(c) \/ InspectMetadata(c) \/ InspectSocket(c)
           \/ AwaitRelease(c) \/ DiscardState(c)
           \/ ForgetProbes(c) \/ ForgetConnects(c) \/ ForgetsState(c) \/ ClientDies(c)
    PROVE  Moves(c)
  <1>1. CASE SpawnOwner(c)
    <2>1. PICK l \in Launches :
            client' = [client EXCEPT ![c] = [Idle EXCEPT !.cmd = client[c].cmd, !.pc = "read",
                                                         !.child = l]]
      BY <1>1 DEF SpawnOwner
    <2> DEFINE x == [Idle EXCEPT !.cmd = client[c].cmd, !.pc = "read", !.child = l]
    <2>2. x \in Client /\ x.pc = "read" /\ x.saved = None
      BY ClientFacts, IdleFacts DEF Idle, Client, Places, Maybe
    <2>3. UNCHANGED <<gate, said>>
      BY <1>1 DEF SpawnOwner, files
    <2> HIDE DEF x
    <2> QED
      BY <2>1, <2>2, <2>3, RecordMoves DEF x
  <1>2. CASE PollChild(c)
    BY <1>2, RefusedMoves, GotoMoves DEF PollChild
  <1>3. CASE InspectLease(c)
    <2>1. PICK held \in BOOLEAN :
            client' = [client EXCEPT ![c].held = held, ![c].pc = "inspect_metadata"]
      BY <1>3 DEF InspectLease
    <2> DEFINE x == [client[c] EXCEPT !.held = held, !.pc = "inspect_metadata"]
    <2>2. x \in Client /\ x.pc = "inspect_metadata" /\ x.saved = client[c].saved
      BY ClientFacts DEF Client, Places
    <2>3. client' = [client EXCEPT ![c] = x] /\ UNCHANGED <<gate, said>>
      BY <1>3, <2>1 DEF InspectLease, files, TypeOK
    <2> HIDE DEF x
    <2> QED
      BY <2>2, <2>3, RecordMoves
  <1>4. CASE InspectMetadata(c)
    <2>1. CASE meta # None /\ meta.state = "Ready"
      <3> DEFINE x == [client[c] EXCEPT !.saved = meta, !.pc = "inspect_socket"]
      <3>1. x \in Client /\ x.pc = "inspect_socket" /\ x.saved = meta
        BY ClientFacts DEF Client, Places
      <3>2. client' = [client EXCEPT ![c] = x] /\ UNCHANGED <<gate, said>>
        BY <1>4, <2>1 DEF InspectMetadata, TypeOK
      <3> HIDE DEF x
      <3> QED
        BY <2>1, <3>1, <3>2, RecordMoves
    <2>2. CASE ~(meta # None /\ meta.state = "Ready")
      BY <1>4, <2>2, ConcludesMoves DEF InspectMetadata
    <2> QED
      BY <2>1, <2>2
  <1>5. CASE InspectSocket(c)
    BY <1>5, ConcludesMoves DEF InspectSocket
  <1>6. CASE AwaitRelease(c) \/ ForgetProbes(c) \/ ForgetConnects(c)
    BY <1>6, FinishMoves, GotoMoves DEF AwaitRelease, ForgetProbes, ForgetConnects, Maybe
  <1>7. CASE DiscardState(c) \/ ForgetsState(c) \/ ClientDies(c)
    BY <1>7, FinishMoves DEF DiscardState, ForgetsState, ClientDies, Maybe
  <1> QED
    BY <1>1, <1>2, <1>3, <1>4, <1>5, <1>6, <1>7

LEMMA BeginMoves ==
    ASSUME TypeOK, NEW c \in Clients, NEW cmd \in Programs, Begin(c, cmd)
    PROVE  Moves(c)
  <1> DEFINE x == [Idle EXCEPT !.cmd = cmd, !.pc = IF cmd = "forget" THEN "probe" ELSE "gate"]
  <1>1. x \in Client /\ x.pc \in {"probe", "gate"} /\ x.saved = None
    BY IdleFacts DEF Idle, Client, Places, Maybe
  <1>2. client' = [client EXCEPT ![c] = x] /\ gate' = gate /\ said' = [said EXCEPT ![c] = None]
    BY DEF Begin, files
  <1> HIDE DEF x
  <1>3. /\ client' \in [Clients -> Client] /\ client'[c] = x
        /\ \A d \in Clients \ {c} : client'[d] = client[d] /\ said'[d] = said[d]
        /\ said' \in [Clients -> Maybe(Launches)] /\ said'[c] = None
    BY <1>1, <1>2 DEF TypeOK, Maybe
  <1>4. LocalsOK(c)' /\ Knows(c)'
    BY <1>1, <1>3 DEF LocalsOK, Knows
  <1> QED
    BY <1>1, <1>2, <1>3, <1>4, ClientFacts DEF Moves

(* Everything a command does.                                               *)
Commanded(c) == \/ \E cmd \in Programs : Begin(c, cmd)
                \/ ClientStep(c) \/ RequestFails(c) \/ ClientDies(c)

LEMMA ClientMoves ==
    ASSUME TypeOK, NEW c \in Clients, Knows(c), Commanded(c)
    PROVE  Moves(c)
  BY ReadMoves, ExchangeMoves, OtherMoves, BeginMoves DEF Commanded, ClientStep

-------------------------------------------------------------------------------
(* What a command does to what is not its own.                              *)

Spawns(l) == Fresh(l) /\ owner' = [owner EXCEPT ![l] = "waiting"] /\ lease' = lease

LEMMA ClientLaunches ==
    ASSUME TypeOK, NEW c \in Clients, Commanded(c)
    PROVE  /\ meta' = meta /\ sock' = sock
           /\ \/ owner' = owner /\ lease' = lease
              \/ \E l \in Launches : Spawns(l) \/ Killed(l)
  <1>1. CASE SpawnOwner(c)
    BY <1>1 DEF SpawnOwner, Spawns, files
  <1>2. CASE PollChild(c)
    <2>1. client[c].child \in Launches
      BY <1>2, ClientFacts DEF PollChild, At, LocalsOK, Maybe
    <2> QED
      BY <1>2, <2>1 DEF PollChild
  <1>3. CASE \/ EnterGate(c) \/ ReadMetadata(c) \/ JudgeFault(c) \/ Connect(c)
             \/ Exchange(c) \/ AwaitHandoff(c) \/ RequestFails(c)
    BY <1>3 DEF EnterGate, ReadMetadata, JudgeFault, Connect, Exchange, AwaitHandoff, RequestFails
  <1>4. CASE \/ InspectLease(c) \/ InspectMetadata(c) \/ InspectSocket(c)
             \/ AwaitRelease(c) \/ DiscardState(c)
             \/ ForgetProbes(c) \/ ForgetConnects(c) \/ ForgetsState(c) \/ ClientDies(c)
             \/ \E cmd \in Programs : Begin(c, cmd)
    BY <1>4 DEF InspectLease, InspectMetadata, InspectSocket, AwaitRelease, DiscardState,
                ForgetProbes, ForgetConnects, ForgetsState, ClientDies, Begin, files
  <1> QED
    BY <1>1, <1>2, <1>3, <1>4 DEF Commanded, ClientStep

LEMMA SpendType ==
    ASSUME TypeOK, Spend \/ Free
    PROVE  mishaps' \in 0..MaxMishaps
  BY OwnershipConstants DEF TypeOK, Spend, Free

LEMMA ClientOutside ==
    ASSUME TypeOK, NEW c \in Clients, Commanded(c)
    PROVE  /\ session' = session /\ config' = config
           /\ store' \in {store, "valid"}
           /\ binary' \in [Launches -> Maybe(Binaries)]
           /\ handoff' \in [Launches -> {"no", "queued", "taken"}]
           /\ mishaps' \in 0..MaxMishaps
  <1>1. CASE SpawnOwner(c)
    <2>1. PICK l \in Launches : /\ binary' = [binary EXCEPT ![l] = BinaryOf[c]]
                               /\ handoff' = [handoff EXCEPT ![l] = "no"]
      BY <1>1 DEF SpawnOwner
    <2>2. UNCHANGED <<session, config, store, mishaps>>
      BY <1>1 DEF SpawnOwner, outside
    <2>3. BinaryOf[c] \in Binaries
      BY OwnershipConstants
    <2> QED
      BY <2>1, <2>2, <2>3 DEF TypeOK, Maybe
  <1>2. CASE PollChild(c)
    BY <1>2, SpendType DEF PollChild, outside, TypeOK
  <1>3. CASE JudgeFault(c) \/ InspectLease(c) \/ ForgetProbes(c)
    BY <1>3, SpendType DEF JudgeFault, InspectLease, ForgetProbes, Probes, outside, TypeOK
  <1>4. CASE EnterGate(c) \/ ReadMetadata(c) \/ Connect(c) \/ AwaitHandoff(c)
    BY <1>4 DEF EnterGate, ReadMetadata, Connect, AwaitHandoff, outside, TypeOK
  <1>5. CASE Exchange(c)
    <2>1. handoff' \in {handoff, [handoff EXCEPT ![client[c].conn] = "queued"]}
          /\ store' \in {store, "valid"}
      BY <1>5 DEF Exchange
    <2> QED
      BY <1>5, <2>1 DEF Exchange, TypeOK
  <1>6. CASE InspectMetadata(c) \/ InspectSocket(c) \/ DiscardState(c) \/ ForgetConnects(c)
             \/ ForgetsState(c)
    BY <1>6 DEF InspectMetadata, InspectSocket, DiscardState, ForgetConnects, ForgetsState,
                outside, TypeOK
  <1>7. CASE AwaitRelease(c) \/ ClientDies(c) \/ RequestFails(c)
    BY <1>7, SpendType DEF AwaitRelease, ClientDies, RequestFails, outside, TypeOK
  <1>8. ASSUME NEW cmd \in Programs, Begin(c, cmd)
        PROVE  /\ session' = session /\ config' = config /\ store' = store /\ binary' = binary
               /\ handoff' = handoff /\ mishaps' \in 0..MaxMishaps
    BY <1>8, SpendType DEF Begin, outside
  <1> QED
    BY <1>1, <1>2, <1>3, <1>4, <1>5, <1>6, <1>7, <1>8 DEF Commanded, ClientStep, TypeOK

(* The processes and the lease, after a step of anybody.                    *)
LEMMA KilledType ==
    ASSUME TypeOK, NEW l \in Launches, Killed(l)
    PROVE  owner' \in [Launches -> Phases] /\ lease' \in Maybe(Launches)
  BY DEF TypeOK, Killed, Phases, Maybe

LEMMA ClientType ==
    ASSUME TypeOK, \A c \in Clients : Knows(c), NEW c \in Clients, Commanded(c)
    PROVE  TypeOK' /\ \A d \in Clients : Knows(d)'
  <1>1. Moves(c)
    BY ClientMoves
  <1>2. owner' \in [Launches -> Phases] /\ lease' \in Maybe(Launches)
    BY ClientLaunches, KilledType DEF Spawns, TypeOK, Phases
  <1>3. \A d \in Clients : LocalsOK(d)' /\ Knows(d)'
    <2> SUFFICES ASSUME NEW d \in Clients PROVE LocalsOK(d)' /\ Knows(d)'
      OBVIOUS
    <2>1. CASE d = c
      BY <1>1, <2>1 DEF Moves
    <2>2. CASE d # c
      <3>1. client'[d] = client[d]
        BY <1>1, <2>2 DEF Moves
      <3> QED
        BY <3>1 DEF LocalsOK, Knows, TypeOK
    <2> QED
      BY <2>1, <2>2
  <1>4. meta' \in Maybe(Meta) /\ sock' \in Maybe(Launches) /\ store' \in {"valid", "undecodable", "legacy"}
    BY ClientLaunches, ClientOutside DEF TypeOK
  <1> QED
    BY <1>1, <1>2, <1>3, <1>4, ClientOutside DEF TypeOK, Moves

-------------------------------------------------------------------------------
(* The steps of a runtime, and of the world.                                *)

Owned(l) == OwnerStep(l) \/ LoopWritesMetadata(l) \/ OwnerCrashes(l)

LEMMA OwnerKeepsFacts ==
    ASSUME NEW l \in Launches, Owned(l)
    PROVE  UNCHANGED <<session, config, store, gate, binary, client, said>>
  BY DEF Owned, OwnerStep, AcquireLease, GiveUpLease, StartFails, InitialFault, BindEndpoint,
         PublishReady, LoopEnds, LoopFaults, DropMetadata, DropEndpoint, ReleaseLease,
         ExitProcess, LoopWritesMetadata, OwnerCrashes, OwnerKeeps, outside

LEMMA OwnerType ==
    ASSUME TypeOK, NEW l \in Launches, Owned(l)
    PROVE  TypeOK'
  <1>1. owner' \in [Launches -> Phases] /\ lease' \in Maybe(Launches)
    <2>1. CASE OwnerCrashes(l)
      BY <2>1, KilledType DEF OwnerCrashes
    <2>2. CASE LoopWritesMetadata(l)
      BY <2>2 DEF LoopWritesMetadata, TypeOK
    <2>3. CASE OwnerStep(l)
      BY <2>3 DEF OwnerStep, AcquireLease, GiveUpLease, StartFails, InitialFault, BindEndpoint,
                  PublishReady, LoopEnds, LoopFaults, DropMetadata, DropEndpoint, ReleaseLease,
                  ExitProcess, Becomes, TypeOK, Phases, Holding, Serving, Closing, Maybe
    <2> QED
      BY <2>1, <2>2, <2>3 DEF Owned
  <1>2. meta' \in Maybe(Meta) /\ sock' \in Maybe(Launches)
    BY RecordFacts
    DEF Owned, OwnerStep, AcquireLease, GiveUpLease, StartFails, InitialFault, BindEndpoint,
        PublishReady, LoopEnds, LoopFaults, DropMetadata, DropEndpoint, ReleaseLease,
        ExitProcess, LoopWritesMetadata, OwnerCrashes, OwnerKeeps, TypeOK, Maybe
  <1>3. Spend \/ Free
    BY DEF Owned, OwnerStep, AcquireLease, GiveUpLease, StartFails, InitialFault, BindEndpoint,
        PublishReady, LoopEnds, LoopFaults, DropMetadata, DropEndpoint, ReleaseLease,
        ExitProcess, LoopWritesMetadata, OwnerCrashes, Free
  <1>4. handoff' \in {handoff, [handoff EXCEPT ![l] = "taken"]}
    BY DEF Owned, OwnerStep, AcquireLease, GiveUpLease, StartFails, InitialFault, BindEndpoint,
        PublishReady, LoopEnds, LoopFaults, DropMetadata, DropEndpoint, ReleaseLease,
        ExitProcess, LoopWritesMetadata, OwnerCrashes
  <1>5. handoff' \in [Launches -> {"no", "queued", "taken"}] /\ mishaps' \in 0..MaxMishaps
    BY <1>3, <1>4, SpendType DEF TypeOK
  <1> QED
    BY <1>1, <1>2, <1>5, OwnerKeepsFacts DEF TypeOK, LocalsOK

LEMMA WorldType ==
    ASSUME TypeOK, World \/ UNCHANGED vars
    PROVE  TypeOK'
  BY SpendType DEF World, vars, outside, files, processes, TypeOK, LocalsOK

-------------------------------------------------------------------------------
(* The invariant.                                                           *)

LEMMA ClientHolder ==
    ASSUME OwnershipInv, NEW c \in Clients, Commanded(c), NEW l \in Launches
    PROVE  HolderOK(l)' /\ UnpublishedOK(l)'
  <1>1. /\ TypeOK /\ HolderOK(l) /\ UnpublishedOK(l) /\ Moves(c)
        /\ meta' = meta /\ sock' = sock
    BY ClientMoves, ClientLaunches DEF OwnershipInv
  <1>2. ASSUME meta # Ready(l), \A d \in Clients : client[d].saved # Ready(l)
        PROVE  meta' # Ready(l) /\ \A d \in Clients : client'[d].saved # Ready(l)
    <2>1. None # Ready(l)
      BY RecordFacts
    <2>2. /\ client'[c].saved \in {None, client[c].saved, meta}
          /\ \A d \in Clients \ {c} : client'[d] = client[d]
      BY <1>1 DEF Moves
    <2> QED
      BY <1>1, <1>2, <2>1, <2>2
  <1>3. CASE owner' = owner /\ lease' = lease
    BY <1>1, <1>2, <1>3 DEF HolderOK, UnpublishedOK
  <1>4. ASSUME NEW k \in Launches, Spawns(k) PROVE HolderOK(l)' /\ UnpublishedOK(l)'
    <2>1. /\ owner[k] = "none" /\ owner'[k] = "waiting" /\ lease' = lease
          /\ \A q \in Launches \ {k} : owner'[q] = owner[q]
      BY <1>1, <1>4 DEF Spawns, Fresh, TypeOK
    <2>2. CASE l = k
      <3>1. meta # Ready(l) /\ \A d \in Clients : client[d].saved # Ready(l)
        BY <1>4, <2>2, RecordFacts DEF Spawns, Fresh
      <3> QED
        BY <1>1, <1>2, <2>1, <2>2, <3>1
        DEF HolderOK, UnpublishedOK, Holding, Closing
    <2>3. CASE l # k
      BY <1>1, <1>2, <2>1, <2>3 DEF HolderOK, UnpublishedOK
    <2> QED
      BY <2>2, <2>3
  <1>5. ASSUME NEW k \in Launches, Killed(k) PROVE HolderOK(l)' /\ UnpublishedOK(l)'
    <2>1. /\ owner'[k] = "none" /\ lease' = IF lease = k THEN None ELSE lease
          /\ \A q \in Launches \ {k} : owner'[q] = owner[q]
      BY <1>1, <1>5 DEF Killed, TypeOK
    <2>2. None \notin Launches
      BY RecordFacts
    <2>3. CASE l = k
      BY <1>1, <2>1, <2>2, <2>3 DEF HolderOK, UnpublishedOK, Holding, Closing, Early
    <2>4. CASE l # k
      BY <1>1, <1>2, <2>1, <2>2, <2>4 DEF HolderOK, UnpublishedOK
    <2> QED
      BY <2>3, <2>4
  <1> QED
    BY <1>1, <1>3, <1>4, <1>5, ClientLaunches

(* What runtime k does leaves the others as they were.                      *)
LEMMA OwnerHolder ==
    ASSUME OwnershipInv, NEW k \in Launches, Owned(k), NEW l \in Launches
    PROVE  HolderOK(l)' /\ UnpublishedOK(l)'
  <1>1. /\ TypeOK /\ HolderOK(l) /\ UnpublishedOK(l) /\ HolderOK(k) /\ UnpublishedOK(k)
        /\ client' = client /\ None \notin Launches
    BY OwnerKeepsFacts, RecordFacts DEF OwnershipInv
  <1>2. \A q \in Launches : Ready(q) = Ready(l) => q = l
    BY DEF Ready
  <1>3. CASE AcquireLease(k)
    <2>1. /\ owner[k] = "waiting" /\ lease = None /\ lease' = k /\ owner'[k] = "checking"
          /\ meta' = meta /\ sock' = sock /\ \A q \in Launches \ {k} : owner'[q] = owner[q]
      BY <1>1, <1>3 DEF AcquireLease, Becomes, TypeOK
    <2> QED
      BY <1>1, <2>1 DEF HolderOK, UnpublishedOK, Early, Holding, Closing
  <1>4. CASE GiveUpLease(k)
    <2>1. /\ owner[k] = "waiting" /\ owner'[k] = "none" /\ lease' = lease
          /\ meta' = meta /\ sock' = sock /\ \A q \in Launches \ {k} : owner'[q] = owner[q]
      BY <1>1, <1>4 DEF GiveUpLease, Becomes, TypeOK
    <2> QED
      BY <1>1, <2>1 DEF HolderOK, UnpublishedOK, Early, Holding, Closing
  <1>5. CASE StartFails(k)
    <2>1. /\ owner[k] = "checking" /\ owner'[k] = "failing" /\ lease' = lease
          /\ meta' = meta /\ sock' = sock /\ \A q \in Launches \ {k} : owner'[q] = owner[q]
      BY <1>1, <1>5 DEF StartFails, Becomes, TypeOK
    <2> QED
      BY <1>1, <2>1 DEF HolderOK, UnpublishedOK, Early, Holding, Closing
  <1>6. ASSUME NEW cause \in {"config", "fatal"}, InitialFault(k, cause)
        PROVE  HolderOK(l)' /\ UnpublishedOK(l)'
    <2>1. /\ owner[k] = "checking" /\ owner'[k] = "failing" /\ lease' = lease
          /\ meta' = Faulted(k, cause) /\ sock' = sock
          /\ \A q \in Launches \ {k} : owner'[q] = owner[q]
      BY <1>1, <1>6 DEF InitialFault, Becomes, TypeOK
    <2>2. meta' # Ready(l)
      BY <2>1, RecordFacts
    <2>3. lease = k
      BY <1>1, <2>1 DEF HolderOK, Holding
    <2> QED
      BY <1>1, <2>1, <2>2, <2>3 DEF HolderOK, UnpublishedOK, Early, Holding, Closing
  <1>7. CASE BindEndpoint(k)
    <2>1. /\ owner[k] = "checking" /\ owner'[k] = "bound" /\ lease' = lease
          /\ meta' = meta /\ sock' = k
          /\ \A q \in Launches \ {k} : owner'[q] = owner[q]
      BY <1>1, <1>7 DEF BindEndpoint, Becomes, TypeOK
    <2>2. lease = k
      BY <1>1, <2>1 DEF HolderOK, Holding
    <2> QED
      BY <1>1, <2>1, <2>2 DEF HolderOK, UnpublishedOK, Early, Holding, Closing
  <1>8. CASE PublishReady(k) \/ LoopWritesMetadata(k)
    <2>1. /\ owner[k] \in {"bound", "ready"} /\ owner'[k] = "ready" /\ lease' = lease
          /\ meta' = Ready(k) /\ sock' = sock
          /\ \A q \in Launches \ {k} : owner'[q] = owner[q]
      BY <1>1, <1>8 DEF PublishReady, LoopWritesMetadata, Becomes, TypeOK
    <2>2. lease = k /\ sock = k
      BY <1>1, <2>1 DEF HolderOK, Holding
    <2> QED
      BY <1>1, <1>2, <2>1, <2>2 DEF HolderOK, UnpublishedOK, Early, Holding, Closing
  <1>9. CASE LoopEnds(k)
    <2>1. /\ owner[k] = "ready" /\ owner'[k] = "retiring" /\ lease' = lease
          /\ meta' = meta /\ sock' = sock
          /\ \A q \in Launches \ {k} : owner'[q] = owner[q]
      BY <1>1, <1>9 DEF LoopEnds, Becomes, TypeOK
    <2> QED
      BY <1>1, <2>1 DEF HolderOK, UnpublishedOK, Early, Holding, Closing
  <1>10. CASE LoopFaults(k)
    <2>1. /\ owner[k] = "ready" /\ owner'[k] = "closing" /\ lease' = lease
          /\ meta' = Faulted(k, "fatal") /\ sock' = sock
          /\ \A q \in Launches \ {k} : owner'[q] = owner[q]
      BY <1>1, <1>10 DEF LoopFaults, Becomes, TypeOK
    <2>2. meta' # Ready(l) /\ lease = k
      BY <1>1, <2>1, RecordFacts DEF HolderOK, Holding
    <2> QED
      BY <1>1, <2>1, <2>2 DEF HolderOK, UnpublishedOK, Early, Holding, Closing
  <1>11. CASE DropMetadata(k)
    <2>1. /\ owner[k] = "retiring" /\ owner'[k] = "closing" /\ lease' = lease
          /\ meta' \in {meta, None} /\ sock' = sock
          /\ \A q \in Launches \ {k} : owner'[q] = owner[q]
      BY <1>1, <1>11 DEF DropMetadata, Becomes, TypeOK
    <2>2. lease = k /\ None # Ready(l)
      BY <1>1, <2>1, RecordFacts DEF HolderOK, Holding, Closing
    <2> QED
      BY <1>1, <2>1, <2>2 DEF HolderOK, UnpublishedOK, Early, Holding, Closing
  <1>12. CASE DropEndpoint(k)
    <2>1. /\ owner[k] = "closing" /\ owner'[k] = "releasing" /\ lease' = lease
          /\ meta' = meta /\ sock' = None
          /\ \A q \in Launches \ {k} : owner'[q] = owner[q]
      BY <1>1, <1>12 DEF DropEndpoint, Becomes, TypeOK
    <2>2. lease = k
      BY <1>1, <2>1 DEF HolderOK, Holding, Closing
    <2> QED
      BY <1>1, <2>1, <2>2 DEF HolderOK, UnpublishedOK, Early, Holding, Closing
  <1>13. CASE ReleaseLease(k)
    <2>1. /\ owner[k] \in {"failing", "releasing"} /\ owner'[k] \in {"none", "leaving"}
          /\ lease' = None /\ meta' = meta /\ sock' = sock
          /\ \A q \in Launches \ {k} : owner'[q] = owner[q]
      BY <1>1, <1>13 DEF ReleaseLease, Becomes, TypeOK
    <2>2. lease = k
      BY <1>1, <2>1 DEF HolderOK, Holding, Closing
    <2> QED
      BY <1>1, <2>1, <2>2 DEF HolderOK, UnpublishedOK, Early, Holding, Closing
  <1>14. CASE ExitProcess(k)
    <2>1. /\ owner[k] = "leaving" /\ owner'[k] = "none" /\ lease' = lease
          /\ meta' = meta /\ sock' = sock
          /\ \A q \in Launches \ {k} : owner'[q] = owner[q]
      BY <1>1, <1>14 DEF ExitProcess, Becomes, TypeOK
    <2> QED
      BY <1>1, <2>1 DEF HolderOK, UnpublishedOK, Early, Holding, Closing
  <1>15. CASE OwnerCrashes(k)
    <2>1. /\ owner'[k] = "none" /\ lease' = IF lease = k THEN None ELSE lease
          /\ meta' = meta /\ sock' = sock
          /\ \A q \in Launches \ {k} : owner'[q] = owner[q]
      BY <1>1, <1>15 DEF OwnerCrashes, Killed, TypeOK
    <2> QED
      BY <1>1, <2>1 DEF HolderOK, UnpublishedOK, Early, Holding, Closing
  <1> QED
    BY <1>3, <1>4, <1>5, <1>6, <1>7, <1>8, <1>9, <1>10, <1>11, <1>12, <1>13, <1>14, <1>15
    DEF Owned, OwnerStep

LEMMA InitOwnership == Init => OwnershipInv
  <1> SUFFICES ASSUME Init PROVE OwnershipInv
    OBVIOUS
  <1>1. TypeOK
    BY RecordFacts, IdleFacts, OwnershipConstants
    DEF Init, TypeOK, LocalsOK, Phases, Maybe
  <1>2. \A c \in Clients : Knows(c)
    BY IdleFacts DEF Init, Knows
  <1>3. ASSUME NEW l \in Launches PROVE HolderOK(l) /\ UnpublishedOK(l)
    BY RecordFacts DEF Init, HolderOK, UnpublishedOK, Holding, Closing, Early
  <1> QED
    BY <1>1, <1>2, <1>3 DEF OwnershipInv

LEMMA NextOwnership == OwnershipInv /\ [Next]_vars => OwnershipInv'
  <1> SUFFICES ASSUME OwnershipInv, [Next]_vars PROVE OwnershipInv'
    OBVIOUS
  <1>0. TypeOK /\ \A c \in Clients : Knows(c)
    BY DEF OwnershipInv
  <1>1. ASSUME NEW c \in Clients, Commanded(c) PROVE OwnershipInv'
    BY <1>0, <1>1, ClientType, ClientHolder DEF OwnershipInv
  <1>2. ASSUME NEW k \in Launches, Owned(k) PROVE OwnershipInv'
    <2>1. \A c \in Clients : Knows(c)'
      BY <1>0, <1>2, OwnerKeepsFacts DEF Knows
    <2> QED
      BY <1>0, <1>2, <2>1, OwnerType, OwnerHolder DEF OwnershipInv
  <1>3. CASE World \/ UNCHANGED vars
    <2>1. UNCHANGED <<lease, meta, sock, owner, client>>
      BY <1>3 DEF World, vars, files, processes
    <2>2. TypeOK' /\ \A c \in Clients : Knows(c)'
      BY <1>0, <1>3, <2>1, WorldType DEF Knows
    <2>3. \A l \in Launches : HolderOK(l)' /\ UnpublishedOK(l)'
      BY <2>1 DEF OwnershipInv, HolderOK, UnpublishedOK
    <2> QED
      BY <2>2, <2>3 DEF OwnershipInv
  <1> QED
    BY <1>1, <1>2, <1>3 DEF Next, Commanded, Owned

(* The invariant holds whatever processes are started, killed or replaced.  *)
THEOREM OwnershipInvariant == Spec => []OwnershipInv
  BY InitOwnership, NextOwnership, PTL DEF Spec

-------------------------------------------------------------------------------
(* What the invariant gives.                                                *)

(* Locks, metadata and the records of commands hold what they are for, and  *)
(* a client that exchanges messages knows whom it speaks to (TypeOK;        *)
(* request_ready_owner, start_owner_and_wait_ready).                        *)
THEOREM TypeCorrect == Spec => []TypeOK
  <1>1. OwnershipInv => TypeOK
    BY DEF OwnershipInv
  <1> QED
    BY <1>1, OwnershipInvariant, PTL

(* A runtime past its wait holds the lease, whoever else was started,       *)
(* killed or replaced, and what a Ready one published is in place           *)
(* (ReadyOwnerIsFound; run_owned_session).                                  *)
THEOREM ReadyOwnerFound == Spec => []ReadyOwnerIsFound
  <1>1. OwnershipInv => ReadyOwnerIsFound
    BY DEF OwnershipInv, HolderOK, ReadyOwnerIsFound
  <1> QED
    BY <1>1, OwnershipInvariant, PTL

(* No command reports success with an owner that never got as far as Ready  *)
(* (SuccessMeansReady; request_ready_owner compares the generation of the   *)
(* metadata it read with that of the reply).                                *)
THEOREM SuccessIsReady == Spec => SuccessMeansReady
  <1> DEFINE Honest(c) == said'[c] # None /\ said'[c] # said[c] =>
                            owner[said'[c]] \in {"ready", "leaving"} \cup Closing
  <1>1. OwnershipInv /\ [Next]_vars => [\A c \in Clients : Honest(c)]_vars
    <2> SUFFICES ASSUME OwnershipInv, Next, NEW c \in Clients PROVE Honest(c)
      OBVIOUS
    <2>1. ASSUME NEW d \in Clients, Commanded(d), said'[c] # None, said'[c] # said[c]
          PROVE  owner[said'[c]] \in {"ready", "leaving"} \cup Closing
      <3>1. /\ TypeOK /\ Knows(d) /\ Moves(d)
        BY <2>1, ClientMoves DEF OwnershipInv
      <3>2. d = c
        BY <2>1, <3>1 DEF Moves
      <3>3. /\ client[c].pc = "exchange" /\ said'[c] = client[c].conn
            /\ owner[said'[c]] \in Serving /\ client[c].saved.launch = said'[c]
        BY <2>1, <3>1, <3>2 DEF Moves, SameGeneration
      <3>4. /\ client[c].saved \in Meta /\ client[c].saved.state = "Ready"
            /\ said'[c] \in Launches
        BY <2>1, <3>1, <3>2, <3>3, ClientFacts DEF LocalsOK, Knows, Maybe
      <3>5. client[c].saved = Ready(said'[c])
        BY <3>3, <3>4, RecordFacts
      <3>6. PICK l \in Launches : l = said'[c]
        BY <3>4
      <3>7. owner[l] \notin Early
        BY <3>5, <3>6 DEF OwnershipInv, UnpublishedOK
      <3> QED
        BY <3>3, <3>6, <3>7 DEF Serving, Early, Closing
    <2>2. CASE \E d \in Clients : Commanded(d)
      BY <2>1, <2>2
    <2>3. CASE \E l \in Launches : Owned(l)
      BY <2>3, OwnerKeepsFacts
    <2>4. CASE World
      BY <2>4 DEF World, processes
    <2> QED
      BY <2>2, <2>3, <2>4 DEF Next, Commanded, Owned
  <1> QED
    BY <1>1, OwnershipInvariant, PTL DEF Spec, SuccessMeansReady

-------------------------------------------------------------------------------
(* Ownership implements SessionOwner.                                       *)

Published == IF meta # None /\ meta.state = "Ready" THEN meta.launch ELSE None

LEMMA PublishedFacts ==
    /\ meta = None => Published = None
    /\ \A l \in Launches : meta = Ready(l) => Published = l
    /\ \A l \in Launches, cause \in {"config", "fatal"} :
         meta = Faulted(l, cause) => Published = None
    /\ meta = LegacyFault => Published = None
  BY RecordFacts DEF Published

(* The same of the next state.                                              *)
LEMMA PublishedNext ==
    /\ meta' = None => Published' = None
    /\ \A l \in Launches : meta' = Ready(l) => Published' = l
    /\ \A l \in Launches, cause \in {"config", "fatal"} :
         meta' = Faulted(l, cause) => Published' = None
    /\ meta' = meta => Published' = Published
  BY RecordFacts DEF Published

LEMMA KilledReleases ==
    ASSUME NEW l \in Launches, Killed(l), sock' = sock, Published' = Published
    PROVE  [Abstract!Next]_<<lease, sock, Published>>
  BY RecordFacts DEF Killed, Abstract!Next, Abstract!Release, Published

LEMMA OwnerImplements ==
    ASSUME OwnershipInv, NEW l \in Launches, Owned(l)
    PROVE  [Abstract!Next]_<<lease, sock, Published>>
  <1>0. TypeOK /\ HolderOK(l) /\ None # l
    BY RecordFacts DEF OwnershipInv
  <1>1. CASE AcquireLease(l)
    <2>1. lease = None /\ lease' = l /\ sock' = sock /\ Published' = Published
      BY <1>1, PublishedNext DEF AcquireLease
    <2> QED
      BY <2>1 DEF Abstract!Next, Abstract!Acquire, Published
  <1>2. CASE GiveUpLease(l) \/ StartFails(l) \/ LoopEnds(l) \/ ExitProcess(l)
    BY <1>2, PublishedNext DEF GiveUpLease, StartFails, LoopEnds, ExitProcess
  <1>3. CASE (\E cause \in {"config", "fatal"} : InitialFault(l, cause)) \/ LoopFaults(l)
    <2>1. lease = l /\ lease' = lease /\ sock' = sock
      BY <1>0, <1>3 DEF InitialFault, LoopFaults, HolderOK, Holding
    <2>2. Published' = None
      BY <1>3, PublishedNext DEF InitialFault, LoopFaults
    <2> QED
      BY <1>0, <2>1, <2>2 DEF Abstract!Next, Abstract!Withdraw, Published
  <1>4. CASE BindEndpoint(l)
    <2>1. lease = l /\ lease' = lease /\ sock' = l /\ Published' = Published
      BY <1>0, <1>4, PublishedNext DEF BindEndpoint, HolderOK, Holding
    <2> QED
      BY <1>0, <2>1 DEF Abstract!Next, Abstract!Open, Published
  <1>5. CASE PublishReady(l) \/ LoopWritesMetadata(l)
    <2>1. lease = l /\ sock = l /\ lease' = lease /\ sock' = sock /\ Published' = l
      BY <1>0, <1>5, PublishedNext DEF PublishReady, LoopWritesMetadata, HolderOK, Holding
    <2> QED
      BY <1>0, <2>1 DEF Abstract!Next, Abstract!Publish, Published
  <1>6. CASE DropMetadata(l)
    <2>1. lease = l /\ meta = Ready(l) /\ lease' = lease /\ sock' = sock
      BY <1>0, <1>6 DEF DropMetadata, HolderOK, Holding, Closing
    <2>2. Published' = None
      BY <1>6, <2>1, RecordFacts, PublishedNext DEF DropMetadata
    <2> QED
      BY <1>0, <2>1, <2>2 DEF Abstract!Next, Abstract!Withdraw, Published
  <1>7. CASE DropEndpoint(l)
    <2>1. lease = l /\ sock = l /\ lease' = lease /\ sock' = None /\ Published' = Published
      BY <1>0, <1>7, PublishedNext DEF DropEndpoint, HolderOK, Holding, Closing
    <2> QED
      BY <1>0, <2>1 DEF Abstract!Next, Abstract!Close, Published
  <1>8. CASE ReleaseLease(l)
    <2>1. lease = l /\ lease' = None /\ sock' = sock /\ Published' = Published
      BY <1>0, <1>8, PublishedNext DEF ReleaseLease, HolderOK, Holding, Closing
    <2> QED
      BY <1>0, <2>1 DEF Abstract!Next, Abstract!Release, Published
  <1>9. CASE OwnerCrashes(l)
    BY <1>9, PublishedNext, KilledReleases DEF OwnerCrashes
  <1> QED
    BY <1>1, <1>2, <1>3, <1>4, <1>5, <1>6, <1>7, <1>8, <1>9 DEF Owned, OwnerStep

LEMMA StepImplements ==
    OwnershipInv /\ [Next]_vars => [Abstract!Next]_<<lease, sock, Published>>
  <1> SUFFICES ASSUME OwnershipInv, [Next]_vars
               PROVE  [Abstract!Next]_<<lease, sock, Published>>
    OBVIOUS
  <1>1. ASSUME NEW c \in Clients, Commanded(c)
        PROVE  [Abstract!Next]_<<lease, sock, Published>>
    <2>1. /\ sock' = sock /\ Published' = Published
          /\ lease' = lease \/ \E l \in Launches : Killed(l)
      BY <1>1, ClientLaunches, PublishedNext DEF OwnershipInv, Spawns
    <2> QED
      BY <2>1, KilledReleases
  <1>2. ASSUME NEW l \in Launches, Owned(l)
        PROVE  [Abstract!Next]_<<lease, sock, Published>>
    BY <1>2, OwnerImplements
  <1>3. CASE World \/ UNCHANGED vars
    BY <1>3, PublishedNext DEF World, vars, files
  <1> QED
    BY <1>1, <1>2, <1>3 DEF Next, Commanded, Owned

(* The lease, the endpoint and the metadata of the code change only as the  *)
(* documented ownership allows, so nobody but the holder of the lease       *)
(* writes them (OwnershipIsExclusive; docs/adr/0010).                       *)
THEOREM ImplementsSessionOwner == Spec => OwnershipIsExclusive
  <1>1. Init => Abstract!Init
    BY PublishedFacts DEF Init, Abstract!Init, Published
  <1>2. OwnershipInv /\ [Next]_vars => [Abstract!Next]_(Abstract!vars)
    BY StepImplements DEF Abstract!vars, Published
  <1> QED
    BY <1>1, <1>2, OwnershipInvariant, PTL DEF Spec, OwnershipIsExclusive, Abstract!Spec
===============================================================================
