---------------------------- MODULE ControlEndpoint ----------------------------
(***************************************************************************)
(* The control endpoint of one Ready owner (session_runtime.rs): the        *)
(* acceptor thread, its worker threads, the mailbox and run_runtime_loop,   *)
(* which takes commands before triggers and triggers before its alarm.      *)
(*                                                                          *)
(* A step is what a thread does under one lock, or between two channel      *)
(* operations.  Every deadline (a worker's for its command, the loop's for  *)
(* the written reply, a client's for its reply) may pass at any time.       *)
(***************************************************************************)
EXTENDS Naturals, Sequences, FiniteSets

CONSTANTS
    Requests,       \* the connections clients open
    Ids,            \* request ids
    None,
    IdOf,           \* [Requests -> Ids]
    Kind,           \* [Requests -> Kinds]
    Workers,        \* CONTROL_WORKER_COUNT
    QueueLimit,     \* CONTROL_WORKER_QUEUE
    RecentLimit     \* CONTROL_RECENT_REQUEST_IDS

(* "focus" stands for every trigger the loop acts on (startup, focus and    *)
(* manual), "mutate" for every command but PrepareHandoff.                  *)
Kinds == {"creation", "focus", "mutate", "handoff"}

ASSUME EndpointConstants ==
    /\ IdOf \in [Requests -> Ids]
    /\ Kind \in [Requests -> Kinds]
    /\ Workers \in Nat \ {0} /\ QueueLimit \in Nat /\ RecentLimit \in Nat
    /\ None \notin Kinds \cup {"ok", "error", "accepted", "rejected"}

VARIABLES
    work,               \* connections accepted and not yet taken by a worker
    req,                \* req[r]: how far request r is
    reply,              \* reply[r]: what its client was told, if anything
    recent,             \* RecentControlRequests
    pending_trigger,    \* TriggerMailboxState.pending_trigger
    commands,           \* TriggerMailboxState.commands
    handoff_requested,  \* TriggerMailboxState.handoff_requested
    completion,         \* completion[r]: the result the loop sent for command r
    loop,               \* what run_runtime_loop is doing
    applied,            \* history: how often command r took effect
    admitted,           \* history: the requests whose id was new, in order
    owed                \* history: an accepted trigger the loop has to act on

mailbox == <<pending_trigger, commands, handoff_requested>>
vars    == <<work, req, reply, recent, mailbox, completion, loop, applied, admitted, owed>>
history == <<applied, admitted, owed>>

Maybe(S) == S \cup {None}
Stages   == {"new", "queued", "known", "posted", "answered"}
Loop     == {"waiting", "sampling", "finishing", "ended", "gone"}
Handling == {"known", "posted"}

TypeOK ==
    /\ work \in Seq(Requests) /\ Len(work) <= QueueLimit
    /\ req \in [Requests -> Stages]
    /\ Cardinality({r \in Requests : req[r] \in Handling}) <= Workers
    /\ reply \in [Requests -> Maybe({"accepted", "rejected"})]
    /\ recent \in Seq(Ids) /\ Len(recent) <= RecentLimit
    /\ pending_trigger \in Maybe({"creation", "focus"})
    /\ commands \in Seq(Requests)
    /\ handoff_requested \in BOOLEAN
    /\ completion \in [Requests -> Maybe({"ok", "error"})]
    /\ loop \in Loop
    /\ applied \in [Requests -> Nat]
    /\ admitted \in Seq(Requests)
    /\ owed \in BOOLEAN

Init ==
    /\ work = <<>>
    /\ req = [r \in Requests |-> "new"]
    /\ reply = [r \in Requests |-> None]
    /\ recent = <<>>
    /\ pending_trigger = None
    /\ commands = <<>>
    /\ handoff_requested = FALSE
    /\ completion = [r \in Requests |-> None]
    /\ loop = "waiting"
    /\ applied = [r \in Requests |-> 0]
    /\ admitted = <<>>
    /\ owed = FALSE

Alive == loop # "gone"

Answer(r, verdict) ==
    /\ req' = [req EXCEPT ![r] = "answered"]
    /\ reply' = [reply EXCEPT ![r] = verdict]

-------------------------------------------------------------------------------
(* The acceptor: a full queue is answered at once.                          *)

Accept(r) ==
    /\ Alive /\ req[r] = "new"
    /\ IF Len(work) < QueueLimit
       THEN /\ work' = Append(work, r)
            /\ req' = [req EXCEPT ![r] = "queued"]
            /\ UNCHANGED reply
       ELSE Answer(r, "rejected") /\ UNCHANGED work
    /\ UNCHANGED <<recent, mailbox, completion, loop, history>>

(* RecentControlRequests::remember, of an id not yet known.                 *)
(* Mistakes to be caught (README, Mutants). *)
RememberedForever(id) == Append(recent, id)
RememberedEvictsEarly(id) ==
    IF Len(recent) + 1 >= RecentLimit THEN Tail(Append(recent, id)) ELSE Append(recent, id)
Remembered(id) ==
    IF Len(recent) + 1 > RecentLimit THEN Tail(Append(recent, id)) ELSE Append(recent, id)

Known(id) == \E i \in 1..Len(recent) : recent[i] = id

(* A worker is busy from the connection it takes to the reply it writes.    *)
(* A mistake to be caught (README, Mutants). *)
BusyAfterRejection == {r \in Requests : req[r] \in Handling \/ reply[r] = "rejected"}
Busy == {r \in Requests : req[r] \in Handling}

(* A free worker takes the next connection, reads the request and checks    *)
(* its id; an unreadable or foreign request is rejected before that.        *)
WorkerTakes ==
    /\ Alive /\ work # <<>>
    /\ Cardinality(Busy) < Workers
    /\ LET r == Head(work)
       IN  /\ work' = Tail(work)
           /\ \/ Answer(r, "rejected") /\ UNCHANGED <<recent, admitted>>
              \/ /\ ~Known(IdOf[r])
                 /\ recent' = Remembered(IdOf[r])
                 /\ admitted' = Append(admitted, r)
                 /\ req' = [req EXCEPT ![r] = "known"]
                 /\ UNCHANGED reply
    /\ UNCHANGED <<mailbox, completion, loop, applied, owed>>

(* TriggerSender::send_trigger.                                             *)
(* A mistake to be caught (README, Mutants). *)
CoalescedToLatest(trigger) == trigger
Coalesced(trigger) ==
    IF trigger = "creation" /\ pending_trigger # None THEN pending_trigger ELSE trigger

SendTrigger(r) ==
    /\ Alive /\ req[r] = "known" /\ Kind[r] \in {"creation", "focus"}
    /\ IF handoff_requested
       THEN Answer(r, "rejected") /\ UNCHANGED <<pending_trigger, owed>>
       ELSE /\ pending_trigger' = Coalesced(Kind[r])
            /\ owed' = (owed \/ Kind[r] = "focus")
            /\ Answer(r, "accepted")
    /\ UNCHANGED <<work, recent, commands, handoff_requested, completion, loop,
                   applied, admitted>>

(* TriggerSender::enqueue_mutation; a PrepareHandoff that does not name     *)
(* another executable, the peer's own, is rejected before.                  *)
(* A mistake to be caught (README, Mutants). *)
ClosesMailboxNever(r) == handoff_requested
ClosesMailbox(r) == handoff_requested \/ Kind[r] = "handoff"

EnqueueMutation(r) ==
    /\ Alive /\ req[r] = "known" /\ Kind[r] \in {"mutate", "handoff"}
    /\ \/ /\ handoff_requested \/ Kind[r] = "handoff"
          /\ Answer(r, "rejected")
          /\ UNCHANGED <<commands, handoff_requested>>
       \/ /\ ~handoff_requested
          /\ commands' = Append(commands, r)
          /\ handoff_requested' = ClosesMailbox(r)
          /\ req' = [req EXCEPT ![r] = "posted"]
          /\ UNCHANGED reply
    /\ UNCHANGED <<work, recent, pending_trigger, completion, loop, history>>

(* The worker hears the result of its command, or stops waiting for it.     *)
(* A mistake to be caught (README, Mutants). *)
VerdictOnTimeout(r) == IF completion[r] = "error" THEN "rejected" ELSE "accepted"
Verdict(r) == IF completion[r] = "ok" THEN "accepted" ELSE "rejected"

WorkerAnswers(r) ==
    /\ Alive /\ req[r] = "posted"
    /\ Answer(r, Verdict(r))
    /\ UNCHANGED <<work, recent, mailbox, completion, loop, history>>

-------------------------------------------------------------------------------
(* run_runtime_loop and TriggerReceiver::recv_until.                        *)

Complete(r, result) ==
    /\ commands' = Tail(commands)
    /\ completion' = [completion EXCEPT ![r] = result]
    /\ applied' = [applied EXCEPT ![r] = IF result = "ok" THEN @ + 1 ELSE @]
    /\ UNCHANGED <<work, req, reply, recent, pending_trigger, handoff_requested,
                   admitted, owed>>

TakeMutation ==
    /\ loop = "waiting" /\ commands # <<>> /\ Kind[Head(commands)] = "mutate"
    /\ \E result \in {"ok", "error"} : Complete(Head(commands), result)
    /\ UNCHANGED loop

(* The loop answers, waits for the reply to be written, and returns.        *)
HandoffLeads(next) ==
    /\ loop = "waiting" /\ commands # <<>> /\ Kind[Head(commands)] = "handoff"
    /\ Complete(Head(commands), "ok")
    /\ loop' = next
(* A mistake to be caught (README, Mutants). *)
TakeHandoffAndStay == HandoffLeads("waiting")
TakeHandoff == HandoffLeads("finishing")

(* A creation trigger is dropped, any other restarts the quiet window.      *)
TakeTrigger ==
    /\ loop = "waiting" /\ commands = <<>> /\ pending_trigger # None
    /\ pending_trigger' = None
    /\ owed' = (owed /\ pending_trigger = "creation")
    /\ UNCHANGED <<work, req, reply, recent, commands, handoff_requested,
                   completion, loop, applied, admitted>>

(* The alarm: an evaluation, during which the mailbox fills.                *)
StartSampling ==
    /\ loop = "waiting" /\ commands = <<>> /\ pending_trigger = None
    /\ loop' = "sampling"
    /\ UNCHANGED <<work, req, reply, recent, mailbox, completion, history>>

(* It ends, or it proves that the session stopped, or it faults.            *)
EndSampling ==
    /\ loop = "sampling"
    /\ loop' \in {"waiting", "ended"}
    /\ UNCHANGED <<work, req, reply, recent, mailbox, completion, history>>

FinishHandoff ==
    /\ loop = "finishing"
    /\ loop' = "ended"
    /\ UNCHANGED <<work, req, reply, recent, mailbox, completion, history>>

(* The lease is released and the process ends, its threads with it.         *)
ProcessExits ==
    /\ loop = "ended"
    /\ loop' = "gone"
    /\ UNCHANGED <<work, req, reply, recent, mailbox, completion, history>>

Receives == TakeMutation \/ TakeHandoff \/ TakeTrigger
Runs     == EndSampling \/ FinishHandoff \/ ProcessExits

Worker(r) == SendTrigger(r) \/ EnqueueMutation(r) \/ WorkerAnswers(r)

Next ==
    \/ \E r \in Requests : Accept(r) \/ Worker(r)
    \/ WorkerTakes \/ Receives \/ StartSampling \/ Runs

Spec == Init /\ [][Next]_vars

(* Every thread of the process that can go on does.                         *)
Fairness ==
    /\ WF_vars(WorkerTakes) /\ WF_vars(Receives) /\ WF_vars(Runs)
    /\ \A r \in Requests : WF_vars(Worker(r))

FairSpec == Spec /\ Fairness

-------------------------------------------------------------------------------
(* Properties.                                                              *)

(* A client that is told its command succeeded finds it applied, and no     *)
(* command is applied twice, whatever deadlines passed between the worker   *)
(* and the loop.                                                            *)
AcceptedMeansApplied ==
    \A r \in Requests :
      /\ applied[r] <= 1
      /\ Kind[r] \in {"mutate", "handoff"} /\ reply[r] = "accepted" => applied[r] = 1

(* A request id that returns is let in again only after RecentLimit others  *)
(* were (RecentControlRequests).                                            *)
NoReplay ==
    \A i, j \in 1..Len(admitted) :
      i < j /\ IdOf[admitted[i]] = IdOf[admitted[j]] => j - i > RecentLimit

(* When the loop takes a handoff nothing is left behind it: every command   *)
(* that got into the mailbox was completed (enqueue_mutation refuses what   *)
(* comes after the handoff).                                                *)
HandoffIsLast ==
    loop = "finishing" =>
      /\ commands = <<>>
      /\ \A r \in Requests : req[r] = "posted" => completion[r] # None

(* A focus, startup or manual trigger that was accepted is not lost to a    *)
(* later creation trigger, which the loop ignores (send_trigger).           *)
ActionableTriggerKept == owed => pending_trigger = "focus"

(* Every connection is answered, or its process ends, whatever its workers  *)
(* and the loop were busy with.                                             *)
EveryRequestIsAnswered ==
    \A r \in Requests : req[r] # "new" ~> req[r] = "answered" \/ loop = "gone"

(* A handoff that got into the mailbox ends the owner, even when the        *)
(* worker, and the client, stopped waiting for it.                          *)
HandoffEndsOwner ==
    (\E i \in 1..Len(commands) : Kind[commands[i]] = "handoff") ~> loop = "gone"
================================================================================
