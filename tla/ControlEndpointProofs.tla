------------------------- MODULE ControlEndpointProofs -------------------------
(***************************************************************************)
(* Theorems about ControlEndpoint for any number of connections, workers,   *)
(* ids, any queue and any memory of ids.                                    *)
(***************************************************************************)
EXTENDS ControlEndpoint, SequenceTheorems, FiniteSetTheorems, TLAPS

-------------------------------------------------------------------------------
(* The inductive invariant.                                                 *)

Commands == {"mutate", "handoff"}

(* The requests a worker handles are finitely many.                         *)
WorkersOK == IsFiniteSet(Busy)

(* A connection waits once for a worker, and for no other reason.           *)
WorkOK ==
    /\ \A i \in 1..Len(work) : req[work[i]] = "queued"
    /\ \A i, j \in 1..Len(work) : work[i] = work[j] => i = j

(* A command is in the mailbox once, and is not completed while it is there. *)
InMailbox(r) == \E i \in 1..Len(commands) : commands[i] = r
MailboxOK ==
    /\ \A i \in 1..Len(commands) :
         /\ Kind[commands[i]] \in Commands
         /\ completion[commands[i]] = None
         /\ req[commands[i]] \in {"posted", "answered"}
    /\ \A i, j \in 1..Len(commands) : commands[i] = commands[j] => i = j

(* What the result of a command says of the command, its worker and client. *)
ResultsOK ==
    \A r \in Requests :
      /\ applied[r] = IF completion[r] = "ok" THEN 1 ELSE 0
      /\ req[r] \in {"new", "queued", "known"} => completion[r] = None /\ reply[r] = None
      /\ req[r] = "posted" => Kind[r] \in Commands /\ (InMailbox(r) \/ completion[r] # None)
      /\ Kind[r] \in Commands /\ reply[r] = "accepted" => completion[r] = "ok"

(* The mailbox is closed behind a handoff for good.                         *)
HandoffOK ==
    /\ \A i \in 1..Len(commands) :
         Kind[commands[i]] = "handoff" => i = Len(commands) /\ handoff_requested
    /\ loop = "finishing" => handoff_requested /\ commands = <<>>

(* The ids that are remembered are the last ones that were let in.          *)
RecentOK ==
    /\ Len(recent) = IF Len(admitted) <= RecentLimit THEN Len(admitted) ELSE RecentLimit
    /\ \A i \in 1..Len(recent) :
         recent[i] = IdOf[admitted[Len(admitted) - Len(recent) + i]]

EndpointInv ==
    /\ TypeOK /\ WorkersOK /\ WorkOK /\ MailboxOK /\ ResultsOK /\ HandoffOK
    /\ RecentOK /\ NoReplay /\ ActionableTriggerKept

-------------------------------------------------------------------------------
(* Sequences, once and for all.                                             *)

LEMMA TailFacts ==
    ASSUME NEW S, NEW s \in Seq(S), s # <<>>
    PROVE  /\ Len(s) \in Nat /\ Len(s) > 0 /\ Head(s) = s[1] /\ s[1] \in S
           /\ Tail(s) \in Seq(S) /\ Len(Tail(s)) = Len(s) - 1
           /\ \A i \in 1..Len(Tail(s)) : i + 1 \in 1..Len(s) /\ Tail(s)[i] = s[i + 1]
  BY HeadTailProperties, EmptySeq, LenProperties

LEMMA AppendFacts ==
    ASSUME NEW S, NEW s \in Seq(S), NEW e \in S
    PROVE  /\ Len(s) \in Nat /\ Append(s, e) \in Seq(S) /\ Len(Append(s, e)) = Len(s) + 1
           /\ \A i \in 1..Len(s) : Append(s, e)[i] = s[i]
           /\ Append(s, e)[Len(s) + 1] = e
           /\ \A i \in 1..Len(Append(s, e)) : i \in 1..Len(s) \/ i = Len(s) + 1
  BY AppendProperties, LenProperties

(* An element of a sequence is one of its range.                            *)
LEMMA ElementFacts ==
    ASSUME NEW S, NEW s \in Seq(S)
    PROVE  Len(s) \in Nat /\ \A i \in 1..Len(s) : s[i] \in S
  BY ElementOfSeq, LenProperties

(* RecentControlRequests keeps the last RecentLimit of what it was given.    *)
LEMMA RememberedFacts ==
    ASSUME recent \in Seq(Ids), Len(recent) <= RecentLimit, NEW id \in Ids
    PROVE  /\ Remembered(id) \in Seq(Ids)
           /\ Len(Remembered(id)) =
                IF Len(recent) < RecentLimit THEN Len(recent) + 1 ELSE RecentLimit
           /\ \A i \in 1..Len(Remembered(id)) :
                LET at == i + (Len(recent) + 1 - Len(Remembered(id)))
                IN  at \in 1..(Len(recent) + 1)
                    /\ Remembered(id)[i] = IF at = Len(recent) + 1 THEN id ELSE recent[at]
  <1> DEFINE longer == Append(recent, id)
  <1>1. /\ longer \in Seq(Ids) /\ longer # <<>> /\ Len(longer) = Len(recent) + 1
        /\ \A i \in 1..Len(recent) : longer[i] = recent[i]
        /\ longer[Len(recent) + 1] = id /\ Len(recent) \in Nat /\ RecentLimit \in Nat
    BY AppendProperties, LenProperties, EndpointConstants
  <1> HIDE DEF longer
  <1>2. CASE Len(recent) + 1 > RecentLimit
    <2>1. Remembered(id) = Tail(longer) /\ Len(recent) = RecentLimit
      BY <1>1, <1>2 DEF Remembered, longer
    <2>2. /\ Tail(longer) \in Seq(Ids) /\ Len(Tail(longer)) = RecentLimit
          /\ \A i \in 1..Len(Tail(longer)) : Tail(longer)[i] = longer[i + 1]
      BY <1>1, <2>1, HeadTailProperties
    <2> QED
      BY <1>1, <2>1, <2>2
  <1>3. CASE ~(Len(recent) + 1 > RecentLimit)
    <2>1. Remembered(id) = longer
      BY <1>3 DEF Remembered, longer
    <2> QED
      BY <1>1, <1>3, <2>1
  <1> QED
    BY <1>2, <1>3

-------------------------------------------------------------------------------
(* Types.                                                                   *)

USE DEF Maybe

LEMMA AnswerFacts ==
    ASSUME TypeOK, WorkersOK, NEW r \in Requests, NEW verdict \in {"accepted", "rejected"},
           Answer(r, verdict)
    PROVE  /\ req' \in [Requests -> Stages] /\ reply' \in [Requests -> Maybe({"accepted", "rejected"})]
           /\ req'[r] = "answered" /\ reply'[r] = verdict
           /\ \A q \in Requests \ {r} : req'[q] = req[q] /\ reply'[q] = reply[q]
           /\ Busy' = Busy \ {r}
  BY DEF Answer, TypeOK, Stages, Busy, Handling

(* Requests that are no longer handled free their workers.                  *)
LEMMA FewerBusy ==
    ASSUME TypeOK, WorkersOK, Busy' \subseteq Busy
    PROVE  WorkersOK' /\ Cardinality(Busy') <= Workers
  <1>1. IsFiniteSet(Busy') /\ Cardinality(Busy') <= Cardinality(Busy)
    BY FS_Subset DEF WorkersOK
  <1>2. /\ Cardinality(Busy) \in Nat /\ Cardinality(Busy') \in Nat /\ Workers \in Nat
        /\ Cardinality(Busy) <= Workers
    BY <1>1, FS_CardinalityType, EndpointConstants DEF WorkersOK, TypeOK, Busy
  <1> QED
    BY <1>1, <1>2 DEF WorkersOK

LEMMA AcceptType ==
    ASSUME TypeOK, WorkersOK, NEW r \in Requests, Accept(r)
    PROVE  TypeOK' /\ WorkersOK'
  <1>1. /\ work' \in Seq(Requests) /\ Len(work') <= QueueLimit /\ Busy' \subseteq Busy
        /\ req' \in [Requests -> Stages] /\ reply' \in [Requests -> Maybe({"accepted", "rejected"})]
    <2>1. CASE Len(work) < QueueLimit
      <3>1. /\ work' = Append(work, r) /\ req' = [req EXCEPT ![r] = "queued"]
            /\ reply' = reply
        BY <2>1 DEF Accept
      <3>2. work' \in Seq(Requests) /\ Len(work') <= QueueLimit
        BY <2>1, <3>1, AppendFacts, EndpointConstants DEF TypeOK
      <3> QED
        BY <3>1, <3>2 DEF TypeOK, Stages, Busy, Handling
    <2>2. CASE ~(Len(work) < QueueLimit)
      BY <2>2, AnswerFacts DEF Accept, TypeOK
    <2> QED
      BY <2>1, <2>2
  <1>2. WorkersOK' /\ Cardinality(Busy') <= Workers
    BY <1>1, FewerBusy
  <1> QED
    BY <1>1, <1>2 DEF TypeOK, Accept, mailbox, history, Busy

LEMMA WorkerTakesType ==
    ASSUME TypeOK, WorkersOK, WorkerTakes
    PROVE  TypeOK' /\ WorkersOK'
  <1> DEFINE r == Head(work)
  <1>1. /\ r \in Requests /\ work' \in Seq(Requests) /\ Len(work') <= QueueLimit
        /\ IdOf[r] \in Ids
    BY TailFacts, EndpointConstants DEF WorkerTakes, TypeOK
  <1>2. UNCHANGED <<mailbox, completion, loop, applied, owed>>
    BY DEF WorkerTakes
  <1> HIDE DEF r
  <1>3. CASE Answer(r, "rejected") /\ UNCHANGED <<recent, admitted>>
    <2>1. /\ req' \in [Requests -> Stages]
          /\ reply' \in [Requests -> Maybe({"accepted", "rejected"})] /\ Busy' \subseteq Busy
      BY <1>1, <1>3, AnswerFacts
    <2>2. WorkersOK' /\ Cardinality(Busy') <= Workers
      BY <2>1, FewerBusy
    <2> QED
      BY <1>1, <1>2, <1>3, <2>1, <2>2 DEF TypeOK, mailbox, Busy
  <1>4. CASE /\ recent' = Remembered(IdOf[r]) /\ admitted' = Append(admitted, r)
             /\ req' = [req EXCEPT ![r] = "known"] /\ reply' = reply
    <2>1. recent' \in Seq(Ids) /\ Len(recent') <= RecentLimit
      <3>1. Len(recent) \in Nat /\ RecentLimit \in Nat
        BY LenProperties, EndpointConstants DEF TypeOK
      <3> QED
        BY <1>1, <1>4, <3>1, RememberedFacts DEF TypeOK
    <2>2. admitted' \in Seq(Requests) /\ req' \in [Requests -> Stages]
      BY <1>1, <1>4, AppendFacts DEF TypeOK, Stages
    <2>3. Busy' = Busy \cup {r}
      BY <1>1, <1>4 DEF Busy, Handling, TypeOK
    <2>4. WorkersOK' /\ Cardinality(Busy') <= Workers
      <3>1. /\ IsFiniteSet(Busy \cup {r}) /\ Cardinality(Busy \cup {r}) <= Cardinality(Busy) + 1
            /\ Cardinality(Busy) \in Nat
        BY FS_AddElement, FS_CardinalityType DEF WorkersOK
      <3>2. Cardinality(Busy) < Workers /\ Workers \in Nat /\ Cardinality(Busy') \in Nat
        BY <2>3, <3>1, FS_CardinalityType, EndpointConstants DEF WorkerTakes
      <3> QED
        BY <2>3, <3>1, <3>2 DEF WorkersOK
    <2> QED
      BY <1>1, <1>2, <1>4, <2>1, <2>2, <2>4 DEF TypeOK, mailbox, Busy
  <1> QED
    BY <1>3, <1>4 DEF WorkerTakes, r

LEMMA WorkerType ==
    ASSUME TypeOK, WorkersOK, NEW r \in Requests, Worker(r)
    PROVE  TypeOK' /\ WorkersOK'
  <1>1. CASE SendTrigger(r)
    <2>1. /\ req' \in [Requests -> Stages] /\ Busy' \subseteq Busy
          /\ reply' \in [Requests -> Maybe({"accepted", "rejected"})]
      BY <1>1, AnswerFacts DEF SendTrigger
    <2>2. pending_trigger' \in Maybe({"creation", "focus"}) /\ owed' \in BOOLEAN
      BY <1>1 DEF SendTrigger, Coalesced, TypeOK
    <2>3. WorkersOK' /\ Cardinality(Busy') <= Workers
      BY <2>1, FewerBusy
    <2> QED
      BY <1>1, <2>1, <2>2, <2>3 DEF TypeOK, SendTrigger, Busy
  <1>2. CASE EnqueueMutation(r)
    <2>1. /\ req' \in [Requests -> Stages] /\ Busy' \subseteq Busy
          /\ reply' \in [Requests -> Maybe({"accepted", "rejected"})]
          /\ commands' \in Seq(Requests) /\ handoff_requested' \in BOOLEAN
      <3>1. CASE Answer(r, "rejected") /\ UNCHANGED <<commands, handoff_requested>>
        BY <3>1, AnswerFacts DEF TypeOK
      <3>2. CASE /\ commands' = Append(commands, r) /\ handoff_requested' = ClosesMailbox(r)
                 /\ req' = [req EXCEPT ![r] = "posted"] /\ reply' = reply
        <4>1. req[r] = "known"
          BY <1>2 DEF EnqueueMutation
        <4> QED
          BY <3>2, <4>1, AppendFacts DEF TypeOK, Stages, Busy, Handling, ClosesMailbox
      <3> QED
        BY <1>2, <3>1, <3>2 DEF EnqueueMutation
    <2>2. WorkersOK' /\ Cardinality(Busy') <= Workers
      BY <2>1, FewerBusy
    <2> QED
      BY <1>2, <2>1, <2>2 DEF TypeOK, EnqueueMutation, history, Busy
  <1>3. CASE WorkerAnswers(r)
    <2>1. /\ req' \in [Requests -> Stages] /\ Busy' \subseteq Busy
          /\ reply' \in [Requests -> Maybe({"accepted", "rejected"})]
      BY <1>3, AnswerFacts DEF WorkerAnswers, Verdict
    <2>2. WorkersOK' /\ Cardinality(Busy') <= Workers
      BY <2>1, FewerBusy
    <2> QED
      BY <1>3, <2>1, <2>2 DEF TypeOK, WorkerAnswers, mailbox, history, Busy
  <1> QED
    BY <1>1, <1>2, <1>3 DEF Worker

LEMMA CompleteType ==
    ASSUME TypeOK, WorkersOK, commands # <<>>, NEW result \in {"ok", "error"},
           Complete(Head(commands), result), loop' \in Loop
    PROVE  TypeOK' /\ WorkersOK'
  <1>1. /\ Head(commands) \in Requests /\ commands' \in Seq(Requests)
    BY TailFacts DEF TypeOK, Complete
  <1>2. /\ completion' \in [Requests -> Maybe({"ok", "error"})]
        /\ applied' \in [Requests -> Nat]
    BY <1>1 DEF TypeOK, Complete
  <1>3. Busy' \subseteq Busy
    BY DEF Complete, Busy
  <1>4. WorkersOK' /\ Cardinality(Busy') <= Workers
    BY <1>3, FewerBusy
  <1> QED
    BY <1>1, <1>2, <1>4 DEF TypeOK, Complete, Busy

LEMMA LoopType ==
    ASSUME TypeOK, WorkersOK, Receives \/ StartSampling \/ Runs
    PROVE  TypeOK' /\ WorkersOK'
  <1>1. CASE TakeMutation
    BY <1>1, CompleteType DEF TakeMutation, TypeOK
  <1>2. CASE TakeHandoff
    BY <1>2, CompleteType DEF TakeHandoff, HandoffLeads, Loop
  <1>3. CASE TakeTrigger
    BY <1>3 DEF TypeOK, WorkersOK, Busy, TakeTrigger
  <1>4. CASE StartSampling \/ Runs
    BY <1>4 DEF TypeOK, WorkersOK, Busy, StartSampling, Runs, EndSampling, FinishHandoff,
                ProcessExits, mailbox, history, Loop
  <1> QED
    BY <1>1, <1>2, <1>3, <1>4 DEF Receives

LEMMA StutterType ==
    ASSUME TypeOK, WorkersOK, UNCHANGED vars
    PROVE  TypeOK' /\ WorkersOK'
  BY DEF TypeOK, WorkersOK, Busy, vars, mailbox

LEMMA InitType == Init => TypeOK /\ WorkersOK
  <1> SUFFICES ASSUME Init PROVE TypeOK /\ WorkersOK
    OBVIOUS
  <1>1. Busy = {}
    BY DEF Init, Busy, Handling
  <1>2. IsFiniteSet(Busy) /\ Cardinality(Busy) = 0
    BY <1>1, FS_EmptySet
  <1>3. <<>> \in Seq(Requests) /\ <<>> \in Seq(Ids) /\ Len(<<>>) = 0
    BY EmptySeq, LenProperties
  <1>4. Cardinality({r \in Requests : req[r] \in Handling}) <= Workers
    BY <1>2, EndpointConstants DEF Busy
  <1>5. /\ work \in Seq(Requests) /\ Len(work) <= QueueLimit
        /\ recent \in Seq(Ids) /\ Len(recent) <= RecentLimit
        /\ commands \in Seq(Requests) /\ admitted \in Seq(Requests)
    BY <1>3, EndpointConstants DEF Init
  <1>6. /\ req \in [Requests -> Stages] /\ reply \in [Requests -> Maybe({"accepted", "rejected"})]
        /\ completion \in [Requests -> Maybe({"ok", "error"})] /\ applied \in [Requests -> Nat]
        /\ pending_trigger \in Maybe({"creation", "focus"}) /\ loop \in Loop
        /\ handoff_requested \in BOOLEAN /\ owed \in BOOLEAN
    BY DEF Init, Stages, Loop
  <1> QED
    BY <1>2, <1>4, <1>5, <1>6 DEF TypeOK, WorkersOK

LEMMA NextType ==
    ASSUME TypeOK, WorkersOK, [Next]_vars
    PROVE  TypeOK' /\ WorkersOK'
  BY AcceptType, WorkerType, WorkerTakesType, LoopType, StutterType DEF Next

(* The endpoint never has more connections waiting than its queue holds,    *)
(* more in hand than it has workers, nor more ids in memory than it keeps   *)
(* (TypeOK; start_control_endpoint, RecentControlRequests).                 *)
THEOREM TypeCorrect == Spec => []TypeOK
  <1>1. TypeOK /\ WorkersOK /\ [Next]_vars => TypeOK' /\ WorkersOK'
    BY NextType
  <1> QED
    BY InitType, <1>1, PTL DEF Spec

-------------------------------------------------------------------------------
(* What waits for a worker and what is in the mailbox.                      *)

(* The head of the queue is a connection of its own.                        *)
LEMMA TakenFacts ==
    ASSUME TypeOK, WorkOK, WorkerTakes
    PROVE  /\ Head(work) \in Requests /\ req[Head(work)] = "queued"
           /\ \A i \in 1..Len(work') : i + 1 \in 1..Len(work) /\ work'[i] = work[i + 1]
                                       /\ work'[i] \in Requests /\ work'[i] # Head(work)
  <1>1. /\ Len(work) \in Nat /\ Len(work) > 0 /\ Head(work) = work[1] /\ work[1] \in Requests
        /\ work' = Tail(work) /\ Len(Tail(work)) = Len(work) - 1
        /\ \A i \in 1..Len(Tail(work)) : i + 1 \in 1..Len(work) /\ Tail(work)[i] = work[i + 1]
    BY TailFacts DEF TypeOK, WorkerTakes
  <1>2. \A i \in 1..Len(work) : work[i] \in Requests
    BY ElementFacts DEF TypeOK
  <1> QED
    BY <1>1, <1>2 DEF WorkOK

(* A request the mailbox holds is posted, or its worker gave it up.         *)
LEMMA MailboxFacts ==
    ASSUME TypeOK, MailboxOK
    PROVE  /\ Len(commands) \in Nat
           /\ \A i \in 1..Len(commands) :
                commands[i] \in Requests /\ req[commands[i]] \in {"posted", "answered"}
  BY ElementFacts DEF TypeOK, MailboxOK

(* A worker that goes on answers its request, or posts it.                  *)
LEMMA WorkerFacts ==
    ASSUME TypeOK, WorkersOK, NEW r \in Requests, Worker(r)
    PROVE  /\ req[r] \in {"known", "posted"} /\ req'[r] \in {"posted", "answered"}
           /\ \A q \in Requests \ {r} : req'[q] = req[q] /\ reply'[q] = reply[q]
           /\ completion' = completion /\ applied' = applied /\ loop' = loop
           /\ recent' = recent /\ admitted' = admitted
  <1>1. CASE SendTrigger(r)
    <2>1. Answer(r, "rejected") \/ Answer(r, "accepted")
      BY <1>1 DEF SendTrigger
    <2> QED
      BY <1>1, <2>1, AnswerFacts DEF SendTrigger
  <1>2. CASE EnqueueMutation(r)
    <2>1. \/ Answer(r, "rejected")
          \/ req' = [req EXCEPT ![r] = "posted"] /\ reply' = reply
      BY <1>2 DEF EnqueueMutation
    <2>2. CASE Answer(r, "rejected")
      BY <1>2, <2>2, AnswerFacts DEF EnqueueMutation, history
    <2>3. CASE req' = [req EXCEPT ![r] = "posted"] /\ reply' = reply
      BY <1>2, <2>3 DEF EnqueueMutation, history, TypeOK
    <2> QED
      BY <2>1, <2>2, <2>3
  <1>3. CASE WorkerAnswers(r)
    BY <1>3, AnswerFacts DEF WorkerAnswers, Verdict, history
  <1> QED
    BY <1>1, <1>2, <1>3 DEF Worker

LEMMA WorkKept ==
    ASSUME TypeOK, WorkersOK, WorkOK, [Next]_vars
    PROVE  WorkOK'
  <1>0. Len(work) \in Nat /\ \A i \in 1..Len(work) : work[i] \in Requests /\ req[work[i]] = "queued"
    BY ElementFacts DEF TypeOK, WorkOK
  <1>1. ASSUME NEW r \in Requests, Accept(r) PROVE WorkOK'
    <2>1. req[r] = "new"
      BY <1>1 DEF Accept
    <2>2. CASE Len(work) < QueueLimit
      <3>1. /\ work' = Append(work, r) /\ req' = [req EXCEPT ![r] = "queued"]
        BY <1>1, <2>2 DEF Accept
      <3>2. /\ Len(work') = Len(work) + 1 /\ work'[Len(work) + 1] = r
            /\ \A i \in 1..Len(work) : work'[i] = work[i]
            /\ \A i \in 1..Len(work') : i \in 1..Len(work) \/ i = Len(work) + 1
        BY <3>1, AppendFacts DEF TypeOK
      <3>3. \A i \in 1..Len(work') : req'[work'[i]] = "queued"
        BY <1>0, <2>1, <3>1, <3>2 DEF TypeOK
      <3>4. \A i, j \in 1..Len(work') : work'[i] = work'[j] => i = j
        BY <1>0, <2>1, <3>2 DEF WorkOK
      <3> QED
        BY <3>3, <3>4 DEF WorkOK
    <2>3. CASE ~(Len(work) < QueueLimit)
      <3>1. Answer(r, "rejected") /\ work' = work
        BY <1>1, <2>3 DEF Accept
      <3> QED
        BY <1>0, <2>1, <3>1, AnswerFacts DEF WorkOK
    <2> QED
      BY <2>2, <2>3
  <1>2. CASE WorkerTakes
    <2>1. \A i \in 1..Len(work') : req'[work'[i]] = req[work'[i]]
      <3>1. CASE Answer(Head(work), "rejected")
        BY <1>2, <3>1, TakenFacts, AnswerFacts
      <3>2. CASE req' = [req EXCEPT ![Head(work)] = "known"]
        BY <1>2, <3>2, TakenFacts DEF TypeOK
      <3> QED
        BY <1>2, <3>1, <3>2 DEF WorkerTakes
    <2>2. \A i \in 1..Len(work') : i + 1 \in 1..Len(work) /\ work'[i] = work[i + 1]
      BY <1>2, TakenFacts
    <2>3. \A i \in 1..Len(work') : req'[work'[i]] = "queued"
      BY <2>1, <2>2 DEF WorkOK
    <2>4. \A i, j \in 1..Len(work') : work'[i] = work'[j] => i = j
      BY <1>0, <2>2 DEF WorkOK
    <2> QED
      BY <2>3, <2>4 DEF WorkOK
  <1>3. ASSUME NEW r \in Requests, Worker(r) PROVE WorkOK'
    <2>1. req[r] \in {"known", "posted"} /\ work' = work
      BY <1>3 DEF Worker, SendTrigger, EnqueueMutation, WorkerAnswers
    <2>2. \A q \in Requests \ {r} : req'[q] = req[q]
      BY <1>3, WorkerFacts
    <2> QED
      BY <1>0, <2>1, <2>2 DEF WorkOK
  <1>4. CASE Receives \/ StartSampling \/ Runs \/ UNCHANGED vars
    <2>1. UNCHANGED <<work, req>>
      BY <1>4 DEF Receives, TakeMutation, TakeHandoff, HandoffLeads, TakeTrigger, Complete,
                  StartSampling, Runs, EndSampling, FinishHandoff, ProcessExits, vars
    <2> QED
      BY <2>1 DEF WorkOK
  <1> QED
    BY <1>1, <1>2, <1>3, <1>4 DEF Next

(* The loop completes the head of the mailbox, and nothing else.            *)
LEMMA CompleteFacts ==
    ASSUME TypeOK, MailboxOK, commands # <<>>, NEW result \in {"ok", "error"},
           Complete(Head(commands), result)
    PROVE  /\ Head(commands) \in Requests /\ Head(commands) = commands[1]
           /\ Len(commands) \in Nat \ {0} /\ Len(commands') = Len(commands) - 1
           /\ \A i \in 1..Len(commands') :
                /\ i + 1 \in 1..Len(commands) /\ commands'[i] = commands[i + 1]
                /\ commands'[i] \in Requests /\ commands'[i] # Head(commands)
           /\ \A r \in Requests \ {Head(commands)} :
                /\ completion'[r] = completion[r] /\ applied'[r] = applied[r]
                /\ InMailbox(r) => InMailbox(r)'
           /\ completion[Head(commands)] = None /\ completion'[Head(commands)] = result
           /\ applied'[Head(commands)] =
                IF result = "ok" THEN applied[Head(commands)] + 1 ELSE applied[Head(commands)]
           /\ Kind[Head(commands)] \in Commands
           /\ req[Head(commands)] \in {"posted", "answered"}
           /\ req' = req /\ reply' = reply /\ handoff_requested' = handoff_requested
  <1> DEFINE h == Head(commands)
  <1>1. /\ Len(commands) \in Nat /\ Len(commands) > 0 /\ h = commands[1] /\ h \in Requests
        /\ Len(Tail(commands)) = Len(commands) - 1
        /\ \A i \in 1..Len(Tail(commands)) : i + 1 \in 1..Len(commands) /\ Tail(commands)[i] = commands[i + 1]
    BY TailFacts DEF TypeOK
  <1>2. \A i \in 1..Len(commands) : commands[i] \in Requests
    BY MailboxFacts
  <1>3. commands' = Tail(commands) /\ UNCHANGED <<req, reply, handoff_requested>>
    BY DEF Complete
  <1>4. \A i \in 1..Len(commands') :
          /\ i + 1 \in 1..Len(commands) /\ commands'[i] = commands[i + 1]
          /\ commands'[i] \in Requests /\ commands'[i] # h
    BY <1>1, <1>2, <1>3 DEF MailboxOK
  <1>5. \A r \in Requests \ {h} : InMailbox(r) => InMailbox(r)'
    <2> SUFFICES ASSUME NEW r \in Requests \ {h}, InMailbox(r) PROVE InMailbox(r)'
      OBVIOUS
    <2>1. PICK i \in 1..Len(commands) : commands[i] = r
      BY DEF InMailbox
    <2>2. i - 1 \in 1..Len(commands') /\ commands'[i - 1] = r
      <3>1. i # 1
        BY <1>1, <2>1
      <3>2. i - 1 \in 1..Len(commands')
        BY <1>1, <1>3, <3>1
      <3> QED
        BY <1>4, <2>1, <3>2
    <2> QED
      BY <2>2 DEF InMailbox
  <1>6. /\ \A r \in Requests \ {h} : completion'[r] = completion[r] /\ applied'[r] = applied[r]
        /\ completion'[h] = result
        /\ applied'[h] = IF result = "ok" THEN applied[h] + 1 ELSE applied[h]
    BY <1>1 DEF Complete, TypeOK
  <1>7. completion[h] = None /\ Kind[h] \in Commands /\ req[h] \in {"posted", "answered"}
    BY <1>1 DEF MailboxOK
  <1> QED
    BY <1>1, <1>3, <1>4, <1>5, <1>6, <1>7

(* The steps of the loop that complete no command.                          *)
LEMMA QuietFacts ==
    ASSUME TakeTrigger \/ StartSampling \/ Runs \/ UNCHANGED vars
    PROVE  UNCHANGED <<work, req, reply, recent, commands, handoff_requested, completion,
                       applied, admitted>>
  BY DEF TakeTrigger, StartSampling, Runs, EndSampling, FinishHandoff, ProcessExits, vars,
         mailbox, history

LEMMA MailboxKept ==
    ASSUME TypeOK, WorkersOK, WorkOK, MailboxOK, ResultsOK, [Next]_vars
    PROVE  MailboxOK'
  <1>0. Len(commands) \in Nat
        /\ \A i \in 1..Len(commands) :
             /\ commands[i] \in Requests /\ req[commands[i]] \in {"posted", "answered"}
             /\ completion[commands[i]] = None /\ Kind[commands[i]] \in Commands
    BY MailboxFacts DEF MailboxOK
  <1>1. ASSUME NEW r \in Requests, Accept(r) PROVE MailboxOK'
    <2>1. req[r] = "new" /\ UNCHANGED <<commands, completion>>
      BY <1>1 DEF Accept, mailbox
    <2>2. \A q \in Requests \ {r} : req'[q] = req[q]
      BY <1>1, AnswerFacts DEF Accept, TypeOK
    <2> QED
      BY <1>0, <2>1, <2>2 DEF MailboxOK
  <1>2. CASE WorkerTakes
    <2>1. UNCHANGED <<commands, completion>>
      BY <1>2 DEF WorkerTakes, mailbox
    <2>2. /\ Head(work) \in Requests /\ req[Head(work)] = "queued"
          /\ \A q \in Requests \ {Head(work)} : req'[q] = req[q]
      BY <1>2, TakenFacts, AnswerFacts DEF WorkerTakes, TypeOK
    <2> QED
      BY <1>0, <2>1, <2>2 DEF MailboxOK
  <1>3. ASSUME NEW r \in Requests, Worker(r), commands' = commands PROVE MailboxOK'
    <2>1. \A q \in Requests \ {r} : req'[q] = req[q]
      BY <1>3, WorkerFacts
    <2>2. req'[r] \in {"posted", "answered"} /\ completion' = completion
      BY <1>3, WorkerFacts
    <2> QED
      BY <1>0, <1>3, <2>1, <2>2 DEF MailboxOK
  <1>4. ASSUME NEW r \in Requests, EnqueueMutation(r), commands' = Append(commands, r)
        PROVE  MailboxOK'
    <2>1. /\ req[r] = "known" /\ Kind[r] \in Commands /\ completion[r] = None
          /\ completion' = completion
      BY <1>4 DEF EnqueueMutation, ResultsOK, Commands
    <2>2. /\ Len(commands') = Len(commands) + 1 /\ commands'[Len(commands) + 1] = r
          /\ \A i \in 1..Len(commands) : commands'[i] = commands[i]
          /\ \A i \in 1..Len(commands') : i \in 1..Len(commands) \/ i = Len(commands) + 1
      BY <1>4, AppendFacts DEF TypeOK
    <2>3. /\ req'[r] \in {"posted", "answered"}
          /\ \A q \in Requests \ {r} : req'[q] = req[q]
      BY <1>4, WorkerFacts DEF Worker
    <2>4. \A i \in 1..Len(commands) : commands[i] # r
      BY <1>0, <2>1
    <2>5. \A i \in 1..Len(commands') :
            /\ Kind[commands'[i]] \in Commands /\ completion'[commands'[i]] = None
            /\ req'[commands'[i]] \in {"posted", "answered"}
      BY <1>0, <2>1, <2>2, <2>3
    <2>6. \A i, j \in 1..Len(commands') : commands'[i] = commands'[j] => i = j
      BY <1>0, <2>2, <2>4 DEF MailboxOK
    <2> QED
      BY <2>5, <2>6 DEF MailboxOK
  <1>5. ASSUME NEW result \in {"ok", "error"}, commands # <<>>, Complete(Head(commands), result)
        PROVE  MailboxOK'
    <2>1. /\ Len(commands') = Len(commands) - 1 /\ req' = req
          /\ \A i \in 1..Len(commands') :
               /\ i + 1 \in 1..Len(commands) /\ commands'[i] = commands[i + 1]
               /\ commands'[i] \in Requests /\ commands'[i] # Head(commands)
          /\ \A r \in Requests \ {Head(commands)} : completion'[r] = completion[r]
      BY <1>5, CompleteFacts
    <2>2. \A i \in 1..Len(commands') :
            /\ Kind[commands'[i]] \in Commands /\ completion'[commands'[i]] = None
            /\ req'[commands'[i]] \in {"posted", "answered"}
      BY <1>0, <2>1
    <2>3. \A i, j \in 1..Len(commands') : commands'[i] = commands'[j] => i = j
      BY <1>0, <2>1 DEF MailboxOK
    <2> QED
      BY <2>2, <2>3 DEF MailboxOK
  <1>6. CASE TakeTrigger \/ StartSampling \/ Runs \/ UNCHANGED vars
    BY <1>6, QuietFacts DEF MailboxOK
  <1>7. ASSUME NEW r \in Requests, Worker(r) PROVE MailboxOK'
    <2>1. commands' = commands \/ (EnqueueMutation(r) /\ commands' = Append(commands, r))
      BY <1>7 DEF Worker, SendTrigger, EnqueueMutation, WorkerAnswers, mailbox
    <2> QED
      BY <1>3, <1>4, <1>7, <2>1
  <1> QED
    BY <1>1, <1>2, <1>5, <1>6, <1>7 DEF Next, Receives, TakeMutation, TakeHandoff, HandoffLeads

-------------------------------------------------------------------------------
(* The result of a command.                                                 *)

(* ResultsOK of one request.                                                *)
ResultOK(r) ==
    /\ applied[r] = IF completion[r] = "ok" THEN 1 ELSE 0
    /\ req[r] \in {"new", "queued", "known"} => completion[r] = None /\ reply[r] = None
    /\ req[r] = "posted" => Kind[r] \in Commands /\ (InMailbox(r) \/ completion[r] # None)
    /\ Kind[r] \in Commands /\ reply[r] = "accepted" => completion[r] = "ok"

(* A request no step touches keeps what its result says.                    *)
LEMMA ResultUntouched ==
    ASSUME NEW q \in Requests, ResultOK(q), req'[q] = req[q], reply'[q] = reply[q],
           completion'[q] = completion[q], applied'[q] = applied[q],
           InMailbox(q) => InMailbox(q)'
    PROVE  ResultOK(q)'
  BY DEF ResultOK

LEMMA ResultsKept ==
    ASSUME TypeOK, WorkersOK, WorkOK, MailboxOK, ResultsOK, [Next]_vars
    PROVE  ResultsOK'
  <1>0. \A q \in Requests : ResultOK(q)
    BY DEF ResultsOK, ResultOK
  <1> SUFFICES ASSUME NEW q \in Requests PROVE ResultOK(q)'
    BY DEF ResultsOK, ResultOK
  <1>1. ResultOK(q)
    BY <1>0
  <1>2. ASSUME NEW r \in Requests, Accept(r) PROVE ResultOK(q)'
    <2>1. /\ req[r] = "new" /\ completion' = completion /\ applied' = applied
          /\ commands' = commands
      BY <1>2 DEF Accept, mailbox, history
    <2>2. InMailbox(q) => InMailbox(q)'
      BY <2>1 DEF InMailbox
    <2>3. CASE req' = [req EXCEPT ![r] = "queued"] /\ reply' = reply
      BY <1>1, <2>1, <2>2, <2>3, ResultUntouched DEF ResultOK, TypeOK
    <2>4. CASE Answer(r, "rejected")
      <3>1. CASE q = r
        BY <1>1, <2>1, <2>4, <3>1, AnswerFacts DEF ResultOK
      <3>2. CASE q # r
        BY <1>1, <2>1, <2>2, <2>4, <3>2, AnswerFacts, ResultUntouched
      <3> QED
        BY <3>1, <3>2
    <2> QED
      BY <1>2, <2>3, <2>4 DEF Accept
  <1>3. CASE WorkerTakes
    <2>1. /\ Head(work) \in Requests /\ req[Head(work)] = "queued"
          /\ completion' = completion /\ applied' = applied /\ commands' = commands
      BY <1>3, TakenFacts DEF WorkerTakes, mailbox
    <2>2. InMailbox(q) => InMailbox(q)'
      BY <2>1 DEF InMailbox
    <2>3. CASE req' = [req EXCEPT ![Head(work)] = "known"] /\ reply' = reply
      BY <1>1, <2>1, <2>2, <2>3, ResultUntouched DEF ResultOK, TypeOK
    <2>4. CASE Answer(Head(work), "rejected")
      <3>1. CASE q = Head(work)
        BY <1>1, <2>1, <2>4, <3>1, AnswerFacts DEF ResultOK
      <3>2. CASE q # Head(work)
        BY <1>1, <2>1, <2>2, <2>4, <3>2, AnswerFacts, ResultUntouched
      <3> QED
        BY <3>1, <3>2
    <2> QED
      BY <1>3, <2>3, <2>4 DEF WorkerTakes
  <1>4. ASSUME NEW r \in Requests, Worker(r) PROVE ResultOK(q)'
    <2>1. /\ req[r] \in {"known", "posted"} /\ completion' = completion /\ applied' = applied
          /\ \A p \in Requests \ {r} : req'[p] = req[p] /\ reply'[p] = reply[p]
      BY <1>4, WorkerFacts
    <2>2. \A p \in Requests : InMailbox(p) => InMailbox(p)'
      <3>1. CASE commands' = commands
        BY <3>1 DEF InMailbox
      <3>2. CASE commands' = Append(commands, r)
        BY <3>2, AppendFacts DEF InMailbox, TypeOK
      <3> QED
        BY <1>4, <3>1, <3>2 DEF Worker, SendTrigger, EnqueueMutation, WorkerAnswers, mailbox
    <2>3. CASE q # r
      BY <1>1, <2>1, <2>2, <2>3, ResultUntouched
    <2>4. CASE q = r
      <3>1. CASE SendTrigger(r)
        <4>1. req'[r] = "answered" /\ Kind[r] \notin Commands
          BY <3>1, AnswerFacts DEF SendTrigger, Commands
        <4> QED
          BY <1>1, <2>1, <2>4, <4>1 DEF ResultOK
      <3>2. CASE EnqueueMutation(r) /\ Answer(r, "rejected")
        BY <1>1, <2>1, <2>4, <3>2, AnswerFacts DEF ResultOK
      <3>3. CASE /\ EnqueueMutation(r) /\ commands' = Append(commands, r)
                 /\ req' = [req EXCEPT ![r] = "posted"] /\ reply' = reply
        <4>1. req'[r] = "posted" /\ reply'[r] = None /\ Kind[r] \in Commands
          BY <1>1, <2>4, <3>3 DEF ResultOK, EnqueueMutation, TypeOK, Commands
        <4>2. InMailbox(r)'
          <5>1. /\ Len(commands) \in Nat /\ Len(commands') = Len(commands) + 1
                /\ commands'[Len(commands) + 1] = r
            BY <3>3, AppendFacts DEF TypeOK
          <5>2. Len(commands) + 1 \in 1..Len(commands')
            BY <5>1
          <5> QED
            BY <5>1, <5>2 DEF InMailbox
        <4> QED
          BY <1>1, <2>1, <2>4, <4>1, <4>2, EndpointConstants DEF ResultOK
      <3>4. CASE WorkerAnswers(r)
        <4>1. /\ req'[r] = "answered" /\ reply'[r] = Verdict(r)
          BY <3>4, AnswerFacts DEF WorkerAnswers, Verdict
        <4> QED
          BY <1>1, <2>1, <2>4, <4>1 DEF ResultOK, Verdict
      <3> QED
        BY <1>4, <3>1, <3>2, <3>3, <3>4 DEF Worker, EnqueueMutation
    <2> QED
      BY <2>3, <2>4
  <1>5. ASSUME NEW result \in {"ok", "error"}, commands # <<>>, Complete(Head(commands), result)
        PROVE  ResultOK(q)'
    <2>1. CASE q # Head(commands)
      BY <1>1, <1>5, <2>1, CompleteFacts, ResultUntouched
    <2>2. CASE q = Head(commands)
      <3>1. /\ completion[q] = None /\ completion'[q] = result /\ req' = req /\ reply' = reply
            /\ applied'[q] = IF result = "ok" THEN applied[q] + 1 ELSE applied[q]
            /\ req[q] \in {"posted", "answered"} /\ Kind[q] \in Commands
        BY <1>5, <2>2, CompleteFacts
      <3>2. applied[q] = 0 /\ reply[q] # "accepted"
        BY <1>1, <3>1, EndpointConstants DEF ResultOK
      <3> QED
        BY <3>1, <3>2, EndpointConstants DEF ResultOK
    <2> QED
      BY <2>1, <2>2
  <1>6. CASE TakeTrigger \/ StartSampling \/ Runs \/ UNCHANGED vars
    BY <1>1, <1>6, QuietFacts DEF ResultOK, InMailbox
  <1> QED
    BY <1>2, <1>3, <1>4, <1>5, <1>6 DEF Next, Receives, TakeMutation, TakeHandoff, HandoffLeads

-------------------------------------------------------------------------------
(* The mailbox behind a handoff.                                            *)

LEMMA HandoffKept ==
    ASSUME TypeOK, WorkersOK, MailboxOK, HandoffOK, [Next]_vars
    PROVE  HandoffOK'
  <1>0. Len(commands) \in Nat /\ \A i \in 1..Len(commands) : commands[i] \in Requests
    BY MailboxFacts
  <1>1. CASE UNCHANGED <<commands, handoff_requested, loop>>
    BY <1>1 DEF HandoffOK
  <1>2. ASSUME NEW r \in Requests, EnqueueMutation(r), ~handoff_requested,
               commands' = Append(commands, r), handoff_requested' = ClosesMailbox(r)
        PROVE  HandoffOK'
    <2>1. /\ Len(commands') = Len(commands) + 1 /\ commands'[Len(commands) + 1] = r
          /\ \A i \in 1..Len(commands) : commands'[i] = commands[i]
          /\ \A i \in 1..Len(commands') : i \in 1..Len(commands) \/ i = Len(commands) + 1
      BY <1>2, AppendFacts DEF TypeOK
    <2>2. \A i \in 1..Len(commands) : Kind[commands[i]] # "handoff"
      BY <1>2 DEF HandoffOK
    <2>3. loop' = loop /\ loop # "finishing"
      BY <1>2 DEF EnqueueMutation, HandoffOK
    <2> QED
      BY <1>2, <2>1, <2>2, <2>3 DEF HandoffOK, ClosesMailbox
  <1>3. CASE TakeMutation
    <2>1. /\ Len(commands) \in Nat /\ Len(commands') = Len(commands) - 1
          /\ handoff_requested' = handoff_requested
          /\ \A i \in 1..Len(commands') : i + 1 \in 1..Len(commands) /\ commands'[i] = commands[i + 1]
      BY <1>3, CompleteFacts DEF TakeMutation
    <2>2. loop' = "waiting"
      BY <1>3 DEF TakeMutation
    <2> QED
      BY <2>1, <2>2 DEF HandoffOK
  <1>4. CASE TakeHandoff
    <2>1. /\ Len(commands) \in Nat \ {0} /\ Head(commands) = commands[1]
          /\ handoff_requested' = handoff_requested /\ Len(commands') = Len(commands) - 1
      BY <1>4, CompleteFacts DEF TakeHandoff, HandoffLeads
    <2>2. Len(commands) = 1 /\ handoff_requested
      BY <1>4, <2>1 DEF TakeHandoff, HandoffLeads, HandoffOK
    <2>3. commands' = <<>>
      <3>1. commands' \in Seq(Requests)
        BY <1>4, TailFacts DEF TakeHandoff, HandoffLeads, Complete, TypeOK
      <3> QED
        BY <2>1, <2>2, <3>1, EmptySeq
    <2> QED
      BY <2>1, <2>2, <2>3 DEF HandoffOK
  <1>5. CASE StartSampling \/ EndSampling \/ ProcessExits
    BY <1>5 DEF HandoffOK, StartSampling, EndSampling, ProcessExits, mailbox
  <1>6. CASE FinishHandoff
    BY <1>6 DEF HandoffOK, FinishHandoff, mailbox
  <1>7. ASSUME NEW r \in Requests, Accept(r) \/ Worker(r) PROVE HandoffOK'
    <2>1. \/ UNCHANGED <<commands, handoff_requested, loop>>
          \/ /\ EnqueueMutation(r) /\ ~handoff_requested
             /\ commands' = Append(commands, r) /\ handoff_requested' = ClosesMailbox(r)
      BY <1>7 DEF Accept, Worker, SendTrigger, EnqueueMutation, WorkerAnswers, mailbox
    <2> QED
      BY <1>1, <1>2, <2>1
  <1>8. CASE WorkerTakes \/ TakeTrigger \/ UNCHANGED vars
    BY <1>1, <1>8 DEF WorkerTakes, TakeTrigger, vars, mailbox
  <1> QED
    BY <1>3, <1>4, <1>5, <1>6, <1>7, <1>8 DEF Next, Receives, Runs

-------------------------------------------------------------------------------
(* The trigger the loop has to act on.                                      *)

LEMMA TriggerKept ==
    ASSUME TypeOK, ActionableTriggerKept, [Next]_vars
    PROVE  ActionableTriggerKept'
  <1>1. ASSUME NEW r \in Requests, SendTrigger(r) PROVE ActionableTriggerKept'
    <2>1. Kind[r] \in {"creation", "focus"} /\ None # "focus"
      BY <1>1, EndpointConstants DEF SendTrigger, Kinds
    <2> QED
      BY <1>1, <2>1 DEF SendTrigger, Coalesced, ActionableTriggerKept
  <1>2. CASE TakeTrigger
    BY <1>2 DEF TakeTrigger, ActionableTriggerKept
  <1>3. CASE UNCHANGED <<pending_trigger, owed>>
    BY <1>3 DEF ActionableTriggerKept
  <1>4. ASSUME NEW r \in Requests, Accept(r) \/ EnqueueMutation(r) \/ WorkerAnswers(r)
        PROVE  ActionableTriggerKept'
    BY <1>3, <1>4 DEF Accept, EnqueueMutation, WorkerAnswers, mailbox, history
  <1>5. CASE WorkerTakes \/ TakeMutation \/ TakeHandoff \/ StartSampling \/ Runs \/ UNCHANGED vars
    BY <1>3, <1>5 DEF WorkerTakes, TakeMutation, TakeHandoff, HandoffLeads, Complete,
                      StartSampling, Runs, EndSampling, FinishHandoff, ProcessExits, vars,
                      mailbox, history
  <1> QED
    BY <1>1, <1>2, <1>4, <1>5 DEF Next, Worker, Receives

-------------------------------------------------------------------------------
(* The memory of request ids.                                               *)

LEMMA MemoryKept ==
    ASSUME TypeOK, RecentOK, NoReplay, [Next]_vars
    PROVE  RecentOK' /\ NoReplay'
  <1> DEFINE n == Len(admitted)
             r == Head(work)
  <1>0. /\ n \in Nat /\ Len(recent) \in Nat /\ RecentLimit \in Nat
        /\ \A i \in 1..n : admitted[i] \in Requests
    BY ElementFacts, EndpointConstants DEF TypeOK
  <1>1. CASE UNCHANGED <<recent, admitted>>
    BY <1>1 DEF RecentOK, NoReplay
  <1>2. CASE /\ WorkerTakes /\ ~Known(IdOf[r])
             /\ recent' = Remembered(IdOf[r]) /\ admitted' = Append(admitted, r)
    <2>1. r \in Requests /\ IdOf[r] \in Ids
      BY <1>2, TailFacts, EndpointConstants DEF WorkerTakes, TypeOK
    <2>2. /\ Len(admitted') = n + 1 /\ admitted'[n + 1] = r
          /\ \A i \in 1..n : admitted'[i] = admitted[i]
          /\ \A i \in 1..Len(admitted') : i \in 1..n \/ i = n + 1
      BY <1>2, <2>1, AppendFacts DEF TypeOK
    <2>3. /\ Len(recent') = IF Len(recent) < RecentLimit THEN Len(recent) + 1 ELSE RecentLimit
          /\ \A i \in 1..Len(recent') :
               LET at == i + (Len(recent) + 1 - Len(recent'))
               IN  at \in 1..(Len(recent) + 1)
                   /\ recent'[i] = IF at = Len(recent) + 1 THEN IdOf[r] ELSE recent[at]
      BY <1>2, <2>1, RememberedFacts DEF TypeOK
    <2>4. /\ Len(recent) = IF n <= RecentLimit THEN n ELSE RecentLimit
          /\ \A i \in 1..Len(recent) : recent[i] = IdOf[admitted[n - Len(recent) + i]]
      BY DEF RecentOK
    <2> HIDE DEF n, r
    <2>5. Len(recent') = IF n + 1 <= RecentLimit THEN n + 1 ELSE RecentLimit
      BY <1>0, <2>3, <2>4
    <2>6. \A i \in 1..Len(recent') :
            recent'[i] = IdOf[admitted'[Len(admitted') - Len(recent') + i]]
      <3> SUFFICES ASSUME NEW i \in 1..Len(recent')
                   PROVE  recent'[i] = IdOf[admitted'[Len(admitted') - Len(recent') + i]]
        OBVIOUS
      <3> DEFINE at == i + (Len(recent) + 1 - Len(recent'))
      <3>1. /\ at \in 1..(Len(recent) + 1)
            /\ recent'[i] = IF at = Len(recent) + 1 THEN IdOf[r] ELSE recent[at]
        BY <2>3
      <3>2. Len(admitted') - Len(recent') + i = n - Len(recent) + at
        BY <1>0, <2>2, <2>5
      <3> HIDE DEF at
      <3>3. CASE at = Len(recent) + 1
        <4>1. n - Len(recent) + at = n + 1
          BY <1>0, <3>3
        <4> QED
          BY <2>2, <3>1, <3>2, <3>3, <4>1
      <3>4. CASE at # Len(recent) + 1
        <4>1. at \in 1..Len(recent) /\ n - Len(recent) + at \in 1..n
          BY <1>0, <2>4, <3>1, <3>4
        <4>2. recent'[i] = recent[at] /\ recent[at] = IdOf[admitted[n - Len(recent) + at]]
          BY <2>4, <3>1, <3>4, <4>1
        <4>3. admitted'[n - Len(recent) + at] = admitted[n - Len(recent) + at]
          BY <2>2, <4>1
        <4> QED
          BY <3>2, <4>2, <4>3
      <3> QED
        BY <3>3, <3>4
    <2>7. \A i, j \in 1..Len(admitted') :
            i < j /\ IdOf[admitted'[i]] = IdOf[admitted'[j]] => j - i > RecentLimit
      <3> SUFFICES ASSUME NEW i \in 1..Len(admitted'), NEW j \in 1..Len(admitted'),
                          i < j, IdOf[admitted'[i]] = IdOf[admitted'[j]]
                   PROVE  j - i > RecentLimit
        OBVIOUS
      <3>1. CASE j \in 1..n
        <4>1. i \in 1..n
          BY <1>0, <2>2, <3>1
        <4> QED
          BY <2>2, <3>1, <4>1 DEF NoReplay, n
      <3>2. CASE j = n + 1
        <4>1. i \in 1..n /\ IdOf[admitted[i]] = IdOf[r]
          BY <1>0, <2>2, <3>2
        <4>2. ~(n + 1 - i <= RecentLimit)
          <5> SUFFICES ASSUME n + 1 - i <= RecentLimit PROVE FALSE
            OBVIOUS
          <5>1. i - n + Len(recent) \in 1..Len(recent)
            BY <1>0, <2>4, <4>1
          <5>2. n - Len(recent) + (i - n + Len(recent)) = i
            BY <1>0, <4>1
          <5>3. recent[i - n + Len(recent)] = IdOf[r]
            BY <2>4, <4>1, <5>1, <5>2
          <5> QED
            BY <1>2, <5>1, <5>3 DEF Known
        <4> QED
          BY <1>0, <3>2, <4>1, <4>2
      <3> QED
        BY <2>2, <3>1, <3>2
    <2> QED
      BY <2>2, <2>5, <2>6, <2>7 DEF RecentOK, NoReplay
  <1>3. CASE WorkerTakes
    BY <1>1, <1>2, <1>3 DEF WorkerTakes
  <1>4. ASSUME NEW q \in Requests, Accept(q) \/ Worker(q) PROVE RecentOK' /\ NoReplay'
    BY <1>1, <1>4 DEF Accept, Worker, SendTrigger, EnqueueMutation, WorkerAnswers, history
  <1>5. CASE Receives \/ StartSampling \/ Runs \/ UNCHANGED vars
    BY <1>1, <1>5 DEF Receives, TakeMutation, TakeHandoff, HandoffLeads, TakeTrigger, Complete,
                      StartSampling, Runs, EndSampling, FinishHandoff, ProcessExits, vars, history
  <1> QED
    BY <1>3, <1>4, <1>5 DEF Next

-------------------------------------------------------------------------------
(* The invariant, and what follows from it.                                 *)

LEMMA InitEndpoint == Init => EndpointInv
  <1> SUFFICES ASSUME Init PROVE EndpointInv
    OBVIOUS
  <1>1. TypeOK /\ WorkersOK
    BY InitType
  <1>2. Len(<<>>) = 0
    BY LenProperties, EmptySeq
  <1>3. WorkOK /\ MailboxOK /\ HandoffOK /\ NoReplay
    BY <1>2 DEF Init, WorkOK, MailboxOK, HandoffOK, NoReplay
  <1>4. ResultsOK
    BY EndpointConstants DEF Init, ResultsOK
  <1>5. RecentOK
    BY <1>2, EndpointConstants DEF Init, RecentOK
  <1>6. ActionableTriggerKept
    BY DEF Init, ActionableTriggerKept
  <1> QED
    BY <1>1, <1>3, <1>4, <1>5, <1>6 DEF EndpointInv

LEMMA NextEndpoint == EndpointInv /\ [Next]_vars => EndpointInv'
  <1> SUFFICES ASSUME EndpointInv, [Next]_vars PROVE EndpointInv'
    OBVIOUS
  <1> QED
    BY NextType, WorkKept, MailboxKept, ResultsKept, HandoffKept, TriggerKept, MemoryKept
    DEF EndpointInv

(* The invariant holds whatever clients send and whichever threads run.     *)
THEOREM EndpointInvariant == Spec => []EndpointInv
  BY InitEndpoint, NextEndpoint, PTL DEF Spec

(* A client that is told its command succeeded finds it applied, and no     *)
(* command is applied twice (AcceptedMeansApplied; ControlWorker and        *)
(* run_runtime_loop, whatever deadlines passed between them).               *)
THEOREM AcceptedIsApplied == Spec => []AcceptedMeansApplied
  <1>1. EndpointInv => AcceptedMeansApplied
    BY DEF EndpointInv, ResultsOK, AcceptedMeansApplied, Commands, TypeOK
  <1> QED
    BY <1>1, EndpointInvariant, PTL

(* A request id that returns is let in again only after RecentLimit others  *)
(* were (NoReplay; RecentControlRequests::remember).                        *)
THEOREM NoRecentReplay == Spec => []NoReplay
  <1>1. EndpointInv => NoReplay
    BY DEF EndpointInv
  <1> QED
    BY <1>1, EndpointInvariant, PTL

(* The loop that takes a handoff leaves no command behind it unanswered     *)
(* (HandoffIsLast; TriggerSender::enqueue_mutation).                        *)
THEOREM NothingBehindHandoff == Spec => []HandoffIsLast
  <1>1. EndpointInv => HandoffIsLast
    <2> SUFFICES ASSUME EndpointInv, loop = "finishing"
                 PROVE  /\ commands = <<>>
                        /\ \A r \in Requests : req[r] = "posted" => completion[r] # None
      BY DEF HandoffIsLast
    <2>1. commands = <<>>
      BY DEF EndpointInv, HandoffOK
    <2>2. \A r \in Requests : ~InMailbox(r)
      BY <2>1, EmptySeq, LenProperties DEF InMailbox
    <2> QED
      BY <2>1, <2>2 DEF EndpointInv, ResultsOK
  <1> QED
    BY <1>1, EndpointInvariant, PTL

(* A focus, startup or manual trigger that was accepted is not lost to a    *)
(* later creation trigger (ActionableTriggerKept; send_trigger).            *)
THEOREM ActionableTriggerSurvives == Spec => []ActionableTriggerKept
  <1>1. EndpointInv => ActionableTriggerKept
    BY DEF EndpointInv
  <1> QED
    BY <1>1, EndpointInvariant, PTL
===============================================================================
