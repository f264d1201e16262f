--------------------------- MODULE StateFilesProofs ---------------------------
(***************************************************************************)
(* Theorems about SessionStateFiles for any number of processes, sessions,  *)
(* pieces of evidence, names and mishaps.                                   *)
(***************************************************************************)
EXTENDS SessionStateFiles, TLAPS

-------------------------------------------------------------------------------
(* The inductive invariant.                                                 *)

Holds(p) == proc[p].pc \in Locked

(* Two processes that hold the lock of one session only read.               *)
LockExcludes ==
    \A p, q \in Pids :
      p # q /\ Dir(p) = Dir(q) /\ Holds(p) /\ Holds(q) =>
        proc[p].op = "read" /\ proc[q].op = "read"

(* Where a call may be, by what it is.                                      *)
PlaceOK(p) ==
    /\ proc[p].pc = "read" => proc[p].op = "read"
    /\ proc[p].pc \in {"judge", "archive", "archive_legacy"} => proc[p].op = "repair"
    /\ proc[p].pc = "remove" => proc[p].op = "forget"
    /\ proc[p].pc \in {"create", "rename", "sync"} => proc[p].op \in {"mutate", "repair"}

(* The names a call may still use are left, and so are the lives of an id.  *)
NamesOK(p) ==
    /\ proc[p].pc \in {"lock", "read", "judge", "remove", "archive"} =>
         proc[p].sequence + 3 <= MaxSequence
    /\ proc[p].pc = "archive_legacy" => proc[p].sequence + 2 <= MaxSequence
    /\ proc[p].pc = "create" => proc[p].sequence + 1 <= MaxSequence
    /\ proc[p].pc = "rename" => proc[p].sequence >= 1
    /\ proc[p].life + mishaps <= MaxMishaps

(* What a call has found or done is still so.                               *)
FoundOK(p) ==
    /\ proc[p].pc = "archive_legacy" => file[Dir(p)] = None
    /\ proc[p].pc \in {"create", "rename"} /\ proc[p].op = "repair" => file[Dir(p)] = None
    /\ proc[p].pc \notin {"create", "rename", "sync"} \/ proc[p].op # "mutate" =>
         proc[p].state = {}
    /\ proc[p].pc = "rename" => proc[p].synced
    /\ proc[p].pc = "sync" =>
         /\ IsState(file[Dir(p)])
         /\ proc[p].op = "mutate" => p \in file[Dir(p)]

CallOK(p) == LocalsOK(p) /\ PlaceOK(p) /\ NamesOK(p) /\ FoundOK(p)

Typed ==
    /\ file \in [Dirs -> Contents] /\ older \in [Dirs -> SUBSET Contents]
    /\ temps \subseteq Name /\ archived \subseteq Archive
    /\ proc \in [Pids -> Process]
    /\ acked \in [Sessions -> States] /\ arrived \subseteq Evidence
    /\ mishaps \in 0..MaxMishaps

CallInv == Typed /\ LockExcludes /\ \A p \in Pids : CallOK(p)

LEMMA CallInvImpliesTypeOK == CallInv => TypeOK
  BY DEF CallInv, Typed, TypeOK, CallOK

-------------------------------------------------------------------------------
(* How a process moves.                                                     *)

(* Only process p takes the step, and it stays with its session.            *)
Moves(p) ==
    /\ proc' \in [Pids -> Process]
    /\ \A q \in Pids \ {p} : proc'[q] = proc[q]
    /\ proc'[p].session = proc[p].session

LEMMA GotoMoves ==
    ASSUME Typed, NEW p \in Pids, NEW pc \in Places, Goto(p, pc)
    PROVE  Moves(p) /\ proc'[p] = [proc[p] EXCEPT !.pc = pc]
  BY DEF Typed, Goto, Moves, Process

LEMMA StartedType ==
    ASSUME NEW s \in Sessions, NEW life \in 0..MaxMishaps
    PROVE  Started(s, life) \in Process
  BY StateFilesConstants DEF Started, Process, Places, Operations, States

LEMMA ReturnsMoves ==
    ASSUME Typed, NEW p \in Pids, NEW n \in 0..MaxSequence, Returns(p, n)
    PROVE  /\ Moves(p)
           /\ proc'[p].pc \in {"ready", "closed"} /\ proc'[p].sequence = n
           /\ proc'[p].life = proc[p].life /\ proc'[p].state = {}
  <1>1. proc[p] \in Process /\ proc[p].session \in Sessions /\ proc[p].life \in 0..MaxMishaps
    BY DEF Typed, Process
  <1>2. Started(Dir(p), proc[p].life) \in Process
    BY <1>1, StartedType DEF Dir
  <1>3. /\ [Started(Dir(p), proc[p].life) EXCEPT !.pc = "ready", !.opened = TRUE, !.sequence = n]
              \in Process
        /\ [Started(Dir(p), proc[p].life) EXCEPT !.sequence = n] \in Process
    BY <1>2 DEF Process, Places
  <1> QED
    BY <1>1, <1>3 DEF Returns, Moves, Typed, Started, Dir

(* What the others know does not change by a step of p that keeps the files *)
(* of sessions whose lock another process holds, and others' names.         *)
OthersUndisturbed(p) ==
    /\ \A q \in Pids \ {p} : Holds(q) => file'[Dir(q)] = file[Dir(q)]
    /\ \A n \in temps : n.pid # p => n \in temps'
    /\ mishaps' <= mishaps

(* p takes the lock as Acquires says, or keeps what it has.                 *)
KeepsLock(p) ==
    proc'[p].pc \in Locked =>
      \/ Holds(p) /\ proc'[p].op = proc[p].op
      \/ Acquires(p) /\ proc'[p].op = proc[p].op

LEMMA StepKeepsCallInv ==
    ASSUME CallInv, NEW p \in Pids, Moves(p), OthersUndisturbed(p), KeepsLock(p),
           Typed', CallOK(p)'
    PROVE  CallInv'
  <1>1. ASSUME NEW q \in Pids \ {p}
        PROVE  CallOK(q)'
    <2>1. proc'[q] = proc[q] /\ proc[q] \in Process /\ CallOK(q)
      BY <1>1 DEF Moves, CallInv, Typed
    <2>2. Dir(q)' = Dir(q) /\ LastName(q, Dir(q))' = LastName(q, Dir(q))
      BY <2>1 DEF Dir, LastName
    <2>3. PlaceOK(q)'
      BY <2>1 DEF CallOK, PlaceOK
    <2>4. NamesOK(q)'
      <3>1. mishaps \in Nat /\ mishaps' \in Nat /\ mishaps' <= mishaps
        BY StateFilesConstants DEF OthersUndisturbed, CallInv, Typed
      <3>2. proc[q].life \in Nat /\ MaxMishaps \in Nat
        BY <2>1, StateFilesConstants DEF Process
      <3> QED
        BY <2>1, <3>1, <3>2 DEF CallOK, NamesOK
    <2>5. CASE Holds(q)
      <3>1. file'[Dir(q)] = file[Dir(q)] /\ State(Dir(q))' = State(Dir(q))
        BY <1>1, <2>2, <2>5 DEF OthersUndisturbed, State
      <3>2. proc[q].pc = "rename" => LastName(q, Dir(q)) \in temps'
        BY <1>1, <2>1 DEF OthersUndisturbed, CallOK, LocalsOK, LastName, Dir
      <3> QED
        BY <2>1, <2>2, <2>3, <2>4, <3>1, <3>2 DEF CallOK, LocalsOK, FoundOK, Dir
    <2>6. CASE ~Holds(q)
      BY <2>1, <2>3, <2>4, <2>6 DEF CallOK, LocalsOK, FoundOK, Holds, Locked, Places
    <2> QED
      BY <2>5, <2>6
  <1>2. ASSUME NEW q \in Pids \ {p}, Dir(p)' = Dir(q)', Holds(p)', Holds(q)'
        PROVE  proc'[p].op = "read" /\ proc'[q].op = "read"
    <2>1. proc'[q] = proc[q] /\ Dir(p) = Dir(q) /\ Holds(q)
      BY <1>2 DEF Moves, Dir, Holds
    <2> QED
      BY <1>2, <2>1 DEF KeepsLock, CallInv, LockExcludes, Acquires, Compatible, Holds
  <1>3. LockExcludes'
    <2> SUFFICES ASSUME NEW q \in Pids, NEW r \in Pids,
                        q # r, Dir(q)' = Dir(r)', Holds(q)', Holds(r)'
                 PROVE  proc'[q].op = "read" /\ proc'[r].op = "read"
      BY DEF LockExcludes
    <2>1. CASE q = p
      BY <1>2, <2>1
    <2>2. CASE r = p
      BY <1>2, <2>2
    <2>3. CASE q # p /\ r # p
      BY <2>3 DEF Moves, CallInv, LockExcludes, Dir, Holds
    <2> QED
      BY <2>1, <2>2, <2>3
  <1> QED
    BY <1>1, <1>3 DEF CallInv

LEMMA OnlyProcessKeeps ==
    ASSUME CallInv, NEW p \in Pids, Moves(p), OnlyProcess, KeepsLock(p), CallOK(p)'
    PROVE  CallInv'
  <1>1. OthersUndisturbed(p)
    BY StateFilesConstants DEF OnlyProcess, files, OthersUndisturbed, CallInv, Typed
  <1>2. Typed'
    BY DEF OnlyProcess, files, Moves, CallInv, Typed
  <1> QED
    BY <1>1, <1>2, StepKeepsCallInv

(* A process that is between calls, or waits for its lock, knows nothing.   *)
LEMMA BetweenCallsOK ==
    ASSUME CallInv, NEW p \in Pids, proc'[p].pc \in {"closed", "ready"},
           proc'[p].life = proc[p].life, proc'[p].state = {}, mishaps' \in 0..mishaps
    PROVE  CallOK(p)' /\ KeepsLock(p)
  <1>1. proc[p].life \in Nat /\ mishaps \in Nat /\ mishaps' \in Nat /\ mishaps' <= mishaps
    BY StateFilesConstants DEF CallInv, Typed, Process
  <1>2. NamesOK(p)'
    BY <1>1, StateFilesConstants DEF CallInv, CallOK, NamesOK
  <1> QED
    BY <1>2 DEF CallOK, LocalsOK, PlaceOK, FoundOK, KeepsLock, Locked, Places

LEMMA ReturnKeeps ==
    ASSUME CallInv, NEW p \in Pids, Ok(p) \/ Err(p), OnlyProcess
    PROVE  CallInv'
  <1>1. proc[p].sequence \in 0..MaxSequence /\ mishaps \in 0..mishaps
    BY StateFilesConstants DEF CallInv, Typed, Process
  <1>2. /\ Moves(p) /\ proc'[p].pc \in {"ready", "closed"}
        /\ proc'[p].life = proc[p].life /\ proc'[p].state = {}
    BY <1>1, ReturnsMoves DEF Ok, Err, CallInv
  <1>3. mishaps' \in 0..mishaps
    BY <1>1 DEF OnlyProcess
  <1> QED
    BY <1>2, <1>3, BetweenCallsOK, OnlyProcessKeeps

LEMMA OpenKeeps ==
    ASSUME CallInv, NEW p \in Pids, Open(p)
    PROVE  CallInv'
  <1>1. proc[p] \in Process /\ mishaps \in 0..mishaps /\ proc[p].state = {}
    BY StateFilesConstants DEF CallInv, Typed, CallOK, FoundOK, Open, At
  <1>2. /\ Moves(p) /\ proc'[p].pc = "ready" /\ proc'[p].life = proc[p].life
        /\ proc'[p].state = {}
    BY <1>1 DEF Open, Moves, CallInv, Typed, Process, Places
  <1>3. mishaps' \in 0..mishaps
    BY <1>1 DEF Open, OnlyProcess
  <1> QED
    BY <1>2, <1>3, BetweenCallsOK, OnlyProcessKeeps DEF Open

(* OpenForRepair and Call wait for the lock.                                *)
LEMMA WaitKeeps ==
    ASSUME CallInv, NEW p \in Pids, NEW op \in Operations, HasNames(p), OnlyProcess,
           proc[p].pc \in {"closed", "ready"},
           proc' = [proc EXCEPT ![p].pc = "lock", ![p].op = op]
    PROVE  CallInv'
  <1>1. proc[p] \in Process /\ proc[p].state = {}
    BY DEF CallInv, Typed, CallOK, FoundOK
  <1>2. /\ Moves(p) /\ proc'[p].pc = "lock" /\ proc'[p].life = proc[p].life
        /\ proc'[p].sequence = proc[p].sequence /\ proc'[p].state = {}
    BY <1>1 DEF Moves, CallInv, Typed, Process, Places
  <1>3. NamesOK(p)'
    BY <1>2 DEF CallInv, CallOK, NamesOK, HasNames, OnlyProcess
  <1>4. CallOK(p)' /\ KeepsLock(p)
    BY <1>2, <1>3 DEF CallOK, LocalsOK, PlaceOK, FoundOK, KeepsLock, Locked, Places
  <1> QED
    BY <1>2, <1>4, OnlyProcessKeeps

LEMMA BeginsKeep ==
    ASSUME CallInv, NEW p \in Pids, OpenForRepair(p) \/ \E op \in Operations : Call(p, op)
    PROVE  CallInv'
  <1>1. CASE OpenForRepair(p)
    BY <1>1, WaitKeeps DEF OpenForRepair, Operations, At
  <1>2. ASSUME NEW op \in Operations, Call(p, op)
        PROVE  CallInv'
    <2>1. proc' = [proc EXCEPT ![p].pc = "lock", ![p].op = op]
      BY <1>2 DEF Call, CallInv, Typed, Process
    <2> QED
      BY <1>2, <2>1, WaitKeeps DEF Call, At
  <1> QED
    BY <1>1, <1>2

-------------------------------------------------------------------------------
(* The first look under the lock.                                           *)

LEMMA ReadKeeps ==
    ASSUME CallInv, NEW p \in Pids, Read(p) \/ ReadReturns(p)
    PROVE  CallInv'
  <1>1. CASE ReadReturns(p) \/ (Read(p) /\ ~Loads(Dir(p)))
    BY <1>1, ReturnKeeps DEF Read, ReadReturns
  <1>2. CASE Read(p) /\ Loads(Dir(p))
    <2>1. proc[p] \in Process /\ proc[p].pc = "lock" /\ proc[p].op = "read" /\ CallOK(p)
      BY <1>2 DEF CallInv, Typed, Read, Acquires, At
    <2>2. Moves(p) /\ proc'[p] = [proc[p] EXCEPT !.pc = "read"]
      BY <1>2, GotoMoves DEF CallInv, Read, Places
    <2>3. CallOK(p)'
      BY <1>2, <2>1, <2>2
      DEF CallOK, LocalsOK, PlaceOK, NamesOK, FoundOK, Process, Read, OnlyProcess
    <2>4. KeepsLock(p)
      BY <1>2, <2>1, <2>2 DEF KeepsLock, Read, Process
    <2> QED
      BY <1>2, <2>2, <2>3, <2>4, OnlyProcessKeeps DEF Read
  <1> QED
    BY <1>1, <1>2

LEMMA MutateKeeps ==
    ASSUME CallInv, NEW p \in Pids, Mutate(p)
    PROVE  CallInv'
  <1>1. CASE ~Loads(Dir(p))
    BY <1>1, ReturnKeeps DEF Mutate
  <1>2. CASE Loads(Dir(p))
    <2>1. /\ proc[p] \in Process /\ proc[p].pc = "lock" /\ proc[p].op = "mutate" /\ CallOK(p)
          /\ Dir(p) \in Sessions /\ Dir(p) \in Dirs
      BY DEF CallInv, Typed, Mutate, Acquires, At, Dir, Process, Dirs
    <2>2. State(Dir(p)) \cup {p} \in States
      BY <1>2, <2>1 DEF State, Loads, Decodes, IsState, Contents, States, CallInv, Typed
    <2>3. /\ Moves(p)
          /\ proc'[p] = [proc[p] EXCEPT !.state = State(Dir(p)) \cup {p}, !.pc = "create"]
      BY <1>2, <2>1, <2>2 DEF Mutate, Moves, CallInv, Typed, Process, Places
    <2>4. LocalsOK(p)'
      BY <1>2, <2>1, <2>3 DEF LocalsOK, Process, Mutate, OnlyProcess, files, Loads, State, Dir,
                              Decodes, IsState
    <2>5. PlaceOK(p)' /\ FoundOK(p)'
      BY <2>1, <2>3 DEF PlaceOK, FoundOK, Process
    <2>6. NamesOK(p)'
      <3>1. proc[p].sequence \in Nat /\ MaxSequence \in Nat
        BY <2>1, StateFilesConstants DEF Process
      <3> QED
        BY <2>1, <2>3, <3>1 DEF CallOK, NamesOK, Process, Mutate, OnlyProcess
    <2>7. KeepsLock(p)
      BY <2>1, <2>3 DEF KeepsLock, Mutate, Process
    <2> QED
      BY <2>3, <2>4, <2>5, <2>6, <2>7, OnlyProcessKeeps DEF Mutate, CallOK
  <1> QED
    BY <1>1, <1>2

LEMMA ForgetKeeps ==
    ASSUME CallInv, NEW p \in Pids, Forget(p)
    PROVE  CallInv'
  <1>1. CASE ~Loads(Dir(p))
    BY <1>1, ReturnKeeps DEF Forget
  <1>2. CASE Loads(Dir(p))
    <2>1. proc[p] \in Process /\ proc[p].pc = "lock" /\ proc[p].op = "forget" /\ CallOK(p)
      BY DEF CallInv, Typed, Forget, Acquires, At
    <2>2. Moves(p) /\ proc'[p] = [proc[p] EXCEPT !.pc = "remove"]
      BY <1>2, GotoMoves DEF CallInv, Forget, Places
    <2>3. CallOK(p)'
      BY <1>2, <2>1, <2>2
      DEF CallOK, LocalsOK, PlaceOK, NamesOK, FoundOK, Process, Forget, OnlyProcess, files,
          Loads, Dir, Decodes, IsState
    <2>4. KeepsLock(p)
      BY <2>1, <2>2 DEF KeepsLock, Forget, Process
    <2> QED
      BY <2>2, <2>3, <2>4, OnlyProcessKeeps DEF Forget
  <1> QED
    BY <1>1, <1>2

LEMMA RepairKeeps ==
    ASSUME CallInv, NEW p \in Pids, Repair(p)
    PROVE  CallInv'
  <1>1. proc[p] \in Process /\ proc[p].pc = "lock" /\ proc[p].op = "repair" /\ CallOK(p)
    BY DEF CallInv, Typed, Repair, Acquires, At
  <1>2. /\ Moves(p)
        /\ proc'[p].pc = "judge" /\ proc'[p].op = "repair"
        /\ proc'[p].sequence = proc[p].sequence /\ proc'[p].life = proc[p].life
        /\ proc'[p].state = proc[p].state
    <2>1. (file[Base] # None) \in BOOLEAN
      OBVIOUS
    <2> QED
      BY <1>1, <2>1 DEF Repair, Moves, CallInv, Typed, Process, Places
  <1>3. CallOK(p)'
    BY <1>1, <1>2
    DEF CallOK, LocalsOK, PlaceOK, NamesOK, FoundOK, Process, Repair, OnlyProcess
  <1>4. KeepsLock(p)
    BY <1>1, <1>2 DEF KeepsLock, Repair, Process
  <1> QED
    BY <1>2, <1>3, <1>4, OnlyProcessKeeps DEF Repair

LEMMA JudgeKeeps ==
    ASSUME CallInv, NEW p \in Pids, JudgeState(p)
    PROVE  CallInv'
  <1>1. CASE Decodes(file[Dir(p)]) /\ ~proc[p].legacy
    BY <1>1, ReturnKeeps DEF JudgeState
  <1>2. CASE ~(Decodes(file[Dir(p)]) /\ ~proc[p].legacy)
    <2> DEFINE pc == IF file[Dir(p)] # None THEN "archive" ELSE "archive_legacy"
    <2>1. proc[p] \in Process /\ proc[p].pc = "judge" /\ proc[p].op = "repair" /\ CallOK(p)
      BY DEF CallInv, Typed, CallOK, PlaceOK, JudgeState, At
    <2>2. pc \in {"archive", "archive_legacy"} /\ Goto(p, pc)
      BY <1>2 DEF JudgeState
    <2>3. Moves(p) /\ proc'[p] = [proc[p] EXCEPT !.pc = pc]
      BY <2>2, GotoMoves DEF CallInv, Places
    <2>4. UNCHANGED <<file, temps, mishaps>>
      BY DEF JudgeState, OnlyProcess, files
    <2>0. /\ proc'[p].pc = pc /\ proc'[p].op = "repair" /\ proc'[p].legacy = proc[p].legacy
          /\ proc'[p].sequence = proc[p].sequence /\ proc'[p].life = proc[p].life
          /\ proc'[p].state = {} /\ Dir(p)' = Dir(p)
      BY <2>1, <2>3 DEF CallOK, FoundOK, Process, Dir
    <2>5. LocalsOK(p)' /\ PlaceOK(p)' /\ FoundOK(p)'
      <3>1. file'[Dir(p)] = file[Dir(p)]
        BY <2>4
      <3>2. LocalsOK(p)'
        BY <1>2, <2>2, <2>0, <3>1 DEF LocalsOK, Dir, Decodes
      <3>3. PlaceOK(p)'
        BY <2>2, <2>0 DEF PlaceOK
      <3>4. FoundOK(p)'
        BY <2>2, <2>0, <3>1 DEF FoundOK, Dir
      <3> QED
        BY <3>2, <3>3, <3>4
    <2>6. NamesOK(p)'
      <3>1. proc[p].sequence \in Nat /\ MaxSequence \in Nat
        BY <2>1, StateFilesConstants DEF Process
      <3> QED
        BY <2>1, <2>2, <2>0, <2>4, <3>1 DEF CallOK, NamesOK
    <2>7. KeepsLock(p)
      BY <2>1, <2>3 DEF KeepsLock, Process, Holds, Locked, Places
    <2> QED
      BY <2>3, <2>5, <2>6, <2>7, OnlyProcessKeeps DEF JudgeState, CallOK
  <1> QED
    BY <1>1, <1>2

-------------------------------------------------------------------------------
(* The steps that change files.                                             *)

(* A call that may change a state file has its session for itself.          *)
LEMMA AloneUndisturbed ==
    ASSUME CallInv, NEW p \in Pids, Holds(p), proc[p].op # "read",
           \A d \in Sessions \ {Dir(p)} : file'[d] = file[d]
    PROVE  \A q \in Pids \ {p} : Holds(q) => file'[Dir(q)] = file[Dir(q)]
  <1> SUFFICES ASSUME NEW q \in Pids \ {p}, Holds(q)
               PROVE  file'[Dir(q)] = file[Dir(q)]
    OBVIOUS
  <1>1. Dir(q) # Dir(p)
    BY DEF CallInv, LockExcludes
  <1>2. Dir(q) \in Sessions
    BY DEF CallInv, Typed, Process, Dir
  <1> QED
    BY <1>1, <1>2

(* What holds of a process in the middle of a call that changes files.      *)
LEMMA HolderFacts ==
    ASSUME CallInv, NEW p \in Pids
    PROVE  /\ proc[p] \in Process /\ CallOK(p)
           /\ Dir(p) \in Sessions /\ Dir(p) \in Dirs /\ Dir(p) # Base
           /\ proc[p].sequence \in Nat /\ MaxSequence \in Nat
           /\ proc[p].life \in Nat /\ mishaps \in Nat /\ MaxMishaps \in Nat
           /\ file[Dir(p)] \in Contents /\ older[Dir(p)] \in SUBSET Contents
           /\ proc[p].state \in States
  BY StateFilesConstants DEF CallInv, Typed, Process, Dir, Dirs

LEMMA WriteTempKeeps ==
    ASSUME CallInv, NEW p \in Pids, WriteTemp(p)
    PROVE  CallInv'
  <1>1. /\ proc[p].pc = "create" /\ proc[p].op \in {"mutate", "repair"}
        /\ proc[p].sequence + 1 \in 0..MaxSequence
    BY HolderFacts DEF WriteTemp, At, CallOK, PlaceOK, NamesOK
  <1>2. /\ temps \subseteq temps' /\ temps' \subseteq Name
        /\ UNCHANGED <<file, older, archived, acked, arrived, mishaps>>
    BY HolderFacts, <1>1 DEF WriteTemp, Name, NextName, CallInv, Typed, Process
  <1>3. OthersUndisturbed(p)
    BY <1>2, HolderFacts DEF OthersUndisturbed
  <1>4. CASE NextName(p, Dir(p)) \in temps
    <2>1. /\ Moves(p) /\ proc'[p].pc \in {"ready", "closed"}
          /\ proc'[p].life = proc[p].life /\ proc'[p].state = {}
      BY <1>1, <1>4, ReturnsMoves DEF WriteTemp, CallInv
    <2>2. CallOK(p)' /\ KeepsLock(p)
      BY <1>2, <2>1, BetweenCallsOK, HolderFacts
    <2>3. Typed'
      BY <1>2, <2>1 DEF CallInv, Typed, Moves
    <2> QED
      BY <1>3, <2>1, <2>2, <2>3, StepKeepsCallInv
  <1>5. CASE NextName(p, Dir(p)) \notin temps
    <2>1. /\ Moves(p)
          /\ proc'[p] = [proc[p] EXCEPT !.sequence = @ + 1, !.synced = TRUE, !.pc = "rename"]
      BY <1>1, <1>5 DEF WriteTemp, Moves, CallInv, Typed, Process, Places
    <2>2. LastName(p, Dir(p))' \in temps'
      BY <1>1, <1>5, <2>1, HolderFacts DEF WriteTemp, LastName, NextName, Dir, Process
    <2>3. LocalsOK(p)'
      BY <1>1, <1>2, <2>1, <2>2, HolderFacts
      DEF CallOK, LocalsOK, Process, Dir, State
    <2>4. PlaceOK(p)' /\ FoundOK(p)'
      BY <1>1, <1>2, <2>1, HolderFacts DEF CallOK, PlaceOK, FoundOK, Process, Dir
    <2>5. NamesOK(p)'
      BY <1>1, <1>2, <2>1, HolderFacts DEF CallOK, NamesOK, Process
    <2>6. KeepsLock(p)
      BY <1>1, <2>1, HolderFacts DEF KeepsLock, Process, Holds, Locked, Places
    <2>7. Typed'
      BY <1>2, <2>1 DEF CallInv, Typed, Moves
    <2> QED
      BY <1>3, <2>1, <2>3, <2>4, <2>5, <2>6, <2>7, StepKeepsCallInv DEF CallOK
  <1> QED
    BY <1>4, <1>5

(* The new state is what this call read, and the mutation of this call.     *)
LEMMA RenamedState ==
    ASSUME CallInv, NEW p \in Pids, RenameTemp(p)
    PROVE  /\ proc[p].pc = "rename" /\ proc[p].op \in {"mutate", "repair"}
           /\ proc[p].synced /\ Decodes(file[Dir(p)])
           /\ proc[p].op = "mutate" => proc[p].state = State(Dir(p)) \cup {p}
           /\ proc[p].op = "repair" => file[Dir(p)] = None /\ proc[p].state = {}
           /\ file' = [file EXCEPT ![Dir(p)] = proc[p].state]
           /\ older' = [older EXCEPT ![Dir(p)] = @ \cup {file[Dir(p)]}]
           /\ IsState(proc[p].state)
  <1>1. /\ proc[p].pc = "rename" /\ proc[p].op \in {"mutate", "repair"} /\ proc[p].synced
    BY HolderFacts DEF RenameTemp, At, CallOK, PlaceOK, FoundOK
  <1>2. /\ Decodes(file[Dir(p)])
        /\ proc[p].op = "mutate" => proc[p].state = State(Dir(p)) \cup {p}
    BY <1>1, HolderFacts DEF CallOK, LocalsOK, Dir
  <1>3. proc[p].op = "repair" => file[Dir(p)] = None /\ proc[p].state = {}
    BY <1>1, HolderFacts DEF CallOK, FoundOK
  <1>4. IsState(proc[p].state)
    BY HolderFacts, StateFilesConstants DEF IsState
  <1>5. older' = [older EXCEPT ![Dir(p)] = @ \cup {file[Dir(p)]}]
    BY <1>1 DEF RenameTemp
  <1> QED
    BY <1>1, <1>2, <1>3, <1>4, <1>5 DEF RenameTemp

LEMMA RenameTempKeeps ==
    ASSUME CallInv, NEW p \in Pids, RenameTemp(p)
    PROVE  CallInv'
  <1>1. /\ Moves(p) /\ proc'[p] = [proc[p] EXCEPT !.pc = "sync"]
    BY GotoMoves DEF RenameTemp, Places, CallInv
  <1>2. /\ file' \in [Dirs -> Contents] /\ file'[Dir(p)] = proc[p].state
        /\ \A d \in Sessions \ {Dir(p)} : file'[d] = file[d]
        /\ older' \in [Dirs -> SUBSET Contents]
    BY RenamedState, HolderFacts DEF CallInv, Typed, Contents, Dirs
  <1>3. Typed'
    BY <1>1, <1>2 DEF CallInv, Typed, Moves, RenameTemp
  <1>4. Holds(p) /\ proc[p].op # "read"
    BY RenamedState DEF Holds, Locked, Places
  <1>5. OthersUndisturbed(p)
    BY <1>2, <1>4, AloneUndisturbed, HolderFacts DEF OthersUndisturbed, RenameTemp, LastName
  <1>6. KeepsLock(p)
    BY <1>1, <1>4, HolderFacts DEF KeepsLock, Process
  <1>7. LocalsOK(p)' /\ PlaceOK(p)'
    BY <1>1, RenamedState, HolderFacts DEF LocalsOK, PlaceOK, Process
  <1>8. FoundOK(p)'
    BY <1>1, <1>2, RenamedState, HolderFacts DEF FoundOK, Process, Dir
  <1>9. NamesOK(p)'
    BY <1>1, HolderFacts DEF CallOK, NamesOK, Process, RenameTemp
  <1> QED
    BY <1>1, <1>3, <1>5, <1>6, <1>7, <1>8, <1>9, StepKeepsCallInv DEF CallOK

LEMMA SyncKeeps ==
    ASSUME CallInv, NEW p \in Pids, SyncDirectory(p)
    PROVE  CallInv'
  <1>1. /\ proc[p].sequence \in 0..MaxSequence /\ mishaps' \in 0..mishaps
    BY HolderFacts DEF Process, SyncDirectory
  <1>2. /\ Moves(p) /\ proc'[p].pc \in {"ready", "closed"} /\ proc'[p].life = proc[p].life
        /\ proc'[p].state = {}
    BY <1>1, ReturnsMoves DEF CallInv, SyncDirectory, Ok
  <1>3. /\ older' \in [Dirs -> SUBSET Contents] /\ acked' \in [Sessions -> States]
    BY HolderFacts DEF CallInv, Typed, SyncDirectory, States
  <1>4. Typed'
    BY <1>2, <1>3 DEF CallInv, Typed, Moves, SyncDirectory
  <1>5. OthersUndisturbed(p)
    BY HolderFacts DEF OthersUndisturbed, SyncDirectory
  <1> QED
    BY <1>1, <1>2, <1>4, <1>5, BetweenCallsOK, StepKeepsCallInv

LEMMA RemoveKeeps ==
    ASSUME CallInv, NEW p \in Pids, RemoveFile(p)
    PROVE  CallInv'
  <1>1. /\ proc[p].sequence \in 0..MaxSequence /\ mishaps' \in 0..mishaps
        /\ Holds(p) /\ proc[p].op # "read"
    BY HolderFacts DEF Process, RemoveFile, At, CallOK, PlaceOK, Holds, Locked, Places
  <1>2. /\ Moves(p) /\ proc'[p].pc \in {"ready", "closed"} /\ proc'[p].life = proc[p].life
        /\ proc'[p].state = {}
    BY <1>1, ReturnsMoves DEF CallInv, RemoveFile, Ok
  <1>3. /\ file' \in [Dirs -> Contents] /\ older' \in [Dirs -> SUBSET Contents]
        /\ acked' \in [Sessions -> States]
        /\ \A d \in Sessions \ {Dir(p)} : file'[d] = file[d]
    BY HolderFacts DEF CallInv, Typed, RemoveFile, SetsEntry, States, Contents, Dirs
  <1>4. Typed'
    BY <1>2, <1>3 DEF CallInv, Typed, Moves, RemoveFile
  <1>5. OthersUndisturbed(p)
    BY <1>1, <1>3, AloneUndisturbed, HolderFacts DEF OthersUndisturbed, RemoveFile
  <1> QED
    BY <1>1, <1>2, <1>4, <1>5, BetweenCallsOK, StepKeepsCallInv

(* Archiving moves what a file shows to a name of this call.                *)
LEMMA ArchiveEffects ==
    ASSUME CallInv, NEW p \in Pids, NEW d \in Dirs, ArchiveEvidence(p, d)
    PROVE  /\ file' = [file EXCEPT ![d] = None] /\ file' \in [Dirs -> Contents]
           /\ older' = [older EXCEPT ![d] = @ \cup {file[d]}]
           /\ older' \in [Dirs -> SUBSET Contents]
           /\ archived' \subseteq Archive
  <1>1. NextName(p, d) \in Name /\ proc[p].life \in 0..MaxMishaps /\ file[d] \in Contents
    BY HolderFacts DEF NextName, Name, Process, CallInv, Typed
  <1>2. archived' \subseteq Archive
    BY <1>1 DEF ArchiveEvidence, Archive, CallInv, Typed
  <1> QED
    BY <1>1, <1>2 DEF ArchiveEvidence, SetsEntry, CallInv, Typed, Contents

LEMMA ArchiveStateKeeps ==
    ASSUME CallInv, NEW p \in Pids, ArchiveState(p)
    PROVE  CallInv'
  <1> DEFINE pc == IF proc[p].legacy THEN "archive_legacy" ELSE "create"
  <1>1. /\ proc[p].pc = "archive" /\ proc[p].op = "repair"
        /\ Holds(p) /\ proc[p].sequence + 1 \in 0..MaxSequence
    BY HolderFacts DEF ArchiveState, At, CallOK, PlaceOK, NamesOK, Holds, Locked, Places
  <1>2. /\ Moves(p) /\ proc'[p] = [proc[p] EXCEPT !.sequence = @ + 1, !.pc = pc]
        /\ pc \in {"archive_legacy", "create"} /\ (pc = "archive_legacy" => proc[p].legacy)
    BY <1>1 DEF ArchiveState, Moves, CallInv, Typed, Process, Places
  <1>3. /\ file' \in [Dirs -> Contents] /\ older' \in [Dirs -> SUBSET Contents]
        /\ archived' \subseteq Archive
        /\ file'[Dir(p)] = None
        /\ \A d \in Sessions \ {Dir(p)} : file'[d] = file[d]
    BY ArchiveEffects, HolderFacts DEF ArchiveState, CallInv, Typed, Dirs
  <1>4. Typed'
    BY <1>2, <1>3, HolderFacts DEF CallInv, Typed, Moves, ArchiveState, States
  <1>5. OthersUndisturbed(p)
    BY <1>1, <1>3, AloneUndisturbed, HolderFacts DEF OthersUndisturbed, ArchiveState
  <1>6. KeepsLock(p)
    BY <1>1, <1>2, HolderFacts DEF KeepsLock, Process
  <1>7. LocalsOK(p)'
    BY <1>1, <1>2, <1>3, HolderFacts DEF LocalsOK, Process, Dir, Decodes
  <1>8. PlaceOK(p)'
    BY <1>1, <1>2, HolderFacts DEF PlaceOK, Process
  <1>9. NamesOK(p)'
    <2>1. /\ proc[p].sequence + 3 <= MaxSequence /\ proc[p].life + mishaps <= MaxMishaps
      BY <1>1, HolderFacts DEF CallOK, NamesOK
    <2>2. /\ proc'[p].pc = pc /\ proc'[p].sequence = proc[p].sequence + 1
          /\ proc'[p].life = proc[p].life
      BY <1>2, HolderFacts DEF Process
    <2>3. mishaps' = mishaps
      BY DEF ArchiveState
    <2> QED
      BY <1>2, <2>1, <2>2, <2>3, HolderFacts DEF NamesOK
  <1>10. FoundOK(p)'
    <2>1. proc[p].state = {}
      BY <1>1, HolderFacts DEF CallOK, FoundOK
    <2> QED
      BY <1>1, <1>2, <1>3, <2>1, HolderFacts DEF FoundOK, Process, Dir
  <1> QED
    BY <1>2, <1>4, <1>5, <1>6, <1>7, <1>8, <1>9, <1>10, StepKeepsCallInv DEF CallOK

LEMMA ArchiveLegacyKeeps ==
    ASSUME CallInv, NEW p \in Pids, ArchiveLegacy(p)
    PROVE  CallInv'
  <1>1. CASE file[Base] = None
    BY <1>1, ReturnKeeps DEF ArchiveLegacy, OnlyProcess, files
  <1>2. CASE file[Base] # None
    <2>1. /\ proc[p].pc = "archive_legacy" /\ proc[p].op = "repair" /\ Holds(p)
          /\ proc[p].sequence + 2 <= MaxSequence /\ file[Dir(p)] = None
          /\ proc[p].state = {} /\ proc[p].life + mishaps <= MaxMishaps
      BY HolderFacts
      DEF ArchiveLegacy, At, CallOK, PlaceOK, NamesOK, FoundOK, Holds, Locked, Places
    <2>2. ArchiveEvidence(p, Base) /\ Base \in Dirs
      BY <1>2 DEF ArchiveLegacy, Dirs
    <2>3. /\ Moves(p)
          /\ proc'[p].sequence = proc[p].sequence + 1 /\ proc'[p].pc = "create"
          /\ proc'[p].op = "repair" /\ proc'[p].state = {}
          /\ proc'[p].life = proc[p].life /\ Dir(p)' = Dir(p)
      BY <1>2, <2>1, HolderFacts DEF ArchiveLegacy, Moves, CallInv, Typed, Process, Places, Dir
    <2>4. /\ file' \in [Dirs -> Contents] /\ older' \in [Dirs -> SUBSET Contents]
          /\ archived' \subseteq Archive
          /\ \A d \in Sessions : file'[d] = file[d]
      BY <2>2, ArchiveEffects, StateFilesConstants DEF CallInv, Typed, Dirs
    <2>5. Typed'
      BY <2>3, <2>4 DEF CallInv, Typed, Moves, ArchiveLegacy
    <2>6. OthersUndisturbed(p)
      BY <2>1, <2>4, AloneUndisturbed, HolderFacts DEF OthersUndisturbed, ArchiveLegacy
    <2>7. KeepsLock(p)
      BY <2>1, <2>3 DEF KeepsLock
    <2>8. LocalsOK(p)' /\ PlaceOK(p)' /\ FoundOK(p)'
      <3>1. file'[Dir(p)] = None
        BY <2>1, <2>4, HolderFacts
      <3> QED
        BY <2>3, <3>1 DEF LocalsOK, PlaceOK, FoundOK, Dir, Decodes
    <2>9. NamesOK(p)'
      BY <2>1, <2>3, HolderFacts DEF NamesOK, ArchiveLegacy
    <2> QED
      BY <2>3, <2>5, <2>6, <2>7, <2>8, <2>9, StepKeepsCallInv DEF CallOK
  <1> QED
    BY <1>1, <1>2

-------------------------------------------------------------------------------
(* Failures.                                                                *)

LEMMA SpendType ==
    ASSUME CallInv, Spend
    PROVE  mishaps' \in 0..mishaps /\ mishaps' \in 0..MaxMishaps /\ mishaps' + 1 = mishaps
  BY StateFilesConstants DEF CallInv, Typed, Spend

LEMMA CallFailsKeeps ==
    ASSUME CallInv, NEW p \in Pids, CallFails(p)
    PROVE  CallInv'
  <1>1. /\ proc[p].sequence \in 0..MaxSequence
        /\ mishaps' \in 0..mishaps /\ mishaps' \in 0..MaxMishaps
    BY HolderFacts, SpendType DEF Process, CallFails
  <1>2. /\ Moves(p) /\ proc'[p].pc \in {"ready", "closed"} /\ proc'[p].life = proc[p].life
        /\ proc'[p].state = {}
    BY <1>1, ReturnsMoves DEF CallInv, CallFails, Err
  <1>3. Typed'
    BY <1>1, <1>2 DEF CallInv, Typed, Moves, CallFails, files
  <1>4. OthersUndisturbed(p)
    BY <1>1, HolderFacts DEF OthersUndisturbed, CallFails, files
  <1> QED
    BY <1>1, <1>2, <1>3, <1>4, BetweenCallsOK, StepKeepsCallInv

(* A process that starts knows nothing; its id has had one life more.       *)
LEMMA StartsOK ==
    ASSUME CallInv, Spend, NEW p \in Pids,
           proc'[p] = Started(Dir(p), proc[p].life + 1)
    PROVE  /\ proc'[p] \in Process /\ CallOK(p)'
           /\ Dir(p)' = Dir(p) /\ proc'[p].pc = "closed"
  <1>1. /\ proc[p].life + mishaps <= MaxMishaps /\ mishaps' + 1 = mishaps
        /\ mishaps' \in Nat /\ proc[p].life + 1 \in 0..MaxMishaps
    BY HolderFacts, SpendType DEF CallOK, NamesOK
  <1>2. /\ proc'[p] \in Process /\ Dir(p)' = Dir(p) /\ proc'[p].pc = "closed"
        /\ proc'[p].life = proc[p].life + 1 /\ proc'[p].state = {}
    BY <1>1, HolderFacts, StartedType DEF Started, Dir
  <1>3. NamesOK(p)'
    BY <1>1, <1>2, HolderFacts DEF NamesOK
  <1> QED
    BY <1>2, <1>3 DEF CallOK, LocalsOK, PlaceOK, FoundOK

LEMMA DiesKeeps ==
    ASSUME CallInv, NEW p \in Pids, Dies(p)
    PROVE  CallInv'
  <1>1. /\ Spend /\ proc'[p] = Started(Dir(p), proc[p].life + 1)
        /\ \A q \in Pids \ {p} : proc'[q] = proc[q]
        /\ proc' = [proc EXCEPT ![p] = proc'[p]]
    BY DEF Dies, CallInv, Typed
  <1>2. /\ proc'[p] \in Process /\ CallOK(p)' /\ Dir(p)' = Dir(p) /\ proc'[p].pc = "closed"
    BY <1>1, StartsOK
  <1>3. Moves(p)
    BY <1>1, <1>2 DEF Moves, CallInv, Typed, Dir
  <1>4. Typed'
    BY <1>1, <1>3, SpendType DEF CallInv, Typed, Moves, Dies, files
  <1>5. OthersUndisturbed(p)
    BY <1>1, SpendType, HolderFacts DEF OthersUndisturbed, Dies, files
  <1>6. KeepsLock(p)
    BY <1>2 DEF KeepsLock, Locked
  <1> QED
    BY <1>2, <1>3, <1>4, <1>5, <1>6, StepKeepsCallInv

LEMMA MachineFailsKeeps ==
    ASSUME CallInv, MachineFails
    PROVE  CallInv'
  <1>1. /\ Spend /\ older' = [d \in Dirs |-> {}] /\ temps' \in {temps, {}}
        /\ proc' = [p \in Pids |-> Started(Dir(p), proc[p].life + 1)]
        /\ UNCHANGED <<acked, arrived>>
    BY DEF MachineFails
  <1>2. ASSUME NEW p \in Pids
        PROVE  /\ proc'[p] \in Process /\ CallOK(p)' /\ proc'[p].pc = "closed"
    BY <1>1, StartsOK
  <1>3. proc' \in [Pids -> Process]
    BY <1>1, <1>2
  <1>4. /\ file' \in [Dirs -> Contents] /\ archived' \subseteq archived
    <2>1. PICK now \in [Dirs -> UNION {older[d] \cup {file[d]} : d \in Dirs}] :
            /\ \A d \in Dirs : now[d] \in older[d] \cup {file[d]}
            /\ file' = now
            /\ archived' = {a \in archived :
                              a.content \in older[a.name.dir] => now[a.name.dir] # a.content}
      BY DEF MachineFails
    <2>2. \A d \in Dirs : now[d] \in Contents
      BY <2>1 DEF CallInv, Typed
    <2> QED
      BY <2>1, <2>2
  <1>5. Typed'
    BY <1>1, <1>3, <1>4, SpendType DEF CallInv, Typed
  <1>6. LockExcludes'
    BY <1>2 DEF LockExcludes, Holds, Locked
  <1> QED
    BY <1>2, <1>5, <1>6 DEF CallInv

LEMMA DamageKeeps ==
    ASSUME CallInv, NEW d \in Dirs, Damage(d)
    PROVE  CallInv'
  <1>1. mishaps' \in 0..mishaps /\ mishaps' \in 0..MaxMishaps
    BY SpendType DEF Damage
  <1>2. PICK e \in Evidence \ arrived :
          file' = [file EXCEPT ![d] = e] /\ arrived' = arrived \cup {e}
    BY DEF Damage
  <1>3. /\ older' = [older EXCEPT ![d] = {}] /\ UNCHANGED <<temps, archived, proc>>
        /\ acked' = [s \in Sessions |-> IF s = d THEN {} ELSE acked[s]]
        /\ \A p \in Pids : Dir(p) = d => proc[p].pc \notin Locked
    BY DEF Damage
  <1>4. Typed'
    BY <1>1, <1>2, <1>3 DEF CallInv, Typed, Contents, States
  <1>5. LockExcludes'
    BY <1>3 DEF LockExcludes, CallInv, Dir, Holds
  <1>6. ASSUME NEW p \in Pids
        PROVE  CallOK(p)'
    <2>1. NamesOK(p)' /\ PlaceOK(p)'
      BY <1>1, <1>3, HolderFacts DEF CallOK, NamesOK, PlaceOK
    <2>2. CASE Holds(p)
      <3>1. file'[Dir(p)] = file[Dir(p)]
        BY <1>2, <1>3, <2>2 DEF CallInv, Typed, Holds
      <3> QED
        BY <1>3, <2>1, <3>1, HolderFacts
        DEF CallOK, LocalsOK, FoundOK, Dir, State, LastName
    <2>3. CASE ~Holds(p)
      BY <1>3, <2>1, <2>3, HolderFacts
      DEF CallOK, LocalsOK, FoundOK, Holds, Locked, Places
    <2> QED
      BY <2>2, <2>3
  <1> QED
    BY <1>4, <1>5, <1>6 DEF CallInv

-------------------------------------------------------------------------------
(* The invariant holds.                                                     *)

LEMMA InitCallInv ==
    ASSUME Init
    PROVE  CallInv
  <1>1. PICK d \in Dirs, c \in Evidence \cup {None} :
          /\ file = [[e \in Dirs |-> None] EXCEPT ![d] = c]
          /\ arrived = {c} \ {None}
    BY DEF Init
  <1>2. PICK s \in [Pids -> Sessions] : proc = [p \in Pids |-> Started(s[p], 0)]
    BY DEF Init
  <1>3. 0 \in 0..MaxMishaps /\ mishaps = MaxMishaps /\ MaxMishaps \in Nat
    BY StateFilesConstants DEF Init
  <1>4. ASSUME NEW p \in Pids
        PROVE  /\ proc[p] \in Process /\ proc[p].pc = "closed"
               /\ proc[p].state = {} /\ proc[p].life = 0
    BY <1>2, <1>3, StartedType DEF Started
  <1>5. Typed
    <2>1. proc \in [Pids -> Process]
      BY <1>2, <1>4
    <2>2. file \in [Dirs -> Contents] /\ arrived \subseteq Evidence
      BY <1>1 DEF Contents
    <2> QED
      BY <1>3, <2>1, <2>2 DEF Init, Typed, States
  <1>6. ASSUME NEW p \in Pids
        PROVE  CallOK(p)
    BY <1>3, <1>4 DEF CallOK, LocalsOK, PlaceOK, NamesOK, FoundOK
  <1>7. LockExcludes
    BY <1>4 DEF LockExcludes, Holds, Locked
  <1> QED
    BY <1>5, <1>6, <1>7 DEF CallInv

LEMMA NextKeepsCallInv ==
    ASSUME CallInv, [Next]_vars
    PROVE  CallInv'
  <1>1. ASSUME NEW p \in Pids, Step(p)
        PROVE  CallInv'
    BY <1>1, OpenKeeps, BeginsKeep, ReadKeeps, MutateKeeps, ForgetKeeps, RepairKeeps,
       WriteTempKeeps, RenameTempKeeps, SyncKeeps, RemoveKeeps, JudgeKeeps,
       ArchiveStateKeeps, ArchiveLegacyKeeps
    DEF Step
  <1>2. CASE UNCHANGED vars
    BY <1>2
    DEF vars, files, CallInv, Typed, LockExcludes, CallOK, LocalsOK, PlaceOK, NamesOK,
        FoundOK, Holds, Dir, State, LastName
  <1> QED
    BY <1>1, <1>2, CallFailsKeeps, DiesKeeps, MachineFailsKeeps, DamageKeeps DEF Next

LEMMA CallsStayOK == Spec => []CallInv
  BY InitCallInv, NextKeepsCallInv, PTL DEF Spec

(* Every variable keeps its type, and what a call has found under its lock  *)
(* is still so at each of its steps: a mutation writes the state that is    *)
(* there, with itself added (SessionStateFileLock, write_session_state_     *)
(* atomically).                                                             *)
THEOREM TypeCorrect == Spec => []TypeOK
  BY CallsStayOK, CallInvImpliesTypeOK, PTL

-------------------------------------------------------------------------------
(* What SessionStateFiles promises: mutations that returned survive,        *)
(* evidence is kept, and the files of a session are one register.  It rests *)
(* on CallInv: what a call has found under its lock is still so.            *)

(* What a step does to the files, by what the step is.                      *)

Quiet == UNCHANGED <<file, older, archived, acked, arrived>>
ArchivesLegacy(p) == file[Base] # None /\ ArchiveLegacy(p)

LEMMA FileSteps ==
    ASSUME CallInv, [Next]_vars
    PROVE  \/ Quiet
           \/ \E p \in Pids : \/ RenameTemp(p) \/ SyncDirectory(p) \/ RemoveFile(p)
                             \/ ArchiveState(p) \/ ArchivesLegacy(p)
           \/ MachineFails
           \/ \E d \in Dirs : Damage(d)
  <1>1. ASSUME NEW p \in Pids, Step(p)
        PROVE  \/ Quiet \/ RenameTemp(p) \/ SyncDirectory(p) \/ RemoveFile(p)
               \/ ArchiveState(p) \/ ArchivesLegacy(p)
    BY <1>1
    DEF Step, Open, OpenForRepair, Call, Read, ReadReturns, Mutate, Forget, Repair, WriteTemp,
        JudgeState, ArchiveLegacy, ArchivesLegacy, OnlyProcess, files, Quiet
  <1>2. ASSUME NEW p \in Pids, CallFails(p) \/ Dies(p)
        PROVE  Quiet
    BY <1>2 DEF CallFails, Dies, files, Quiet
  <1>3. CASE UNCHANGED vars
    BY <1>3 DEF vars, files, Quiet
  <1> QED
    BY <1>1, <1>2, <1>3 DEF Next

(* A call that takes a file away has found it sound, or archives it.        *)
LEMMA RemovedState ==
    ASSUME CallInv, NEW p \in Pids, RemoveFile(p)
    PROVE  Decodes(file[Dir(p)]) /\ SetsEntry(Dir(p), None) /\ UNCHANGED <<archived, arrived>>
  BY HolderFacts DEF RemoveFile, At, CallOK, LocalsOK, Dir

LEMMA FailedMachine ==
    ASSUME CallInv, MachineFails
    PROVE  /\ \A d \in Dirs : file'[d] \in older[d] \cup {file[d]}
           /\ older' = [d \in Dirs |-> {}]
           /\ archived' = {a \in archived :
                             a.content \in older[a.name.dir] => file'[a.name.dir] # a.content}
           /\ UNCHANGED <<acked, arrived>>
  BY DEF MachineFails

-------------------------------------------------------------------------------
(* Mutations that returned.                                                 *)

Survives(s, c) ==
    /\ c # Torn
    /\ IsState(c) => acked[s] \subseteq c
    /\ c = None => acked[s] = {}

LEMMA InitSurvives == Init => AcknowledgedSurvives
  <1> SUFFICES ASSUME Init, NEW s \in Sessions, NEW c \in older[s] \cup {file[s]}
               PROVE  Survives(s, c)
    BY DEF AcknowledgedSurvives, Survives
  <1>1. acked[s] = {} /\ older[s] = {}
    BY DEF Init, Dirs
  <1>2. file[s] \in Evidence \cup {None}
    BY DEF Init, Dirs
  <1> QED
    BY <1>1, <1>2, StateFilesConstants DEF Survives

LEMMA NextSurvives ==
    ASSUME CallInv, AcknowledgedSurvives, [Next]_vars
    PROVE  AcknowledgedSurvives'
  <1> SUFFICES ASSUME NEW s \in Sessions, NEW c \in older'[s] \cup {file'[s]}
               PROVE  Survives(s, c)'
    BY DEF AcknowledgedSurvives, Survives
  <1>a. \A b \in older[s] \cup {file[s]} : Survives(s, b)
    BY DEF AcknowledgedSurvives, Survives
  <1>b. s \in Dirs /\ file \in [Dirs -> Contents] /\ older \in [Dirs -> SUBSET Contents]
    BY DEF Dirs, CallInv, Typed
  <1>c. acked \in [Sessions -> States]
    BY DEF CallInv, Typed
  <1>1. ASSUME acked'[s] = acked[s], c \in older[s] \cup {file[s]}
        PROVE  Survives(s, c)'
    BY <1>1, <1>a DEF Survives
  <1>2. ASSUME acked'[s] = {}, c # Torn
        PROVE  Survives(s, c)'
    BY <1>2 DEF Survives
  <1>3. CASE Quiet
    BY <1>1, <1>3 DEF Quiet
  <1>4. ASSUME NEW p \in Pids, RenameTemp(p)
        PROVE  Survives(s, c)'
    <2>1. acked' = acked
      BY <1>4 DEF RenameTemp
    <2>2. CASE c \in older[s] \cup {file[s]}
      BY <1>1, <2>1, <2>2
    <2>3. CASE c \notin older[s] \cup {file[s]}
      <3>1. s = Dir(p) /\ c = proc[p].state /\ IsState(c)
        BY <1>4, <1>b, <2>3, RenamedState
      <3>2. Decodes(file[s]) /\ Survives(s, file[s])
        BY <1>4, <1>a, <3>1, RenamedState
      <3>3. acked[s] \subseteq c
        <4>1. CASE proc[p].op = "mutate"
          BY <1>4, <3>1, <3>2, <4>1, RenamedState DEF Survives, State, Decodes
        <4>2. CASE proc[p].op = "repair"
          BY <1>4, <3>1, <3>2, <4>2, RenamedState DEF Survives
        <4> QED
          BY <1>4, <4>1, <4>2, RenamedState
      <3> QED
        BY <2>1, <3>1, <3>3 DEF Survives, IsState
    <2> QED
      BY <2>2, <2>3
  <1>5. ASSUME NEW p \in Pids, SyncDirectory(p)
        PROVE  Survives(s, c)'
    <2>1. /\ file' = file /\ older' = [older EXCEPT ![Dir(p)] = {}]
          /\ acked' = [acked EXCEPT ![Dir(p)] = @ \cup (IF proc[p].op = "mutate" THEN {p} ELSE {})]
      BY <1>5 DEF SyncDirectory
    <2>2. CASE s # Dir(p)
      BY <1>1, <1>b, <1>c, <2>1, <2>2
    <2>3. CASE s = Dir(p)
      <3>1. c = file[s]
        BY <1>b, <2>1, <2>3
      <3>2. IsState(file[s]) /\ (proc[p].op = "mutate" => p \in file[s])
        BY <1>5, <2>3, HolderFacts DEF SyncDirectory, At, CallOK, FoundOK
      <3>3. acked'[s] \subseteq acked[s] \cup (IF proc[p].op = "mutate" THEN {p} ELSE {})
        BY <1>c, <2>1, <2>3
      <3>4. IsState(c) /\ Survives(s, c) /\ (proc[p].op = "mutate" => p \in c)
        BY <1>a, <3>1, <3>2
      <3>5. acked[s] \subseteq c
        BY <3>4 DEF Survives
      <3>6. acked'[s] \subseteq c
        BY <3>3, <3>4, <3>5
      <3>7. c # Torn /\ c # None
        BY <3>4 DEF IsState
      <3> QED
        BY <3>6, <3>7 DEF Survives
    <2> QED
      BY <2>2, <2>3
  <1>6. ASSUME NEW p \in Pids, NEW d \in Dirs, SetsEntry(d, None),
               s = d => acked'[s] = {}, s # d => acked'[s] = acked[s]
        PROVE  Survives(s, c)'
    <2>1. CASE s # d
      BY <1>1, <1>6, <1>b, <2>1 DEF SetsEntry
    <2>2. CASE s = d
      <3>1. c \in older[s] \cup {file[s], None}
        BY <1>6, <1>b, <2>2 DEF SetsEntry
      <3>2. c # Torn
        BY <1>a, <3>1, StateFilesConstants DEF Survives
      <3> QED
        BY <1>2, <1>6, <2>2, <3>2
    <2> QED
      BY <2>1, <2>2
  <1>7. ASSUME NEW p \in Pids, RemoveFile(p) \/ ArchiveState(p)
        PROVE  Survives(s, c)'
    <2>1. SetsEntry(Dir(p), None) /\ acked' = [acked EXCEPT ![Dir(p)] = {}] /\ Dir(p) \in Dirs
      BY <1>7, HolderFacts DEF RemoveFile, ArchiveState, ArchiveEvidence
    <2> QED
      BY <1>6, <1>c, <2>1
  <1>8. ASSUME NEW p \in Pids, ArchivesLegacy(p)
        PROVE  Survives(s, c)'
    BY <1>6, <1>8, StateFilesConstants DEF ArchivesLegacy, ArchiveLegacy, ArchiveEvidence, Dirs
  <1>9. CASE MachineFails
    BY <1>1, <1>9, <1>b, FailedMachine
  <1>10. ASSUME NEW d \in Dirs, Damage(d)
         PROVE  Survives(s, c)'
    <2>1. PICK e \in Evidence : file' = [file EXCEPT ![d] = e]
      BY <1>10 DEF Damage
    <2>2. /\ older' = [older EXCEPT ![d] = {}]
          /\ acked' = [t \in Sessions |-> IF t = d THEN {} ELSE acked[t]]
      BY <1>10 DEF Damage
    <2>3. CASE s # d
      BY <1>1, <1>b, <2>1, <2>2, <2>3
    <2>4. CASE s = d
      BY <1>2, <1>b, <2>1, <2>2, <2>4, StateFilesConstants
    <2> QED
      BY <2>3, <2>4
  <1> QED
    BY <1>3, <1>4, <1>5, <1>7, <1>8, <1>9, <1>10, FileSteps

(* A mutation that returned is in the state file whatever fails afterwards, *)
(* and no failure leaves a file half written (write_session_state_          *)
(* atomically: the file is synced before the rename, the directory after).  *)
THEOREM AcknowledgedMutationsSurvive == Spec => []AcknowledgedSurvives
  BY CallsStayOK, InitSurvives, NextSurvives, PTL DEF Spec

-------------------------------------------------------------------------------
(* Evidence.                                                                *)

(* A process never goes back behind the names it has used: its counter only *)
(* grows, and starts again only in another life.                            *)
Counts(q) ==
    \/ proc'[q].life > proc[q].life
    \/ proc'[q].life = proc[q].life /\ proc'[q].sequence >= proc[q].sequence

LEMMA ProcessesCount ==
    ASSUME CallInv, [Next]_vars, NEW q \in Pids
    PROVE  Counts(q)
  <1>1. ASSUME proc'[q] = proc[q]
        PROVE  Counts(q)
    BY <1>1, HolderFacts DEF Counts
  <1>2. ASSUME NEW p \in Pids, NEW n \in 0..MaxSequence, n >= proc[p].sequence, Returns(p, n)
        PROVE  Counts(q)
    <2>1. Moves(p) /\ proc'[p].sequence = n /\ proc'[p].life = proc[p].life
      BY <1>2, ReturnsMoves DEF CallInv
    <2> QED
      BY <1>1, <1>2, <2>1 DEF Moves, Counts
  <1>3. ASSUME NEW p \in Pids, Ok(p) \/ Err(p)
        PROVE  Counts(q)
    <2>1. proc[p].sequence \in 0..MaxSequence /\ proc[p].sequence >= proc[p].sequence
      BY HolderFacts DEF Process
    <2> QED
      BY <1>2, <1>3, <2>1 DEF Ok, Err
  <1>4. ASSUME proc'[q] = Started(Dir(q), proc[q].life + 1)
        PROVE  Counts(q)
    BY <1>4, HolderFacts DEF Counts, Started
  <1>5. ASSUME NEW p \in Pids, Step(p)
        PROVE  Counts(q)
    <2>1. CASE q # p
      <3>1. /\ Ok(p) \/ Err(p) \/ Returns(p, proc[p].sequence + 1) => proc'[q] = proc[q]
            /\ \A pc \in Places : Goto(p, pc) => proc'[q] = proc[q]
        BY <2>1 DEF Ok, Err, Returns, Goto, CallInv, Typed
      <3> QED
        BY <1>1, <1>5, <2>1, <3>1
        DEF Step, Open, OpenForRepair, Call, Read, ReadReturns, Mutate, Forget, Repair,
            WriteTemp, RenameTemp, SyncDirectory, RemoveFile, JudgeState, ArchiveState,
            ArchiveLegacy, CallInv, Typed, Places
    <2>2. CASE q = p
      <3>1. \A pc \in Places : Goto(p, pc) => Counts(p)
        BY HolderFacts DEF Goto, Counts, CallInv, Typed, Process
      <3> DEFINE Keeps == proc'[p].life = proc[p].life /\ proc'[p].sequence = proc[p].sequence
      <3>2. CASE OpenForRepair(p) \/ Open(p) \/ Repair(p) \/ \E op \in Operations : Call(p, op)
        <4>1. proc \in [Pids -> Process] /\ proc[p] \in Process
          BY DEF CallInv, Typed
        <4>2. ASSUME Open(p)
              PROVE  Keeps
          BY <4>1, <4>2 DEF Open, Process
        <4>3. ASSUME OpenForRepair(p)
              PROVE  Keeps
          BY <4>1, <4>3 DEF OpenForRepair, Process
        <4>4. ASSUME Repair(p)
              PROVE  Keeps
          BY <4>1, <4>4 DEF Repair, Process
        <4>5. ASSUME NEW op \in Operations, Call(p, op)
              PROVE  Keeps
          BY <4>1, <4>5 DEF Call, Process
        <4>6. Keeps
          BY <3>2, <4>2, <4>3, <4>4, <4>5
        <4> QED
          BY <2>2, <4>6, HolderFacts DEF Counts
      <3>3. CASE Mutate(p)
        <4>1. \/ Err(p)
              \/ proc'[p].life = proc[p].life /\ proc'[p].sequence = proc[p].sequence
          BY <3>3, HolderFacts DEF Mutate, CallInv, Typed, Process
        <4> QED
          BY <1>3, <2>2, <4>1, HolderFacts DEF Counts
      <3>4. CASE Read(p) \/ ReadReturns(p) \/ Forget(p) \/ RenameTemp(p) \/ JudgeState(p)
        BY <1>3, <2>2, <3>1, <3>4
        DEF Read, ReadReturns, Forget, RenameTemp, JudgeState, Places
      <3>5. CASE SyncDirectory(p) \/ RemoveFile(p)
        BY <1>3, <3>5 DEF SyncDirectory, RemoveFile
      <3>6. CASE WriteTemp(p)
        <4>1. proc[p].sequence + 1 \in 0..MaxSequence
          BY <3>6, HolderFacts DEF WriteTemp, At, CallOK, NamesOK
        <4> QED
          BY <1>2, <2>2, <3>6, <4>1, HolderFacts
          DEF WriteTemp, Counts, CallInv, Typed, Process
      <3>7. CASE ArchiveState(p) \/ ArchiveLegacy(p)
        BY <1>3, <2>2, <3>7, HolderFacts
        DEF ArchiveState, ArchiveLegacy, Counts, CallInv, Typed, Process
      <3> QED
        BY <1>5, <3>2, <3>3, <3>4, <3>5, <3>6, <3>7 DEF Step
    <2> QED
      BY <2>1, <2>2
  <1>6. ASSUME NEW p \in Pids, CallFails(p) \/ Dies(p)
        PROVE  Counts(q)
    BY <1>1, <1>3, <1>4, <1>6 DEF CallFails, Dies, CallInv, Typed
  <1>7. CASE MachineFails
    BY <1>4, <1>7 DEF MachineFails
  <1>8. CASE UNCHANGED vars \/ \E d \in Dirs : Damage(d)
    BY <1>1, <1>8 DEF vars, Damage
  <1> QED
    BY <1>5, <1>6, <1>7, <1>8 DEF Next

(* An archive bears a name that its maker had, and will not give again.      *)
Named(a) ==
    \/ a.life < proc[a.name.pid].life
    \/ a.life = proc[a.name.pid].life /\ a.name.sequence < proc[a.name.pid].sequence

(* Evidence that is found in its place was there before the machine failed.  *)
EvidenceInv ==
    /\ EvidenceKept
    /\ \A a \in archived : Named(a)
    /\ \A d \in Dirs : file[d] \in Evidence => older[d] = {}

LEMMA NamedStays ==
    ASSUME CallInv, [Next]_vars, NEW a \in archived, Named(a)
    PROVE  Named(a)'
  <1>1. a.name.pid \in Pids /\ a.life \in Nat /\ a.name.sequence \in Nat
    BY DEF CallInv, Typed, Archive, Name
  <1>2. Counts(a.name.pid)
    BY <1>1, ProcessesCount
  <1>3. CallInv'
    BY NextKeepsCallInv
  <1>4. /\ proc[a.name.pid].life \in Nat /\ proc[a.name.pid].sequence \in Nat
        /\ proc'[a.name.pid].life \in Nat /\ proc'[a.name.pid].sequence \in Nat
    BY <1>1, <1>3 DEF CallInv, Typed, Process
  <1> QED
    BY <1>1, <1>2, <1>4 DEF Named, Counts

LEMMA InitEvidence == Init => EvidenceInv
  BY DEF Init, EvidenceInv, EvidenceKept

(* An archive takes the next name of its maker, which it has not given yet.  *)
LEMMA ArchiveKeepsEvidence ==
    ASSUME CallInv, EvidenceInv, [Next]_vars, NEW p \in Pids, NEW d \in Dirs,
           ArchiveEvidence(p, d), proc'[p].life = proc[p].life,
           proc'[p].sequence = proc[p].sequence + 1, arrived' = arrived
    PROVE  EvidenceInv'
  <1> DEFINE new == [name |-> NextName(p, d), life |-> proc[p].life, content |-> file[d]]
  <1>1. archived' = archived \cup {new} /\ file' = [file EXCEPT ![d] = None]
        /\ older' = [older EXCEPT ![d] = @ \cup {file[d]}]
    BY DEF ArchiveEvidence, SetsEntry
  <1>2. /\ new.name.pid = p /\ new.name.sequence = proc[p].sequence /\ new.life = proc[p].life
        /\ new.content = file[d]
    BY DEF NextName
  <1>3. \A a \in archived' : Named(a)'
    <2>1. ASSUME NEW a, a = new
          PROVE  Named(a)'
      <3>1. a.name.pid = p /\ a.name.sequence = proc[p].sequence /\ a.life = proc[p].life
        BY <1>2, <2>1
      <3> QED
        BY <3>1, HolderFacts DEF Named
    <2>2. \A a \in archived : Named(a)'
      BY NamedStays DEF EvidenceInv
    <2> QED
      BY <1>1, <2>1, <2>2
  <1>4. \A e \in Dirs : file'[e] \in Evidence => older'[e] = {}
    BY <1>1, StateFilesConstants DEF EvidenceInv, CallInv, Typed
  <1>5. \A e \in arrived' : (\E b \in Dirs : file'[b] = e) \/ \E a \in archived' : a.content = e
    BY <1>1, <1>2 DEF EvidenceInv, EvidenceKept, CallInv, Typed
  <1>6. \A a \in archived : a.name # new.name \/ a.life # new.life
    BY <1>2, HolderFacts DEF EvidenceInv, Named
  <1>7. \A a, b \in archived' : a.name = b.name /\ a.life = b.life => a = b
    BY <1>1, <1>6 DEF EvidenceInv, EvidenceKept
  <1> QED
    BY <1>3, <1>4, <1>5, <1>7 DEF EvidenceInv, EvidenceKept

(* A file that is written over or removed holds no evidence.                 *)
LEMMA SoundFileGoes ==
    ASSUME CallInv, EvidenceInv, [Next]_vars, NEW d \in Dirs, NEW c \in Contents \ Evidence,
           file[d] \notin Evidence, file' = [file EXCEPT ![d] = c],
           older' = [older EXCEPT ![d] = @ \cup {file[d]}],
           archived' = archived, arrived' = arrived
    PROVE  EvidenceInv'
  <1>1. \A a \in archived' : Named(a)'
    BY NamedStays DEF EvidenceInv
  <1>2. \A e \in Dirs : file'[e] \in Evidence => older'[e] = {}
    BY DEF EvidenceInv, CallInv, Typed
  <1>3. \A e \in Dirs : file[e] \in Evidence => file'[e] = file[e]
    BY DEF CallInv, Typed
  <1>4. \A e \in arrived : (\E b \in Dirs : file[b] = e) => \E b \in Dirs : file'[b] = e
    BY <1>3 DEF CallInv, Typed
  <1> QED
    BY <1>1, <1>2, <1>4 DEF EvidenceInv, EvidenceKept

LEMMA NextEvidence ==
    ASSUME CallInv, EvidenceInv, [Next]_vars
    PROVE  EvidenceInv'
  <1>1. CASE Quiet
    <2>1. \A a \in archived' : Named(a)'
      BY <1>1, NamedStays DEF EvidenceInv, Quiet
    <2> QED
      BY <1>1, <2>1 DEF EvidenceInv, EvidenceKept, Quiet
  <1>2. ASSUME NEW p \in Pids, RenameTemp(p)
        PROVE  EvidenceInv'
    <2>1. file[Dir(p)] \notin Evidence /\ proc[p].state \in Contents \ Evidence
      BY <1>2, RenamedState, HolderFacts, StateFilesConstants DEF Decodes, IsState, Contents
    <2>2. archived' = archived /\ arrived' = arrived
      BY <1>2 DEF RenameTemp
    <2> QED
      BY <1>2, <2>1, <2>2, RenamedState, SoundFileGoes, HolderFacts
  <1>3. ASSUME NEW p \in Pids, RemoveFile(p)
        PROVE  EvidenceInv'
    BY <1>3, RemovedState, SoundFileGoes, HolderFacts, StateFilesConstants
    DEF SetsEntry, Decodes, IsState, Contents
  <1>4. ASSUME NEW p \in Pids, SyncDirectory(p)
        PROVE  EvidenceInv'
    <2>1. /\ UNCHANGED <<file, archived, arrived>> /\ older' = [older EXCEPT ![Dir(p)] = {}]
      BY <1>4 DEF SyncDirectory
    <2>2. \A a \in archived' : Named(a)'
      BY <2>1, NamedStays DEF EvidenceInv
    <2>3. \A d \in Dirs : file'[d] \in Evidence => older'[d] = {}
      BY <2>1 DEF EvidenceInv, CallInv, Typed
    <2> QED
      BY <2>1, <2>2, <2>3 DEF EvidenceInv, EvidenceKept
  <1>5. ASSUME NEW p \in Pids, ArchiveState(p) \/ ArchivesLegacy(p)
        PROVE  EvidenceInv'
    <2>1. \E d \in Dirs : ArchiveEvidence(p, d)
      BY <1>5, HolderFacts DEF ArchiveState, ArchivesLegacy, ArchiveLegacy, Dirs
    <2>2. \/ proc' = [proc EXCEPT ![p].sequence = @ + 1, ![p].pc = "create"]
          \/ proc' = [proc EXCEPT ![p].sequence = @ + 1, ![p].pc = "archive_legacy"]
      BY <1>5 DEF ArchiveState, ArchivesLegacy, ArchiveLegacy
    <2>3. /\ proc'[p].life = proc[p].life /\ proc'[p].sequence = proc[p].sequence + 1
      BY <2>2, HolderFacts DEF CallInv, Typed, Process
    <2>4. arrived' = arrived
      BY <1>5 DEF ArchiveState, ArchivesLegacy, ArchiveLegacy
    <2> QED
      BY <2>1, <2>3, <2>4, ArchiveKeepsEvidence
  <1>6. CASE MachineFails
    <2>1. /\ \A d \in Dirs : file'[d] \in older[d] \cup {file[d]}
          /\ older' = [d \in Dirs |-> {}]
          /\ archived' = {a \in archived :
                            a.content \in older[a.name.dir] => file'[a.name.dir] # a.content}
          /\ arrived' = arrived
      BY <1>6, FailedMachine
    <2>2. \A a \in archived' : Named(a)'
      BY <2>1, NamedStays DEF EvidenceInv
    <2>3. ASSUME NEW e \in arrived
          PROVE  (\E d \in Dirs : file'[d] = e) \/ \E a \in archived' : a.content = e
      <3>1. CASE \E d \in Dirs : file[d] = e
        BY <2>1, <3>1 DEF EvidenceInv, CallInv, Typed
      <3>2. ASSUME NEW a \in archived, a.content = e
            PROVE  (\E d \in Dirs : file'[d] = e) \/ \E b \in archived' : b.content = e
        <4>1. a.name.dir \in Dirs
          BY DEF CallInv, Typed, Archive, Name
        <4> QED
          BY <2>1, <3>2, <4>1
      <3> QED
        BY <3>1, <3>2 DEF EvidenceInv, EvidenceKept
    <2> QED
      BY <2>1, <2>2, <2>3 DEF EvidenceInv, EvidenceKept
  <1>7. ASSUME NEW d \in Dirs, Damage(d)
        PROVE  EvidenceInv'
    <2>1. PICK e \in Evidence : file' = [file EXCEPT ![d] = e] /\ arrived' = arrived \cup {e}
      BY <1>7 DEF Damage
    <2>2. /\ older' = [older EXCEPT ![d] = {}] /\ archived' = archived /\ file[d] \notin Evidence
      BY <1>7 DEF Damage
    <2>3. \A a \in archived' : Named(a)'
      BY <2>2, NamedStays DEF EvidenceInv
    <2>4. \A b \in Dirs : file'[b] \in Evidence => older'[b] = {}
      BY <2>1, <2>2 DEF EvidenceInv, CallInv, Typed
    <2>5. \A b \in Dirs : b # d => file'[b] = file[b]
      BY <2>1 DEF CallInv, Typed
    <2>6. file'[d] = e
      BY <2>1 DEF CallInv, Typed
    <2>7. \A f \in arrived : (\E b \in Dirs : file[b] = f) => \E b \in Dirs : file'[b] = f
      BY <2>2, <2>5 DEF CallInv, Typed
    <2> QED
      BY <2>1, <2>2, <2>3, <2>4, <2>6, <2>7 DEF EvidenceInv, EvidenceKept
  <1> QED
    BY <1>1, <1>2, <1>3, <1>4, <1>5, <1>6, <1>7, FileSteps

(* Evidence is where it was found or in an archive, and an archive gives way *)
(* only to one of a later process that had the same id and has counted as    *)
(* far (archive_session_state_evidence).                                     *)
THEOREM EvidenceIsKept == Spec => []EvidenceKept
  <1>1. EvidenceInv => EvidenceKept
    BY DEF EvidenceInv
  <1> QED
    BY <1>1, CallsStayOK, InitEvidence, NextEvidence, PTL DEF Spec

-------------------------------------------------------------------------------
(* The state files of the sessions are one register each.                   *)

(* A rename or an unlink in a session's directory sets its register.         *)
LEMMA EntrySetsRegister ==
    ASSUME CallInv, NEW s \in Sessions, NEW c, file' = [file EXCEPT ![s] = c],
           older' = [older EXCEPT ![s] = @ \cup {file[s]}]
    PROVE  Register!Set(s, c)
  <1>1. Sessions \subseteq Dirs /\ file \in [Dirs -> Contents] /\ older \in [Dirs -> SUBSET Contents]
    BY DEF Dirs, CallInv, Typed
  <1>2. [t \in Sessions |-> file'[t]] = [[t \in Sessions |-> file[t]] EXCEPT ![s] = c]
    BY <1>1
  <1>3. [t \in Sessions |-> older'[t]] =
          [[t \in Sessions |-> older[t]] EXCEPT ![s] = @ \cup {[t \in Sessions |-> file[t]][s]}]
    BY <1>1
  <1> QED
    BY <1>2, <1>3 DEF Register!Set

LEMMA RegisterStays ==
    ASSUME \A s \in Sessions : file'[s] = file[s] /\ older'[s] = older[s]
    PROVE  UNCHANGED Register!vars
  BY DEF Register!vars

LEMMA InitRegister == Init => Register!Init
  <1> SUFFICES ASSUME Init
               PROVE  Register!Init
    OBVIOUS
  <1>1. \A s \in Sessions : file[s] \in Evidence \cup {None} /\ older[s] = {}
    BY DEF Init, Dirs
  <1> QED
    BY <1>1 DEF Register!Init

(* The rename of a temporary file is the mutation, or the creation that ends *)
(* a repair; whatever comes before it does not show.                         *)
LEMMA RenameIsOneStep ==
    ASSUME CallInv, NEW p \in Pids, RenameTemp(p)
    PROVE  Register!Next
  <1>1. PICK s \in Sessions, v \in States : s = Dir(p) /\ v = proc[p].state
    BY HolderFacts
  <1>2. Register!Set(s, v)
    BY <1>1, RenamedState, EntrySetsRegister
  <1>3. [t \in Sessions |-> file[t]][s] = file[s]
    OBVIOUS
  <1>4. CASE proc[p].op = "mutate"
    <2>1. file[s] \notin Evidence
      BY <1>1, RenamedState, StateFilesConstants DEF Decodes, IsState
    <2>2. v = (IF file[s] = None THEN {} ELSE file[s]) \cup {p}
      BY <1>1, <1>4, RenamedState DEF State
    <2>3. v = (IF [t \in Sessions |-> file[t]][s] = None
                 THEN {} ELSE [t \in Sessions |-> file[t]][s]) \cup {p}
      BY <1>3, <2>2
    <2>4. Register!Mutate(s, p)
      BY <1>2, <1>3, <2>1, <2>3 DEF Register!Mutate, Register!Set
    <2> QED
      BY <2>4 DEF Register!Next
  <1>5. CASE proc[p].op = "repair"
    <2>1. v = {} /\ file[s] = None
      BY <1>1, <1>5, RenamedState
    <2>2. Register!Create(s)
      BY <1>2, <1>3, <2>1 DEF Register!Create
    <2> QED
      BY <2>2 DEF Register!Next
  <1> QED
    BY <1>4, <1>5, RenamedState

LEMMA StepIsRegisterStep ==
    ASSUME CallInv, [Next]_vars
    PROVE  [Register!Next]_Register!vars
  <1>a. Sessions \subseteq Dirs /\ file \in [Dirs -> Contents] /\ older \in [Dirs -> SUBSET Contents]
    BY DEF Dirs, CallInv, Typed
  <1>1. CASE Quiet
    BY <1>1, RegisterStays DEF Quiet
  <1>2. ASSUME NEW p \in Pids, SyncDirectory(p)
        PROVE  Register!Next
    <2>1. PICK s \in Sessions : file' = file /\ older' = [older EXCEPT ![s] = {}]
      BY <1>2, HolderFacts DEF SyncDirectory
    <2>2. [t \in Sessions |-> older'[t]] = [[t \in Sessions |-> older[t]] EXCEPT ![s] = {}]
      BY <1>a, <2>1
    <2>3. Register!Settle(s)
      BY <2>1, <2>2 DEF Register!Settle
    <2> QED
      BY <2>3 DEF Register!Next
  <1>3. ASSUME NEW p \in Pids, RemoveFile(p) \/ ArchiveState(p)
        PROVE  Register!Next
    <2>1. PICK s \in Sessions : SetsEntry(s, None)
      BY <1>3, HolderFacts DEF RemoveFile, ArchiveState, ArchiveEvidence
    <2>2. Register!Remove(s)
      BY <2>1, EntrySetsRegister DEF SetsEntry, Register!Remove
    <2> QED
      BY <2>2 DEF Register!Next
  <1>4. ASSUME NEW p \in Pids, ArchivesLegacy(p)
        PROVE  UNCHANGED Register!vars
    <2>1. SetsEntry(Base, None)
      BY <1>4 DEF ArchivesLegacy, ArchiveLegacy, ArchiveEvidence
    <2> QED
      BY <1>a, <2>1, RegisterStays, StateFilesConstants DEF SetsEntry
  <1>5. CASE MachineFails
    <2>1. \A s \in Sessions : file'[s] \in older[s] \cup {file[s]}
      BY <1>5, <1>a, FailedMachine
    <2>2. [s \in Sessions |-> older'[s]] = [s \in Sessions |-> {}]
      BY <1>5, <1>a, FailedMachine
    <2>3. Register!SetBack
      BY <2>1, <2>2 DEF Register!SetBack
    <2> QED
      BY <2>3 DEF Register!Next
  <1>6. ASSUME NEW d \in Dirs, Damage(d)
        PROVE  [Register!Next]_Register!vars
    <2>1. PICK e \in Evidence : file' = [file EXCEPT ![d] = e]
      BY <1>6 DEF Damage
    <2>2. older' = [older EXCEPT ![d] = {}] /\ file[d] \notin Evidence
      BY <1>6 DEF Damage
    <2>3. CASE d = Base
      <3>1. \A s \in Sessions : s # d
        BY <2>3, StateFilesConstants
      <3>2. \A s \in Sessions : file'[s] = file[s] /\ older'[s] = older[s]
        BY <1>a, <2>1, <2>2, <3>1
      <3> QED
        BY <3>2, RegisterStays
    <2>4. CASE d \in Sessions
      <3>1. [s \in Sessions |-> file'[s]] = [[s \in Sessions |-> file[s]] EXCEPT ![d] = e]
        BY <1>a, <2>1, <2>4
      <3>2. [s \in Sessions |-> older'[s]] = [[s \in Sessions |-> older[s]] EXCEPT ![d] = {}]
        BY <1>a, <2>2, <2>4
      <3>3. [s \in Sessions |-> file[s]][d] \notin Evidence
        BY <2>2, <2>4
      <3>4. Register!Damage(d)
        BY <3>1, <3>2, <3>3 DEF Register!Damage
      <3> QED
        BY <2>4, <3>4 DEF Register!Next
    <2> QED
      BY <2>3, <2>4 DEF Dirs
  <1> QED
    BY <1>1, <1>2, <1>3, <1>4, <1>5, <1>6, RenameIsOneStep, FileSteps

(* What the processes do to the state files through locks, temporary files,  *)
(* renames and archives, with failures between any two steps, is what they   *)
(* would do to one register per session, each call in one step (the whole    *)
(* of SessionTabStateStore).                                                *)
THEOREM StoreRefinesRegister == Spec => StoreIsAtomic
  BY CallsStayOK, InitRegister, StepIsRegisterStep, PTL
  DEF Spec, StoreIsAtomic, Register!Spec
===============================================================================
