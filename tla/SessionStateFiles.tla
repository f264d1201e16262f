--------------------------- MODULE SessionStateFiles ---------------------------
(***************************************************************************)
(* locks.rs, SessionTabStateStore: how processes share the state files of   *)
(* sessions.  Each session has a directory with state.json, its lock, and   *)
(* the temporary and archived files the process id and a counter name; the  *)
(* base directory may hold locks.json, evidence of an older release.        *)
(*                                                                          *)
(* A state is the set of the processes whose mutations it contains: what a  *)
(* mutation does is SessionTabState's.  A step is one access to a file; the *)
(* machine, a process or the disk may fail between any two.                 *)
(***************************************************************************)
EXTENDS Naturals

CONSTANTS
    Sessions,
    Base,         \* the base directory, of no session and under no lock
    Pids,         \* process ids; one may be given to a process after another
    Evidence,     \* contents that no process wrote and that do not decode
    Torn,         \* what is left of a file that was not written out
    None,
    MaxSequence,
    MaxMishaps

Dirs   == Sessions \cup {Base}
States == SUBSET Pids

ASSUME StateFilesConstants ==
    /\ Base \notin Sessions
    /\ Torn \notin Evidence /\ None \notin Evidence \cup {Torn} \cup Sessions
    /\ \A state \in States : state \notin Evidence \cup {Torn, None}
    /\ MaxSequence \in Nat /\ MaxMishaps \in Nat

VARIABLES
    file,      \* file[d]: state.json of a session, locks.json of Base
    older,     \* older[d]: what it may be again when the machine fails
    temps,     \* the names of temporary files
    proc,      \* proc[p]: the process of id p, where its call is, its locals
    acked,     \* acked[s]: the mutations that returned, and were not undone
    arrived,   \* the evidence so far
    archived,  \* the archives made, those since replaced included
    mishaps    \* mishaps left

files == <<file, older, temps, archived>>
vars  == <<files, proc, acked, arrived, mishaps>>

Contents == Evidence \cup {Torn, None} \cup States
IsState(c) == c \notin Evidence \cup {Torn, None}
Decodes(c) == IsState(c) \/ c = None

(* Two processes with one id start to count at 0, so their names may meet;  *)
(* life tells them apart.                                                   *)
Name    == [dir: Dirs, pid: Pids, sequence: 0..MaxSequence]
Archive == [name: Name, life: 0..MaxMishaps, content: Contents]

Operations == {"read", "mutate", "repair", "forget"}
Places == {"closed", "ready", "lock", "read", "create", "rename", "sync",
           "remove", "judge", "archive", "archive_legacy"}
Locked == Places \ {"closed", "ready", "lock"}
Process == [life: 0..MaxMishaps, sequence: 0..MaxSequence, session: Sessions,
            opened: BOOLEAN, op: Operations, pc: Places,
            state: States, legacy: BOOLEAN, synced: BOOLEAN]
Started(s, life) ==
    [life |-> life, sequence |-> 0, session |-> s, opened |-> FALSE, op |-> "read",
     pc |-> "closed", state |-> {}, legacy |-> FALSE, synced |-> FALSE]

NextName(p, d) == [dir |-> d, pid |-> p, sequence |-> proc[p].sequence]
LastName(p, d) == [dir |-> d, pid |-> p, sequence |-> proc[p].sequence - 1]

(* A missing file is an empty state.                                        *)
State(d) == IF file[d] = None THEN {} ELSE file[d]

(* What a process found under its lock is still so.                         *)
LocalsOK(p) ==
    LET d == proc[p].session
    IN  /\ proc[p].pc = "archive" => file[d] # None
        /\ proc[p].pc = "archive_legacy" => proc[p].legacy
        /\ proc[p].pc = "rename" => LastName(p, d) \in temps
        /\ proc[p].pc \in {"remove", "create", "rename"} => Decodes(file[d])
        /\ proc[p].pc \in {"create", "rename"} /\ proc[p].op = "mutate" =>
             proc[p].state = State(d) \cup {p}

TypeOK ==
    /\ file \in [Dirs -> Contents] /\ older \in [Dirs -> SUBSET Contents]
    /\ temps \subseteq Name /\ archived \subseteq Archive
    /\ proc \in [Pids -> Process]
    /\ acked \in [Sessions -> States] /\ arrived \subseteq Evidence
    /\ mishaps \in 0..MaxMishaps
    /\ \A p \in Pids : LocalsOK(p)

(* One directory may hold evidence from before; an id serves one session.   *)
Init ==
    /\ \E d \in Dirs, c \in Evidence \cup {None} :
         /\ file = [[e \in Dirs |-> None] EXCEPT ![d] = c]
         /\ arrived = {c} \ {None}
    /\ older = [d \in Dirs |-> {}]
    /\ temps = {} /\ archived = {}
    /\ \E s \in [Pids -> Sessions] : proc = [p \in Pids |-> Started(s[p], 0)]
    /\ acked = [s \in Sessions |-> {}]
    /\ mishaps = MaxMishaps

Spend == mishaps > 0 /\ mishaps' = mishaps - 1

-------------------------------------------------------------------------------
(* How a call moves on.                                                     *)

At(p, pc) == proc[p].pc = pc
Dir(p)    == proc[p].session

Goto(p, pc) == proc' = [proc EXCEPT ![p].pc = pc]

(* The call returns, Ok or Err; the drop of its guard unlocks the file.  A   *)
(* store opened for a repair serves no other call.                          *)
Returns(p, sequence) ==
    proc' = [proc EXCEPT ![p] =
               IF proc[p].opened
               THEN [Started(Dir(p), proc[p].life) EXCEPT !.pc = "ready", !.opened = TRUE,
                                                          !.sequence = sequence]
               ELSE [Started(Dir(p), proc[p].life) EXCEPT !.sequence = sequence]]
Ok(p)  == Returns(p, proc[p].sequence)
Err(p) == Returns(p, proc[p].sequence)

(* rename, unlink: seen at once, and settled when the directory is synced.  *)
SetsEntry(d, content) ==
    /\ file' = [file EXCEPT ![d] = content]
    /\ older' = [older EXCEPT ![d] = @ \cup {file[d]}]

OnlyProcess == UNCHANGED <<files, acked, arrived, mishaps>>

-------------------------------------------------------------------------------
(* open, and open_for_repair with the repair it is for.  A call uses up to  *)
(* three names.                                                             *)

HasNames(p) == proc[p].sequence + 3 <= MaxSequence

Open(p) ==
    /\ At(p, "closed") /\ file[Base] = None
    /\ proc' = [proc EXCEPT ![p].pc = "ready", ![p].opened = TRUE]
    /\ OnlyProcess

OpenForRepair(p) ==
    /\ At(p, "closed") /\ HasNames(p)
    /\ proc' = [proc EXCEPT ![p].pc = "lock", ![p].op = "repair"]
    /\ OnlyProcess

Call(p, op) ==
    /\ At(p, "ready") /\ HasNames(p)
    /\ proc' = [proc EXCEPT ![p].op = op, ![p].pc = "lock"]
    /\ OnlyProcess

(* SessionStateFileLock::acquire, and the first look under the lock.         *)
(* A mistake to be caught (README, Mutants). *)
CompatibleAlways(op, other) == TRUE
Compatible(op, other) == op = "read" /\ other = "read"

Acquires(p) ==
    /\ At(p, "lock")
    /\ \A q \in Pids \ {p} :
         Dir(q) = Dir(p) /\ proc[q].pc \in Locked => Compatible(proc[p].op, proc[q].op)

(* load_locked: legacy evidence, or evidence for a state, is an error.      *)
Loads(d) == file[Base] = None /\ Decodes(file[d])

Read(p) ==
    /\ Acquires(p) /\ proc[p].op = "read"
    /\ IF Loads(Dir(p)) THEN Goto(p, "read") ELSE Err(p)
    /\ OnlyProcess
ReadReturns(p) == At(p, "read") /\ Ok(p) /\ OnlyProcess

Mutate(p) ==
    /\ Acquires(p) /\ proc[p].op = "mutate"
    /\ IF Loads(Dir(p))
       THEN proc' = [proc EXCEPT ![p].state = State(Dir(p)) \cup {p}, ![p].pc = "create"]
       ELSE Err(p)
    /\ OnlyProcess

Forget(p) ==
    /\ Acquires(p) /\ proc[p].op = "forget"
    /\ IF Loads(Dir(p)) THEN Goto(p, "remove") ELSE Err(p)
    /\ OnlyProcess

Repair(p) ==
    /\ Acquires(p) /\ proc[p].op = "repair"
    /\ proc' = [proc EXCEPT ![p].legacy = (file[Base] # None), ![p].pc = "judge"]
    /\ OnlyProcess

-------------------------------------------------------------------------------
(* write_session_state_atomically.                                          *)

(* create_new, write_all and sync_all.  A file of that name, left by a       *)
(* process of the same id, is an error, and the counter has moved on.       *)
(* A mistake to be caught (README, Mutants). *)
WriteTempUnsynced(p) ==
    /\ At(p, "create")
    /\ temps' = temps \cup {NextName(p, Dir(p))}
    /\ proc' = [proc EXCEPT ![p].sequence = @ + 1, ![p].pc = "rename"]
    /\ UNCHANGED <<file, older, archived, acked, arrived, mishaps>>
WriteTemp(p) ==
    /\ At(p, "create")
    /\ IF NextName(p, Dir(p)) \in temps
       THEN Returns(p, proc[p].sequence + 1) /\ UNCHANGED temps
       ELSE /\ temps' = temps \cup {NextName(p, Dir(p))}
            /\ proc' = [proc EXCEPT ![p].sequence = @ + 1, ![p].synced = TRUE,
                                    ![p].pc = "rename"]
    /\ UNCHANGED <<file, older, archived, acked, arrived, mishaps>>

RenameTemp(p) ==
    /\ At(p, "rename")
    /\ temps' = temps \ {LastName(p, Dir(p))}
    /\ file' = [file EXCEPT ![Dir(p)] = proc[p].state]
    /\ older' = [older EXCEPT ![Dir(p)] =
                   @ \cup {file[Dir(p)]} \cup (IF proc[p].synced THEN {} ELSE {Torn})]
    /\ Goto(p, "sync")
    /\ UNCHANGED <<archived, acked, arrived, mishaps>>

SyncDirectory(p) ==
    /\ At(p, "sync")
    /\ older' = [older EXCEPT ![Dir(p)] = {}]
    /\ acked' = [acked EXCEPT ![Dir(p)] = @ \cup (IF proc[p].op = "mutate" THEN {p} ELSE {})]
    /\ Ok(p)
    /\ UNCHANGED <<file, temps, archived, arrived, mishaps>>

-------------------------------------------------------------------------------
(* forget_session, past its load.                                           *)

RemoveFile(p) ==
    /\ At(p, "remove")
    /\ SetsEntry(Dir(p), None)
    /\ acked' = [acked EXCEPT ![Dir(p)] = {}]
    /\ Ok(p)
    /\ UNCHANGED <<temps, archived, arrived, mishaps>>

-------------------------------------------------------------------------------
(* repair_discard.                                                          *)

(* With legacy evidence a valid state is discarded as well.                 *)
(* A mistake to be caught (README, Mutants). *)
JudgeLegacyOnly(p) ==
    /\ At(p, "judge")
    /\ IF Decodes(file[Dir(p)]) /\ ~proc[p].legacy THEN Ok(p) ELSE Goto(p, "archive")
    /\ OnlyProcess
JudgeState(p) ==
    /\ At(p, "judge")
    /\ LET c == file[Dir(p)]
       IN  IF Decodes(c) /\ ~proc[p].legacy THEN Ok(p)
           ELSE Goto(p, IF c # None THEN "archive" ELSE "archive_legacy")
    /\ OnlyProcess

(* archive_session_state_evidence.  The rename replaces an archive of the    *)
(* same name, which has been made all the same.                             *)
(* A mistake to be caught (README, Mutants). *)
DiscardInstead(p, d) ==
    /\ SetsEntry(d, None)
    /\ UNCHANGED archived
ArchiveEvidence(p, d) ==
    /\ SetsEntry(d, None)
    /\ archived' = archived \cup
         {[name |-> NextName(p, d), life |-> proc[p].life, content |-> file[d]]}

ArchiveState(p) ==
    /\ At(p, "archive")
    /\ ArchiveEvidence(p, Dir(p))
    /\ proc' = [proc EXCEPT ![p].sequence = @ + 1,
                            ![p].pc = IF proc[p].legacy THEN "archive_legacy" ELSE "create"]
    /\ acked' = [acked EXCEPT ![Dir(p)] = {}]
    /\ UNCHANGED <<temps, arrived, mishaps>>

(* A repair of another session may have archived it first.                  *)
ArchiveLegacy(p) ==
    /\ At(p, "archive_legacy")
    /\ IF file[Base] = None
       THEN Err(p) /\ UNCHANGED <<file, older, archived>>
       ELSE /\ ArchiveEvidence(p, Base)
            /\ proc' = [proc EXCEPT ![p].sequence = @ + 1, ![p].pc = "create"]
    /\ UNCHANGED <<temps, acked, arrived, mishaps>>

-------------------------------------------------------------------------------
(* Failures.                                                                *)

(* The disk refuses an operation: the call ends with what it did so far.    *)
CallFails(p) ==
    /\ proc[p].pc \in Locked
    /\ Spend
    /\ Err(p)
    /\ UNCHANGED <<files, acked, arrived>>

(* A process ends, in the middle of a call or not; its id is given again.   *)
Dies(p) ==
    /\ ~At(p, "closed")
    /\ Spend
    /\ proc' = [proc EXCEPT ![p] = Started(Dir(p), proc[p].life + 1)]
    /\ UNCHANGED <<files, acked, arrived>>

(* An archived file whose rename is undone is back at its place, and what   *)
(* the rename replaced is back as well.                                     *)
MachineFails ==
    /\ Spend
    /\ \E now \in [Dirs -> UNION {older[d] \cup {file[d]} : d \in Dirs}] :
         /\ \A d \in Dirs : now[d] \in older[d] \cup {file[d]}
         /\ file' = now
         /\ archived' = {a \in archived :
                           a.content \in older[a.name.dir] => now[a.name.dir] # a.content}
    /\ older' = [d \in Dirs |-> {}]
    /\ temps' \in {temps, {}}
    /\ proc' = [p \in Pids |-> Started(Dir(p), proc[p].life + 1)]
    /\ UNCHANGED <<acked, arrived>>

(* An older release, an editor or the disk; nobody who holds the lock.      *)
Damage(d) ==
    /\ Spend
    /\ file[d] \notin Evidence
    /\ \A p \in Pids : Dir(p) = d => proc[p].pc \notin Locked
    /\ \E e \in Evidence \ arrived :
         file' = [file EXCEPT ![d] = e] /\ arrived' = arrived \cup {e}
    /\ older' = [older EXCEPT ![d] = {}]
    /\ acked' = [s \in Sessions |-> IF s = d THEN {} ELSE acked[s]]
    /\ UNCHANGED <<temps, archived, proc>>

-------------------------------------------------------------------------------
Step(p) ==
    \/ Open(p) \/ OpenForRepair(p)
    \/ \E op \in Operations : Call(p, op)
    \/ Read(p) \/ ReadReturns(p) \/ Mutate(p) \/ Forget(p) \/ Repair(p)
    \/ WriteTemp(p) \/ RenameTemp(p) \/ SyncDirectory(p)
    \/ RemoveFile(p) \/ JudgeState(p) \/ ArchiveState(p) \/ ArchiveLegacy(p)

Next ==
    \/ \E p \in Pids : Step(p) \/ CallFails(p) \/ Dies(p)
    \/ MachineFails
    \/ \E d \in Dirs : Damage(d)

Spec == Init /\ [][Next]_vars

-------------------------------------------------------------------------------
(* Properties.                                                              *)

(* A mutation that returned is in the state file whatever fails afterwards, *)
(* until a forget, a repair or damage takes the whole state away; and no    *)
(* failure leaves a file half written (refresh_executor records an intent   *)
(* before it renames, and relies on both).                                  *)
AcknowledgedSurvives ==
    \A s \in Sessions : \A c \in older[s] \cup {file[s]} :
      /\ c # Torn
      /\ IsState(c) => acked[s] \subseteq c
      /\ c = None => acked[s] = {}

(* Evidence is never lost: it is where it was found or was archived, and an *)
(* archive gives way only to that of a later process that had the same id   *)
(* and has counted as far (CONTEXT.md, Invalid Session State: "Tabby         *)
(* preserves the original data").                                           *)
EvidenceKept ==
    /\ \A e \in arrived :
         (\E d \in Dirs : file[d] = e) \/ (\E a \in archived : a.content = e)
    /\ \A a, b \in archived : a.name = b.name /\ a.life = b.life => a = b

(* The calls of all processes are those of one register: no mutation is     *)
(* lost to another, none is seen in part, and only a mutation that has not  *)
(* returned can be undone by a failure of the machine.                      *)
Register == INSTANCE AtomicStore WITH
    value <- [s \in Sessions |-> file[s]],
    past  <- [s \in Sessions |-> older[s]]

StoreIsAtomic == Register!Spec
================================================================================
