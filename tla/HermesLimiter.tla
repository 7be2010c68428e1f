--------------------------- MODULE HermesLimiter ----------------------------
(***************************************************************************)
(* The cross-process semaphore of Hermes calls (hermes/limiter.ts): one    *)
(* lock file per slot, created with O_EXCL, taken away from a process that *)
(* no longer lives.  Processes interleave between file-system calls, so    *)
(* every read, unlink and exclusive open is an action.  A slow writer is   *)
(* one whose file stayed empty for the grace period.                       *)
(*                                                                         *)
(* A process that crashes does not come back; its restart under PM2 is     *)
(* another process with another pid.  A process has one acquisition at a   *)
(* time, which its pid identifies (the token of the file is abstracted).   *)
(***************************************************************************)
EXTENDS Naturals, FiniteSets

CONSTANTS
    Processes,
    NoProcess,
    MaxConcurrency,
    MaxCrashes,       \* bound: crashes in a behaviour
    MaxSlow           \* bound: writers that outlive the grace period

ASSUME NoProcessAssumption == NoProcess \notin Processes
ASSUME MaxConcurrencyAssumption == MaxConcurrency \in Nat \ {0}
ASSUME MaxSlowAssumption == MaxSlow \in Nat

VARIABLES
    file,    \* the lock file of each slot
    proc,    \* where each process is in acquire or release
    alive,   \* the processes whose pid exists
    slow     \* how often an empty file got old while its writer lived

vars == <<file, proc, alive, slow>>

Slots == 0 .. MaxConcurrency - 1

(* A file is created empty by a process, then gets its metadata.  `old`:   *)
(* it stayed empty for the grace period of malformed files.                *)
File == [by : Processes \cup {NoProcess}, written : BOOLEAN, old : BOOLEAN]

NoFile == [by |-> NoProcess, written |-> FALSE, old |-> FALSE]

Exists(s) == file[s] # NoFile

Pc == {"idle", "read", "reread", "stat", "restat", "unlink", "open", "write", "hold", "drop"}

Process == [pc : Pc, slot : Slots, seen : Processes \cup {NoProcess}]

Idle == [pc |-> "idle", slot |-> 0, seen |-> NoProcess]

Init ==
    /\ file = [s \in Slots |-> NoFile]
    /\ proc = [p \in Processes |-> Idle]
    /\ alive = Processes
    /\ slow = 0
-----------------------------------------------------------------------------
At(p, pc) == p \in alive /\ proc[p].pc = pc

Goes(p, pc) == proc' = [proc EXCEPT ![p].pc = pc, ![p].seen = NoProcess]

Notes(p, pc, q) == proc' = [proc EXCEPT ![p].pc = pc, ![p].seen = q]

Path(p) == file[proc[p].slot]

Acquire(p) ==
    /\ At(p, "idle")
    /\ Goes(p, "read")
    /\ UNCHANGED <<file, alive, slow>>

(* readLock, and whether the owner it names still lives.                   *)
ReadLock(p) ==
    /\ At(p, "read")
    /\ IF Path(p).written
       THEN IF Path(p).by \in alive THEN Goes(p, "open") ELSE Notes(p, "reread", Path(p).by)
       ELSE Goes(p, "stat")
    /\ UNCHANGED <<file, alive, slow>>

(* "Re-read before unlinking."                                             *)
RereadLock(p) ==
    /\ At(p, "reread")
    /\ Goes(p, IF Path(p).written /\ Path(p).by = proc[p].seen THEN "unlink" ELSE "open")
    /\ UNCHANGED <<file, alive, slow>>

(* The slip: files that cannot be read are left to their writers.          *)
StatNothing(p) == At(p, "stat") /\ Goes(p, "open") /\ UNCHANGED <<file, alive, slow>>

(* No readable record: an empty file is looked at again once it is old.    *)
StatFile(p) ==
    /\ At(p, "stat")
    /\ IF Path(p).old THEN Notes(p, "restat", Path(p).by) ELSE Goes(p, "open")
    /\ UNCHANGED <<file, alive, slow>>

(* The same inode, still as old.                                           *)
RestatFile(p) ==
    /\ At(p, "restat")
    /\ Goes(p, IF Path(p).old /\ Path(p).by = proc[p].seen THEN "unlink" ELSE "open")
    /\ UNCHANGED <<file, alive, slow>>

(* unlinkSync removes whatever is at the path by now.                      *)
Reclaim(p) ==
    /\ At(p, "unlink")
    /\ file' = [file EXCEPT ![proc[p].slot] = NoFile]
    /\ Goes(p, "open")
    /\ UNCHANGED <<alive, slow>>

OpenExclusive(p) ==
    /\ At(p, "open")
    /\ ~Exists(proc[p].slot)
    /\ file' = [file EXCEPT ![proc[p].slot] = [NoFile EXCEPT !.by = p]]
    /\ Goes(p, "write")
    /\ UNCHANGED <<alive, slow>>

(* The slots are tried in turn.  (The slip: past the last one.)            *)
SlotBeyond(s) == s + 1
NextSlot(s) == (s + 1) % MaxConcurrency

(* EEXIST: the next slot; after the last the first again, or a timeout.    *)
OpenFails(p) ==
    /\ At(p, "open")
    /\ Exists(proc[p].slot)
    /\ \/ proc' = [proc EXCEPT ![p] =
              [Idle EXCEPT !.pc = "read", !.slot = NextSlot(proc[p].slot)]]
       \/ /\ proc[p].slot = MaxConcurrency - 1
          /\ proc' = [proc EXCEPT ![p] = Idle]
    /\ UNCHANGED <<file, alive, slow>>

(* The metadata goes to the open file, even if its path is gone.           *)
WriteLock(p) ==
    /\ At(p, "write")
    /\ file' = IF Path(p).by = p
               THEN [file EXCEPT ![proc[p].slot] = [by |-> p, written |-> TRUE, old |-> FALSE]]
               ELSE file
    /\ Goes(p, "hold")
    /\ UNCHANGED <<alive, slow>>

(* release: the lock is read, and unlinked if it still is this process's.  *)
Release(p) ==
    /\ At(p, "hold")
    /\ IF Path(p).written /\ Path(p).by = p THEN Goes(p, "drop")
       ELSE proc' = [proc EXCEPT ![p] = Idle]
    /\ UNCHANGED <<file, alive, slow>>

Drop(p) ==
    /\ At(p, "drop")
    /\ file' = [file EXCEPT ![proc[p].slot] = NoFile]
    /\ proc' = [proc EXCEPT ![p] = Idle]
    /\ UNCHANGED <<alive, slow>>

Crash(p) ==
    /\ p \in alive
    /\ Cardinality(Processes \ alive) < MaxCrashes
    /\ alive' = alive \ {p}
    /\ proc' = [proc EXCEPT ![p] = Idle]
    /\ UNCHANGED <<file, slow>>

(* The slip: a grace period too short for a writer.                        *)
GraceTooShort(s) ==
    /\ Exists(s) /\ ~file[s].written /\ ~file[s].old
    /\ file' = [file EXCEPT ![s].old = TRUE]
    /\ UNCHANGED <<proc, alive, slow>>

(* An empty file is old when its time has passed, whether its writer died  *)
(* or is slow.                                                             *)
GracePasses(s) ==
    /\ Exists(s) /\ ~file[s].written /\ ~file[s].old
    /\ IF file[s].by \in alive THEN slow < MaxSlow /\ slow' = slow + 1 ELSE UNCHANGED slow
    /\ file' = [file EXCEPT ![s].old = TRUE]
    /\ UNCHANGED <<proc, alive>>

Step(p) ==
    \/ Acquire(p) \/ ReadLock(p) \/ RereadLock(p) \/ StatFile(p) \/ RestatFile(p)
    \/ Reclaim(p) \/ OpenExclusive(p) \/ OpenFails(p) \/ WriteLock(p) \/ Release(p) \/ Drop(p)

Next ==
    \/ \E p \in Processes : Step(p) \/ Crash(p)
    \/ \E s \in Slots : GracePasses(s)

Spec == Init /\ [][Next]_vars

(* Pipeline stages keep calling Hermes, Hermes calls have a time limit,    *)
(* and the clock runs.  Crashes promise nothing.                           *)
FairSpec ==
    /\ Spec
    /\ \A p \in Processes : WF_vars(Step(p))
    /\ \A s \in Slots : WF_vars(GracePasses(s))
-----------------------------------------------------------------------------
TypeOK ==
    /\ file \in [Slots -> File]
    /\ proc \in [Processes -> Process]
    /\ alive \subseteq Processes
    /\ slow \in 0 .. MaxSlow

Holders == {p \in Processes : At(p, "hold") \/ At(p, "drop")}

(* "makes the limiter safe across worker crashes and PM2 restarts": never  *)
(* more live processes inside a Hermes call than the shared budget.        *)
AtMostMaxConcurrency == Cardinality(Holders) <= MaxConcurrency

(* As long as no process has crashed and no writer outlived the grace      *)
(* period: while a process is inside its Hermes call, the path of its slot *)
(* holds the lock it wrote; no waiter, and no earlier holder's release,    *)
(* took it.  (A slow writer loses it: the reclaim goes by age alone.)      *)
HolderKeepsItsLock ==
    alive = Processes /\ slow = 0 => \A p \in Holders : Path(p).written /\ Path(p).by = p

Abandoned(s) == Exists(s) /\ file[s].by \notin alive

(* "cannot consume capacity permanently": the locks of crashed processes,  *)
(* written or empty, never take the whole budget for good while a live     *)
(* process keeps acquiring.                                                *)
CrashesLeaveCapacity ==
    (\A s \in Slots : Abandoned(s)) ~> (\E s \in Slots : ~Abandoned(s))
=============================================================================
