------------------------ MODULE HermesLimiter_proofs ------------------------
(***************************************************************************)
(* The limiter of Hermes calls is sound for any number of processes and    *)
(* slots as long as no process crashes and no writer outlives the grace    *)
(* period, and with both as long as every unlink meets the lock of a dead  *)
(* process: reclaiming, and nothing else, is what endangers it.            *)
(***************************************************************************)
EXTENDS HermesLimiter, FiniteSetTheorems, TLAPS

(* Facts about the initial values.                                         *)
LEMMA NoneType == NoFile \in File /\ Idle \in Process /\ NextSlot(0) \in Slots
<1>1. NoFile \in File
  BY DEF NoFile, File
<1>2. 0 \in Slots /\ NextSlot(0) \in Slots
  BY MaxConcurrencyAssumption DEF Slots, NextSlot
<1>3. QED
  BY <1>1, <1>2 DEF Idle, Process, Pc

LEMMA NextSlotType == ASSUME NEW s \in Slots PROVE NextSlot(s) \in Slots
  BY MaxConcurrencyAssumption DEF Slots, NextSlot

(* Every step keeps the variables in their types.                          *)
LEMMA TypeStep == TypeOK /\ [Next]_vars => TypeOK'
<1> SUFFICES ASSUME TypeOK, [Next]_vars PROVE TypeOK'
  OBVIOUS
<1> USE NoneType DEF TypeOK
<1>0. slow' \in 0 .. MaxSlow
  <2>1. slow' = slow \/ (slow < MaxSlow /\ slow' = slow + 1)
    BY DEF Next, Step, Acquire, ReadLock, RereadLock, StatFile, RestatFile, Reclaim, OpenExclusive,
           OpenFails, WriteLock, Release, Drop, Crash, GracePasses, vars
  <2>2. QED
    BY <2>1, MaxSlowAssumption
<1> USE <1>0
<1>1. CASE UNCHANGED vars
  BY <1>1 DEF vars
<1>2. ASSUME NEW p \in Processes, Step(p) PROVE TypeOK'
  <2>0. /\ proc[p] \in Process /\ proc[p].slot \in Slots
        /\ Path(p) \in File /\ Path(p).by \in Processes \cup {NoProcess}
    BY DEF Process, Path, File
  <2>1. CASE Acquire(p)
    BY <2>1, <2>0 DEF Acquire, Goes, Process, Pc
  <2>2. CASE ReadLock(p)
    BY <2>2, <2>0 DEF ReadLock, Goes, Notes, Process, Pc
  <2>3. CASE RereadLock(p)
    BY <2>3, <2>0 DEF RereadLock, Goes, Process, Pc
  <2>4. CASE StatFile(p)
    BY <2>4, <2>0 DEF StatFile, Goes, Notes, Process, Pc
  <2>5. CASE RestatFile(p)
    BY <2>5, <2>0 DEF RestatFile, Goes, Process, Pc
  <2>6. CASE Reclaim(p)
    BY <2>6, <2>0 DEF Reclaim, Goes, Process, Pc
  <2>7. CASE OpenExclusive(p)
    <3>1. [NoFile EXCEPT !.by = p] \in File
      BY DEF File, NoFile
    <3>2. file' \in [Slots -> File] /\ UNCHANGED alive
      BY <2>7, <3>1 DEF OpenExclusive
    <3>3. proc' \in [Processes -> Process]
      BY <2>7, <2>0 DEF OpenExclusive, Goes, Process, Pc
    <3>4. QED
      BY <3>2, <3>3
  <2>8. CASE OpenFails(p)
    <3>1. [Idle EXCEPT !.pc = "read", !.slot = NextSlot(proc[p].slot)] \in Process
      BY <2>0, NextSlotType DEF Idle, Process, Pc
    <3>2. QED
      BY <2>8, <3>1 DEF OpenFails
  <2>9. CASE WriteLock(p)
    <3>1. [by |-> p, written |-> TRUE, old |-> FALSE] \in File
      BY DEF File
    <3>2. file' \in [Slots -> File] /\ UNCHANGED alive
      BY <2>9, <3>1 DEF WriteLock
    <3>3. proc' \in [Processes -> Process]
      BY <2>9, <2>0 DEF WriteLock, Goes, Process, Pc
    <3>4. QED
      BY <3>2, <3>3
  <2>10. CASE Release(p)
    BY <2>10, <2>0 DEF Release, Goes, Process, Pc
  <2>11. CASE Drop(p)
    BY <2>11 DEF Drop
  <2>12. QED
    BY <1>2, <2>1, <2>2, <2>3, <2>4, <2>5, <2>6, <2>7, <2>8, <2>9, <2>10, <2>11 DEF Step
<1>3. ASSUME NEW p \in Processes, Crash(p) PROVE TypeOK'
  BY <1>3 DEF Crash
<1>4. ASSUME NEW s \in Slots, GracePasses(s) PROVE TypeOK'
  BY <1>4 DEF GracePasses, File
<1>5. QED
  BY <1>1, <1>2, <1>3, <1>4 DEF Next

(* Type correctness, with crashes.                                         *)
THEOREM LimiterTypeCorrect == Spec => []TypeOK
<1>1. Init => TypeOK
  BY NoneType, MaxSlowAssumption DEF Init, TypeOK
<1>2. QED
  BY <1>1, TypeStep, PTL DEF Spec
-----------------------------------------------------------------------------
(* What makes it so: without a crash and a slow writer nobody finds a lock *)
(* to reclaim, and a file is its creator's from the exclusive open until   *)
(* it is dropped.                                                          *)
NothingToReclaim ==
    /\ \A p \in Processes : proc[p].pc \notin {"reread", "restat", "unlink"}
    /\ \A s \in Slots : ~file[s].old /\ (Exists(s) => file[s].by \in Processes)

OwnsItsFile ==
    \A p \in Processes :
       /\ proc[p].pc = "write" => Path(p).by = p
       /\ proc[p].pc \in {"hold", "drop"} => Path(p).by = p /\ Path(p).written

Undisturbed == alive = Processes /\ slow = 0 => NothingToReclaim /\ OwnsItsFile

(* A process that moves on without a file, and without one to reclaim,     *)
(* disturbs nobody.                                                        *)
LEMMA QuietStep ==
  ASSUME NothingToReclaim, OwnsItsFile, NEW p \in Processes, UNCHANGED file,
         \A q \in Processes : q # p => proc'[q] = proc[q],
         proc'[p].pc \in {"idle", "read", "stat", "open"}
  PROVE  NothingToReclaim' /\ OwnsItsFile'
  BY DEF NothingToReclaim, OwnsItsFile, Path, Exists

(* A step of a process that leaves its file alone, or is its first or last *)
(* on it, disturbs no other.                                               *)
LEMMA UndisturbedStep == TypeOK /\ Undisturbed /\ [Next]_vars => Undisturbed'
<1> SUFFICES ASSUME TypeOK, Undisturbed, [Next]_vars, alive' = Processes, slow' = 0
             PROVE  NothingToReclaim' /\ OwnsItsFile'
  BY DEF Undisturbed
<1>1. CASE UNCHANGED vars
  BY <1>1 DEF vars, Undisturbed, NothingToReclaim, OwnsItsFile, Path, Exists
<1>2. alive = Processes /\ slow = 0 /\ NothingToReclaim /\ OwnsItsFile
  <2>1. alive' \subseteq alive /\ (slow' = slow \/ slow' = slow + 1)
    BY DEF Next, Step, Acquire, ReadLock, RereadLock, StatFile, RestatFile, Reclaim, OpenExclusive,
           OpenFails, WriteLock, Release, Drop, Crash, GracePasses, vars
  <2>2. slow \in Nat
    BY MaxSlowAssumption DEF TypeOK
  <2>3. QED
    BY <2>1, <2>2 DEF TypeOK, Undisturbed
<1>3. ASSUME NEW p \in Processes, Step(p) PROVE NothingToReclaim' /\ OwnsItsFile'
  <2>0. /\ p \in alive /\ proc[p] \in Process /\ proc[p].slot \in Slots
        /\ proc[p].pc \notin {"reread", "restat", "unlink"} /\ ~Path(p).old
        /\ file \in [Slots -> File] /\ proc \in [Processes -> Process]
        /\ NoFile.by = NoProcess /\ ~NoFile.written /\ ~NoFile.old
    BY <1>2 DEF TypeOK, Process, NothingToReclaim, Path, NoFile
  <2>1. CASE Acquire(p)
    BY <2>1, <2>0, <1>2, QuietStep DEF Acquire, Goes, Process
  <2>2. CASE ReadLock(p)
    <3>1. Path(p).written => Path(p).by \in alive
      BY <2>0, <1>2 DEF NothingToReclaim, Path, Exists
    <3>2. UNCHANGED file /\ (Goes(p, "open") \/ Goes(p, "stat"))
      BY <2>2, <3>1 DEF ReadLock
    <3>3. QED
      BY <3>2, <2>0, <1>2, QuietStep DEF Goes, Process
  <2>3. CASE StatFile(p)
    BY <2>3, <2>0, <1>2, QuietStep DEF StatFile, Goes, Process
  <2>4. CASE RereadLock(p) \/ RestatFile(p) \/ Reclaim(p)
    BY <2>4, <2>0 DEF RereadLock, RestatFile, Reclaim, At
  <2>5. CASE OpenExclusive(p)
    <3> DEFINE s == proc[p].slot
    <3>1. /\ file' = [file EXCEPT ![s] = [NoFile EXCEPT !.by = p]]
          /\ proc' = [proc EXCEPT ![p].pc = "write", ![p].seen = NoProcess]
          /\ file[s] = NoFile
      BY <2>5 DEF OpenExclusive, Goes, Exists
    <3>2. file'[s].by = p /\ ~file'[s].old /\ proc'[p].slot = s /\ proc'[p].pc = "write"
      BY <3>1, <2>0 DEF Process, NoFile
    <3>3. NothingToReclaim'
      BY <3>1, <3>2, <2>0, <1>2 DEF NothingToReclaim, Exists
    <3>4. ASSUME NEW q \in Processes, q # p, proc[q].pc \in {"write", "hold", "drop"}
          PROVE  proc[q].slot # s
      BY <3>1, <3>4, <2>0, <1>2, NoProcessAssumption DEF OwnsItsFile, Path
    <3>5. QED
      BY <3>1, <3>2, <3>3, <3>4, <2>0, <1>2 DEF OwnsItsFile, Path
  <2>6. CASE OpenFails(p)
    <3> DEFINE next == [Idle EXCEPT !.pc = "read", !.slot = NextSlot(proc[p].slot)]
    <3>0. next.pc = "read" /\ Idle.pc = "idle"
      BY DEF Idle
    <3>1. UNCHANGED file /\ (proc'[p].pc = "read" \/ proc'[p].pc = "idle")
      <4>1. UNCHANGED file /\ (proc' = [proc EXCEPT ![p] = next] \/ proc' = [proc EXCEPT ![p] = Idle])
        BY <2>6 DEF OpenFails
      <4> HIDE DEF next
      <4>2. QED
        BY <3>0, <4>1, <2>0
    <3>2. \A q \in Processes : q # p => proc'[q] = proc[q]
      BY <2>6, <2>0 DEF OpenFails
    <3>3. QED
      BY <3>1, <3>2, <1>2, QuietStep
  <2>7. CASE WriteLock(p)
    <3> DEFINE s == proc[p].slot
    <3>1. /\ Path(p).by = p /\ file[s].by = p
          /\ file' = [file EXCEPT ![s] = [by |-> p, written |-> TRUE, old |-> FALSE]]
          /\ proc' = [proc EXCEPT ![p].pc = "hold", ![p].seen = NoProcess]
      BY <2>7, <1>2 DEF WriteLock, Goes, At, OwnsItsFile, Path
    <3>2. NothingToReclaim'
      BY <3>1, <2>0, <1>2 DEF NothingToReclaim, Exists
    <3>3. ASSUME NEW q \in Processes, q # p, proc[q].pc \in {"write", "hold", "drop"}
          PROVE  proc[q].slot # s
      BY <3>1, <3>3, <1>2 DEF OwnsItsFile, Path
    <3>4. QED
      BY <3>1, <3>2, <3>3, <2>0, <1>2 DEF OwnsItsFile, Path, Process
  <2>8. CASE Release(p)
    <3>1. UNCHANGED file /\ Path(p).by = p /\ Path(p).written
      BY <2>8, <1>2 DEF Release, At, OwnsItsFile
    <3>2. Goes(p, "drop")
      BY <2>8, <3>1 DEF Release
    <3>3. /\ proc'[p].pc = "drop" /\ proc'[p].slot = proc[p].slot
          /\ \A q \in Processes : q # p => proc'[q] = proc[q]
      BY <3>2, <2>0 DEF Goes, Process
    <3>4. QED
      BY <3>1, <3>3, <1>2 DEF NothingToReclaim, OwnsItsFile, Path, Exists
  <2>9. CASE Drop(p)
    <3> DEFINE s == proc[p].slot
    <3>1. /\ file[s].by = p
          /\ file' = [file EXCEPT ![s] = NoFile] /\ proc' = [proc EXCEPT ![p] = Idle]
      BY <2>9, <1>2 DEF Drop, At, OwnsItsFile, Path
    <3>2. NothingToReclaim'
      BY <3>1, <2>0, <1>2 DEF NothingToReclaim, Exists, Idle
    <3>3. ASSUME NEW q \in Processes, q # p, proc[q].pc \in {"write", "hold", "drop"}
          PROVE  proc[q].slot # s
      BY <3>1, <3>3, <1>2 DEF OwnsItsFile, Path
    <3>4. QED
      BY <3>1, <3>2, <3>3, <2>0, <1>2 DEF OwnsItsFile, Path, Idle
  <2>10. QED
    BY <1>3, <2>1, <2>2, <2>3, <2>4, <2>5, <2>6, <2>7, <2>8, <2>9 DEF Step
<1>4. ASSUME NEW p \in Processes, Crash(p) PROVE FALSE
  BY <1>4, <1>2 DEF Crash
<1>5. ASSUME NEW s \in Slots, GracePasses(s) PROVE FALSE
  BY <1>5, <1>2 DEF GracePasses, NothingToReclaim
<1>6. QED
  BY <1>1, <1>3, <1>4, <1>5 DEF Next

(* HolderKeepsItsLock for every instance.                                  *)
THEOREM HoldersKeepTheirLocks == Spec => []HolderKeepsItsLock
<1>1. Init => Undisturbed
  BY NoneType DEF Init, Undisturbed, NothingToReclaim, OwnsItsFile, Exists, NoFile, Idle
<1>2. Undisturbed /\ TypeOK => HolderKeepsItsLock
  BY DEF Undisturbed, OwnsItsFile, HolderKeepsItsLock, Holders, At
<1>3. QED
  BY <1>1, <1>2, UndisturbedStep, LimiterTypeCorrect, PTL DEF Spec
-----------------------------------------------------------------------------
(* Holders whose paths name them are no more than the paths.               *)
LEMMA HoldersFitSlots ==
  ASSUME TypeOK, \A p \in Holders : Path(p).by = p
  PROVE  AtMostMaxConcurrency
<1> DEFINE slotOf == [p \in Holders |-> proc[p].slot]
<1>1. slotOf \in [Holders -> Slots]
  BY DEF TypeOK, Holders, Process
<1>2. \A p, q \in Holders : slotOf[p] = slotOf[q] => p = q
  BY DEF Path
<1>3. slotOf \in Injection(Holders, Slots)
  BY <1>1, <1>2 DEF Injection, IsInjective
<1>4. IsFiniteSet(Slots) /\ Cardinality(Slots) = MaxConcurrency
  <2>1. 0 \in Int /\ MaxConcurrency - 1 \in Int /\ ~(0 > MaxConcurrency - 1)
    BY MaxConcurrencyAssumption
  <2>2. IsFiniteSet(Slots) /\ Cardinality(Slots) = (MaxConcurrency - 1) - 0 + 1
    BY <2>1, FS_Interval DEF Slots
  <2>3. QED
    BY <2>2, MaxConcurrencyAssumption
<1> HIDE DEF slotOf
<1>5. Cardinality(Holders) <= Cardinality(Slots)
  BY <1>3, <1>4, FS_Injection
<1>6. QED
  BY <1>4, <1>5 DEF AtMostMaxConcurrency

(* AtMostMaxConcurrency for every instance while no process has crashed    *)
(* and no writer has outlived the grace period.                            *)
THEOREM BudgetKeptWithoutCrashes == Spec => [](alive = Processes /\ slow = 0 => AtMostMaxConcurrency)
<1>1. TypeOK /\ HolderKeepsItsLock => (alive = Processes /\ slow = 0 => AtMostMaxConcurrency)
  BY HoldersFitSlots DEF HolderKeepsItsLock
<1>2. QED
  BY <1>1, LimiterTypeCorrect, HoldersKeepTheirLocks, PTL
-----------------------------------------------------------------------------
(* The condition finding 3 shows is missing: what an unlink removes is     *)
(* still a dead process's lock, or nothing.  Between the second read of    *)
(* the lock and unlinkSync another waiter can reclaim the slot and take    *)
(* it, and an empty file is reclaimed by its age, whoever is writing it.   *)
ReclaimsAbandoned ==
    \A p \in Processes :
        Reclaim(p) => ~Exists(proc[p].slot) \/ Abandoned(proc[p].slot)

(* With crashes: from its exclusive open to its drop a live process is the *)
(* one its path names.                                                     *)
LivingOwnTheirPaths ==
    \A p \in alive : proc[p].pc \in {"write", "hold", "drop"} => Path(p).by = p

(* A step that touches no lock, and takes its process into no call,        *)
(* leaves every path to its owner.                                         *)
LEMMA PathsStay ==
  ASSUME TypeOK, LivingOwnTheirPaths, NEW p \in Processes, UNCHANGED <<file, alive>>,
         \A q \in Processes : q # p => proc'[q] = proc[q],
         \/ proc'[p].pc \notin {"write", "hold", "drop"}
         \/ proc[p].pc \in {"write", "hold", "drop"} /\ proc'[p].slot = proc[p].slot
  PROVE  LivingOwnTheirPaths'
  BY DEF TypeOK, LivingOwnTheirPaths, Path

(* A step that changes one lock, no other process's, and leaves its        *)
(* process either outside or named by that lock.                           *)
LEMMA OnePathChanges ==
  ASSUME TypeOK, LivingOwnTheirPaths, NEW p \in Processes, UNCHANGED alive, NEW f,
         file' = [file EXCEPT ![proc[p].slot] = f],
         \A q \in Processes : q # p => proc'[q] = proc[q],
         \A q \in alive \ {p} :
            proc[q].pc \in {"write", "hold", "drop"} => proc[q].slot # proc[p].slot,
         \/ proc'[p].pc \notin {"write", "hold", "drop"}
         \/ proc'[p].slot = proc[p].slot /\ f.by = p
  PROVE  LivingOwnTheirPaths'
<1>1. ASSUME NEW q \in alive, q # p, proc'[q].pc \in {"write", "hold", "drop"}
      PROVE  file'[proc'[q].slot].by = q
  <2>1. proc'[q] = proc[q] /\ proc[q].slot # proc[p].slot /\ file[proc[q].slot].by = q
    BY <1>1 DEF TypeOK, LivingOwnTheirPaths, Path
  <2>2. QED
    BY <2>1 DEF TypeOK
<1>2. ASSUME p \in alive, proc'[p].pc \in {"write", "hold", "drop"}
      PROVE  file'[proc'[p].slot].by = p
  <2>1. proc[p].slot \in Slots
    BY DEF TypeOK, Process
  <2>2. QED
    BY <1>2, <2>1 DEF TypeOK
<1>3. QED
  BY <1>1, <1>2 DEF LivingOwnTheirPaths, Path

LEMMA PathsStep ==
  TypeOK /\ LivingOwnTheirPaths /\ [Next]_vars /\ [ReclaimsAbandoned]_vars => LivingOwnTheirPaths'
<1> SUFFICES ASSUME TypeOK, LivingOwnTheirPaths, [Next]_vars, [ReclaimsAbandoned]_vars
             PROVE  LivingOwnTheirPaths'
  OBVIOUS
<1>1. CASE UNCHANGED vars
  BY <1>1 DEF vars, LivingOwnTheirPaths, Path
<1>2. ASSUME NEW p \in Processes, Step(p) PROVE LivingOwnTheirPaths'
  <2>0. /\ p \in alive /\ proc[p] \in Process /\ proc \in [Processes -> Process]
        /\ NoFile.by = NoProcess
    BY <1>2 DEF TypeOK, Step, Acquire, ReadLock, RereadLock, StatFile, RestatFile, Reclaim,
       OpenExclusive, OpenFails, WriteLock, Release, Drop, At, NoFile
  <2>1. CASE Acquire(p)
    BY <2>0, <2>1, PathsStay DEF Acquire, Goes, Process
  <2>2. CASE ReadLock(p)
    BY <2>0, <2>2, PathsStay DEF ReadLock, Goes, Notes, Process
  <2>3. CASE RereadLock(p)
    BY <2>0, <2>3, PathsStay DEF RereadLock, Goes, Process
  <2>4. CASE StatFile(p)
    BY <2>0, <2>4, PathsStay DEF StatFile, Goes, Notes, Process
  <2>5. CASE RestatFile(p)
    BY <2>0, <2>5, PathsStay DEF RestatFile, Goes, Process
  <2>6. CASE Reclaim(p)
    <3>1. /\ UNCHANGED alive /\ file' = [file EXCEPT ![proc[p].slot] = NoFile]
          /\ proc'[p].pc = "open" /\ \A q \in Processes : q # p => proc'[q] = proc[q]
      BY <2>0, <2>6 DEF Reclaim, Goes, Process
    <3>2. ~Exists(proc[p].slot) \/ Abandoned(proc[p].slot)
      <4>1. proc' # proc
        BY <2>6, <3>1 DEF Reclaim, At
      <4>2. QED
        BY <2>6, <4>1 DEF ReclaimsAbandoned, vars
    <3>3. Path(p).by \notin alive
      BY <2>0, <3>2, NoProcessAssumption DEF Exists, Abandoned, Path, TypeOK
    <3>4. \A q \in alive \ {p} :
            proc[q].pc \in {"write", "hold", "drop"} => proc[q].slot # proc[p].slot
      BY <3>3 DEF LivingOwnTheirPaths, Path
    <3>5. QED
      BY <3>1, <3>4, OnePathChanges
  <2>7. CASE OpenExclusive(p)
    <3> DEFINE f == [NoFile EXCEPT !.by = p]
    <3>1. /\ UNCHANGED alive /\ file' = [file EXCEPT ![proc[p].slot] = f]
          /\ proc'[p].slot = proc[p].slot /\ \A q \in Processes : q # p => proc'[q] = proc[q]
          /\ Path(p) = NoFile
      BY <2>0, <2>7 DEF OpenExclusive, Goes, Process, Exists, Path
    <3>2. f.by = p
      BY DEF NoFile
    <3>3. \A q \in alive \ {p} :
            proc[q].pc \in {"write", "hold", "drop"} => proc[q].slot # proc[p].slot
      BY <2>0, <3>1, NoProcessAssumption DEF LivingOwnTheirPaths, Path, TypeOK
    <3> HIDE DEF f
    <3>4. QED
      BY <3>1, <3>2, <3>3, OnePathChanges
  <2>8. CASE OpenFails(p)
    <3>1. /\ UNCHANGED <<file, alive>> /\ \A q \in Processes : q # p => proc'[q] = proc[q]
          /\ proc'[p].pc \in {"read", "idle"}
      <4> DEFINE next == [Idle EXCEPT !.pc = "read", !.slot = NextSlot(proc[p].slot)]
      <4>1. /\ UNCHANGED <<file, alive>>
            /\ proc' = [proc EXCEPT ![p] = next] \/ proc' = [proc EXCEPT ![p] = Idle]
        BY <2>8 DEF OpenFails
      <4>2. next.pc = "read" /\ Idle.pc = "idle"
        BY DEF Idle
      <4> HIDE DEF next
      <4>3. QED
        BY <2>0, <4>1, <4>2
    <3>2. QED
      BY <3>1, PathsStay
  <2>9. CASE WriteLock(p)
    <3> DEFINE f == [by |-> p, written |-> TRUE, old |-> FALSE]
    <3>1. Path(p).by = p
      BY <2>0, <2>9 DEF WriteLock, At, LivingOwnTheirPaths
    <3>2. /\ UNCHANGED alive /\ file' = [file EXCEPT ![proc[p].slot] = f]
          /\ proc'[p].slot = proc[p].slot /\ \A q \in Processes : q # p => proc'[q] = proc[q]
      BY <2>0, <2>9, <3>1 DEF WriteLock, Goes, Process
    <3>3. \A q \in alive \ {p} :
            proc[q].pc \in {"write", "hold", "drop"} => proc[q].slot # proc[p].slot
      BY <3>1 DEF LivingOwnTheirPaths, Path
    <3>4. f.by = p
      OBVIOUS
    <3> HIDE DEF f
    <3>5. QED
      BY <3>2, <3>3, <3>4, OnePathChanges
  <2>10. CASE Release(p)
    BY <2>0, <2>10, PathsStay DEF Release, Goes, Idle, Process, At
  <2>11. CASE Drop(p)
    <3>1. /\ UNCHANGED alive /\ file' = [file EXCEPT ![proc[p].slot] = NoFile]
          /\ proc'[p].pc = "idle" /\ \A q \in Processes : q # p => proc'[q] = proc[q]
      BY <2>0, <2>11 DEF Drop, Idle
    <3>2. Path(p).by = p
      BY <2>0, <2>11 DEF Drop, At, LivingOwnTheirPaths
    <3>3. \A q \in alive \ {p} :
            proc[q].pc \in {"write", "hold", "drop"} => proc[q].slot # proc[p].slot
      BY <3>2 DEF LivingOwnTheirPaths, Path
    <3>4. QED
      BY <3>1, <3>3, OnePathChanges
  <2>12. QED
    BY <1>2, <2>1, <2>2, <2>3, <2>4, <2>5, <2>6, <2>7, <2>8, <2>9, <2>10, <2>11 DEF Step
<1>3. ASSUME NEW p \in Processes, Crash(p) PROVE LivingOwnTheirPaths'
  BY <1>3 DEF Crash, LivingOwnTheirPaths, Path, Idle, TypeOK
<1>4. ASSUME NEW s \in Slots, GracePasses(s) PROVE LivingOwnTheirPaths'
  <2>1. UNCHANGED <<proc, alive>> /\ \A t \in Slots : file'[t].by = file[t].by
    BY <1>4 DEF GracePasses, TypeOK, File
  <2>2. \A q \in alive : proc[q].slot \in Slots
    BY DEF TypeOK, Process
  <2>3. QED
    BY <2>1, <2>2 DEF LivingOwnTheirPaths, Path
<1>5. QED
  BY <1>1, <1>2, <1>3, <1>4 DEF Next

(* AtMostMaxConcurrency for every instance, crashes and slow writers       *)
(* included, as long as what a reclaim unlinks is still the lock of a dead *)
(* process: the reread before the unlink of the limiter is that condition  *)
(* for a written lock, an instant early; for an empty one there is none.   *)
THEOREM BudgetKept == Spec /\ [][ReclaimsAbandoned]_vars => []AtMostMaxConcurrency
<1>1. Init => LivingOwnTheirPaths
  BY DEF Init, LivingOwnTheirPaths, Idle
<1>2. TypeOK /\ LivingOwnTheirPaths => AtMostMaxConcurrency
  <2>1. \A p \in Holders : p \in alive /\ proc[p].pc \in {"write", "hold", "drop"}
    BY DEF Holders, At
  <2>2. QED
    BY <2>1, HoldersFitSlots DEF LivingOwnTheirPaths
<1>3. QED
  BY <1>1, <1>2, PathsStep, LimiterTypeCorrect, PTL DEF Spec
=============================================================================
