------------------------ MODULE DeepResearch_proofs -------------------------
(***************************************************************************)
(* The deep stage is contained for any number of workers, executions,      *)
(* attempts and faults: its invariants, that a worker that retries or      *)
(* hands on leaves nothing running, that a unit is left alone only by a    *)
(* crash or a failed call, and that no step leaves the transition table.   *)
(* Last, what becomes of a row between the two calls of a handoff.         *)
(***************************************************************************)
EXTENDS DeepResearch, WorkRow_proofs, FiniteSetTheorems

(* The row is in the deep stage or past it.                                *)
RowFits ==
    /\ row.status \in {"deep_pending", "deep_leased", "retry_wait", "research_ready",
                       "entity_pending", "expired", "dead_letter"}
    /\ row.status = "retry_wait" => row.target = "deep_pending"

(* A unit that was not given out is blank, and one that runs is known.     *)
UnitsFit == (\A u \in Units : ~unit[u].used => unit[u] = NoUnit) /\ ActiveIsRegistered

(* What a worker knows of the unit it prepared, by where it is.            *)
UnitFits(p) ==
    /\ worker[p].pc \in {"idle", "leased", "preflight", "check", "prepare", "release"} => Mine(p) = 0
    /\ worker[p].pc \in {"register", "spawn", "begin", "running", "stop", "cleanup", "result", "save"}
          => Mine(p) # 0
    /\ Mine(p) # 0 => unit[Mine(p)].used
    /\ worker[p].pc \in {"register", "spawn", "result", "save", "handoff"} /\ Mine(p) # 0
          => ~unit[Mine(p)].active
    /\ At(p, "register") => unit[Mine(p)].tree
    /\ At(p, "spawn") => unit[Mine(p)].registered /\ unit[Mine(p)].tree
    /\ At(p, "fail") /\ worker[p].end = "bounded" /\ Mine(p) # 0 => ~unit[Mine(p)].active

WorkerFits(p) == UnitFits(p) /\ (At(p, "handoff") => packet # 0)

(* A unit belongs to one worker: it is the only one to start it, and what  *)
(* it knows of it another cannot make untrue.                              *)
OwnUnits == \A p, q \in Workers : p # q /\ Mine(p) # 0 => Mine(p) # Mine(q)

DeepInv ==
    /\ TypeOK /\ RowFits /\ UnitsFit /\ OwnUnits
    /\ \A p \in Workers : WorkerFits(p)
    /\ HandedOffHasPacket
-----------------------------------------------------------------------------
OthersStay(p) == worker' \in [Workers -> Memory] /\ \A q \in Workers \ {p} : worker'[q] = worker[q]

(* What a worker remembers after each of the ways to go on.                *)
LEMMA Moves ==
    ASSUME worker \in [Workers -> Memory], NEW p \in Workers
    PROVE  /\ \A pc \in Pc : Goes(p, pc) =>
                 /\ OthersStay(p) /\ worker'[p].pc = pc
                 /\ worker'[p].unit = Mine(p) /\ worker'[p].end = worker[p].end
           /\ \A end \in Ends : Fails(p, end) =>
                 /\ OthersStay(p) /\ worker'[p].pc = "fail"
                 /\ worker'[p].unit = Mine(p) /\ worker'[p].end = end
           /\ \A end \in Ends : Cleans(p, end) =>
                 OthersStay(p) /\ worker'[p].pc = "cleanup" /\ worker'[p].unit = Mine(p)
           /\ \A end \in Ends, clean \in BOOLEAN : Stops(p, end, clean) =>
                 OthersStay(p) /\ worker'[p].pc = "stop" /\ worker'[p].unit = Mine(p)
           /\ Forgets(p) => OthersStay(p) /\ worker'[p].pc = "idle" /\ worker'[p].unit = 0
<1>0. worker[p] \in Memory
  OBVIOUS
<1>1. ASSUME NEW pc \in Pc, Goes(p, pc)
      PROVE  /\ OthersStay(p) /\ worker'[p].pc = pc
             /\ worker'[p].unit = Mine(p) /\ worker'[p].end = worker[p].end
  <2>1. worker' = [worker EXCEPT ![p] = [worker[p] EXCEPT !.pc = pc]]
    BY <1>1 DEF Goes
  <2>2. QED
    BY <1>0, <2>1 DEF OthersStay, Mine, Memory
<1>2. ASSUME NEW end \in Ends, Fails(p, end)
      PROVE  /\ OthersStay(p) /\ worker'[p].pc = "fail"
             /\ worker'[p].unit = Mine(p) /\ worker'[p].end = end
  <2>1. worker' = [worker EXCEPT ![p] = [worker[p] EXCEPT !.pc = "fail", !.end = end]]
    BY <1>2 DEF Fails
  <2>2. QED
    BY <1>0, <2>1 DEF OthersStay, Mine, Memory, Pc
<1>3. ASSUME NEW end \in Ends, Cleans(p, end)
      PROVE  OthersStay(p) /\ worker'[p].pc = "cleanup" /\ worker'[p].unit = Mine(p)
  <2>1. worker' = [worker EXCEPT ![p] = [worker[p] EXCEPT !.pc = "cleanup", !.end = end]]
    BY <1>3 DEF Cleans
  <2>2. QED
    BY <1>0, <2>1 DEF OthersStay, Mine, Memory, Pc
<1>4. ASSUME NEW end \in Ends, NEW clean \in BOOLEAN, Stops(p, end, clean)
      PROVE  OthersStay(p) /\ worker'[p].pc = "stop" /\ worker'[p].unit = Mine(p)
  <2>1. worker' = [worker EXCEPT ![p] = [worker[p] EXCEPT !.pc = "stop", !.end = end, !.clean = clean]]
    BY <1>4 DEF Stops
  <2>2. QED
    BY <1>0, <2>1 DEF OthersStay, Mine, Memory, Pc
<1>5. ASSUME Forgets(p) PROVE OthersStay(p) /\ worker'[p].pc = "idle" /\ worker'[p].unit = 0
  <2>1. Idle \in Memory /\ Idle.pc = "idle" /\ Idle.unit = 0
    BY DEF Idle, Memory, Pc, Ends
  <2>2. worker' = [worker EXCEPT ![p] = Idle]
    BY <1>5 DEF Forgets
  <2>3. QED
    BY <2>1, <2>2 DEF OthersStay
<1>6. QED
  BY <1>1, <1>2, <1>3, <1>4, <1>5

(* The units a step of p may touch: its own, or one nobody was given.      *)
Touches(p) ==
    /\ unit' \in [Units -> Unit]
    /\ \A u \in Units : /\ unit[u].used => unit'[u].used
                        /\ unit[u].used /\ u # Mine(p) => unit'[u] = unit[u]

LEMMA NothingTouched == ASSUME TypeOK, NEW p \in Workers, UNCHANGED unit PROVE Touches(p)
  BY DEF Touches, TypeOK

LEMMA UnitStep ==
    ASSUME DeepInv, NEW p \in Workers,
           OthersStay(p), Touches(p), UnitsFit', RowFits', HandedOffHasPacket',
           row' \in Row, packet' \in Units \cup {0}, faults' \in 0 .. MaxFaults,
           packet # 0 => packet' # 0,
           UnitFits(p)', At(p, "handoff")' => packet' # 0,
           \/ worker'[p].unit \in {0, Mine(p)}
           \/ worker'[p].unit \in Units /\ ~unit[worker'[p].unit].used
    PROVE  DeepInv'
<1>1. TypeOK'
  BY DEF TypeOK, OthersStay, Touches
<1>2. ASSUME NEW q \in Workers \ {p} PROVE WorkerFits(q)'
  <2>1. worker'[q] = worker[q] /\ WorkerFits(q) /\ Mine(q) \in Units \cup {0}
    BY DEF DeepInv, OthersStay, TypeOK, Memory, Mine
  <2>2. Mine(q) # 0 => unit'[Mine(q)] = unit[Mine(q)]
    <3>1. Mine(q) # 0 => (Mine(q) # Mine(p) /\ unit[Mine(q)].used)
      BY <2>1 DEF DeepInv, OwnUnits, WorkerFits, UnitFits
    <3>2. QED
      BY <2>1, <3>1 DEF Touches
  <2>3. QED
    BY <2>1, <2>2 DEF WorkerFits, UnitFits, At, Mine
<1>3. OwnUnits'
  <2>1. ASSUME NEW q \in Workers \ {p} PROVE worker'[p].unit # 0 => worker'[p].unit # worker'[q].unit
    <3>1. /\ worker'[q] = worker[q]
          /\ Mine(p) # 0 => Mine(p) # Mine(q)
          /\ Mine(q) # 0 => unit[Mine(q)].used
      BY DEF DeepInv, OthersStay, OwnUnits, WorkerFits, UnitFits
    <3>2. QED
      BY <3>1 DEF Mine
  <2>2. QED
    BY <2>1 DEF DeepInv, OthersStay, OwnUnits, Mine
<1>4. QED
  BY <1>1, <1>2, <1>3 DEF DeepInv, WorkerFits

(* A step that leaves the units and the packet alone.                      *)
LEMMA RowOnly ==
    ASSUME DeepInv, NEW p \in Workers,
           OthersStay(p), UNCHANGED <<packet, unit>>, faults' \in 0 .. MaxFaults,
           row' \in Row, RowFits', HandedOffHasPacket',
           worker'[p].unit \in {0, Mine(p)}, UnitFits(p)', At(p, "handoff")' => packet # 0
    PROVE  DeepInv'
  BY UnitStep, NothingTouched DEF DeepInv, TypeOK, UnitsFit, ActiveIsRegistered

(* What the store does to a row in the deep stage.                         *)
LEMMA DeepRow ==
    ASSUME DeepInv, NEW p \in Workers
    PROVE  /\ row' = row => row' \in Row /\ RowFits' /\ (UNCHANGED packet => HandedOffHasPacket')
           /\ row' = Beaten(row) => row' \in Row /\ RowFits' /\ (UNCHANGED packet => HandedOffHasPacket')
           /\ row' = Begun(row) => row' \in Row /\ RowFits' /\ (UNCHANGED packet => HandedOffHasPacket')
           /\ row' = Moved(row, "deep_pending") => row' \in Row /\ RowFits' /\ HandedOffHasPacket'
<1>0. row \in Row /\ RowFits /\ HandedOffHasPacket
  BY DEF DeepInv, TypeOK
<1>1. ASSUME row' \in Row, row'.status = row.status, row'.target = row.target
      PROVE  RowFits' /\ (UNCHANGED packet => HandedOffHasPacket')
  BY <1>0, <1>1 DEF RowFits, HandedOffHasPacket
<1>2. row' = Beaten(row) => row' \in Row /\ row'.status = row.status /\ row'.target = row.target
  BY <1>0, BeatenRow
<1>3. row' = Begun(row) => row' \in Row /\ row'.status = row.status /\ row'.target = row.target
  BY <1>0, BegunRow
<1>4. row' = Moved(row, "deep_pending") => row' \in Row /\ row'.status = "deep_pending"
  <2>1. "deep_pending" \in Status
    BY StatusType DEF PendingStatus
  <2>2. QED
    BY <1>0, <2>1, MovedRow
<1>5. row' = Moved(row, "deep_pending") => RowFits' /\ HandedOffHasPacket'
  BY <1>4 DEF RowFits, HandedOffHasPacket
<1>6. QED
  BY <1>0, <1>1, <1>2, <1>3, <1>4, <1>5

(* The steps before there is a unit.                                       *)
LEMMA EarlyStep ==
    ASSUME DeepInv, NEW p \in Workers,
           ClaimRow(p) \/ Begin(p) \/ Preflight(p) \/ Release(p) \/ Check(p)
    PROVE  DeepInv'
<1>0. /\ worker \in [Workers -> Memory] /\ UnitFits(p) /\ row \in Row
      /\ UNCHANGED <<packet, unit>> /\ faults' \in 0 .. MaxFaults
  BY DEF DeepInv, TypeOK, WorkerFits, ClaimRow, Begin, Preflight, Release, Check
<1>1. Mine(p) = 0
  BY <1>0 DEF UnitFits, ClaimRow, Begin, Preflight, Release, Check, At
<1>2. row' \in Row /\ RowFits' /\ HandedOffHasPacket'
  <2>1. CASE ClaimRow(p)
    <3>1. row' \in Row /\ row'.status = "deep_leased"
      <4>1. row.status \in PendingStatus /\ LeasedStatusFor[row.status] = "deep_leased"
        BY <2>1 DEF ClaimRow, PendingStatus, LeasedStatusFor
      <4>2. QED
        BY <1>0, <2>1, <4>1, ClaimedRow DEF ClaimRow
    <3>2. QED
      BY <3>1 DEF RowFits, HandedOffHasPacket
  <2>2. CASE Begin(p) \/ Preflight(p) \/ Release(p) \/ Check(p)
    <3>1. row' \in {row, Beaten(row), Moved(row, "deep_pending")}
      BY <2>2 DEF Begin, Preflight, Release, Check
    <3>2. QED
      BY <1>0, <3>1, DeepRow
  <2>3. QED
    BY <2>1, <2>2
<1>3. \/ Forgets(p)
      \/ \E pc \in {"leased", "preflight", "check", "prepare", "release"} : Goes(p, pc)
      \/ Goes(p, "handoff") /\ packet # 0
      \/ Fails(p, "never")
  BY DEF ClaimRow, Begin, Preflight, Release, Check
<1>4. /\ OthersStay(p) /\ worker'[p].unit = 0
      /\ \/ worker'[p].pc \in {"idle", "leased", "preflight", "check", "prepare", "release", "fail"}
         \/ worker'[p].pc = "handoff" /\ packet # 0
  BY <1>0, <1>1, <1>3, Moves DEF Pc, Ends
<1>5. UnitFits(p)' /\ (At(p, "handoff")' => packet # 0)
  BY <1>0, <1>4 DEF UnitFits, At, Mine
<1>6. QED
  BY <1>0, <1>2, <1>4, <1>5, RowOnly

(* A new unit: its workspace, its registration, its start.                 *)
LEMMA PrepareStep == ASSUME DeepInv, NEW p \in Workers, Prepare(p) PROVE DeepInv'
<1>0. /\ worker \in [Workers -> Memory] /\ UnitFits(p) /\ unit \in [Units -> Unit] /\ UnitsFit
      /\ row' \in Row /\ RowFits' /\ HandedOffHasPacket' /\ packet' \in Units \cup {0}
      /\ UNCHANGED packet
  BY DeepRow DEF DeepInv, TypeOK, WorkerFits, Prepare
<1>1. faults' \in 0 .. MaxFaults
  BY BoundsAssumption DEF DeepInv, TypeOK, Prepare, Faulty
<1>2. PICK u \in Units :
         /\ ~unit[u].used
         /\ \/ /\ unit' = [unit EXCEPT ![u].used = TRUE, ![u].tree = TRUE]
               /\ worker' = [worker EXCEPT ![p].pc = "register", ![p].unit = u]
            \/ \E left \in BOOLEAN :
                  /\ unit' = [unit EXCEPT ![u].used = TRUE, ![u].tree = left]
                  /\ Fails(p, IF left THEN "never" ELSE "bounded")
  BY DEF Prepare
<1>3. Mine(p) = 0 /\ unit[u] = NoUnit /\ u # 0
  BY <1>0, <1>2 DEF Prepare, At, UnitFits, UnitsFit, Units
<1>4. PICK tree \in BOOLEAN :
         /\ unit' = [unit EXCEPT ![u] = [unit[u] EXCEPT !.used = TRUE, !.tree = tree]]
         /\ \/ tree /\ worker' = [worker EXCEPT ![p].pc = "register", ![p].unit = u]
            \/ \E end \in Ends : Fails(p, end)
  <2>1. CASE /\ unit' = [unit EXCEPT ![u].used = TRUE, ![u].tree = TRUE]
             /\ worker' = [worker EXCEPT ![p].pc = "register", ![p].unit = u]
    BY <2>1
  <2>2. ASSUME NEW left \in BOOLEAN, unit' = [unit EXCEPT ![u].used = TRUE, ![u].tree = left],
               Fails(p, IF left THEN "never" ELSE "bounded")
        PROVE  \E end \in Ends : Fails(p, end)
    BY <2>2 DEF Ends
  <2>3. QED
    BY <1>2, <2>1, <2>2
<1>5. /\ unit'[u].used /\ unit'[u].tree = tree /\ ~unit'[u].active
      /\ \A v \in Units \ {u} : unit'[v] = unit[v]
      /\ unit' \in [Units -> Unit]
  <2> DEFINE new == [unit[u] EXCEPT !.used = TRUE, !.tree = tree]
  <2>1. unit[u] \in Unit /\ ~unit[u].active
    <3>1. ~NoUnit.active
      BY DEF NoUnit
    <3>2. QED
      BY <1>0, <1>3, <3>1
  <2>2. new \in Unit /\ new.used /\ new.tree = tree /\ ~new.active
    BY <2>1 DEF Unit
  <2>3. unit' = [unit EXCEPT ![u] = new]
    BY <1>4
  <2> HIDE DEF new
  <2>4. QED
    BY <1>0, <2>2, <2>3
<1>6. Touches(p) /\ UnitsFit'
  BY <1>0, <1>2, <1>5 DEF Touches, UnitsFit, ActiveIsRegistered
<1>7. CASE tree /\ worker' = [worker EXCEPT ![p].pc = "register", ![p].unit = u]
  <2>1. worker' = [worker EXCEPT ![p] = [worker[p] EXCEPT !.pc = "register", !.unit = u]]
    BY <1>7
  <2>2. OthersStay(p) /\ worker'[p].pc = "register" /\ worker'[p].unit = u
    BY <1>0, <2>1 DEF OthersStay, Memory, Pc
  <2>3. unit'[u].tree
    BY <1>5, <1>7
  <2>4. UnitFits(p)' /\ ~At(p, "handoff")'
    BY <1>3, <1>5, <2>2, <2>3 DEF UnitFits, At, Mine
  <2>5. QED
    BY <1>0, <1>1, <1>2, <1>6, <2>2, <2>4, UnitStep
<1>8. CASE \E end \in Ends : Fails(p, end)
  <2>1. OthersStay(p) /\ worker'[p].pc = "fail" /\ worker'[p].unit = 0
    BY <1>0, <1>3, <1>8, Moves
  <2>2. UnitFits(p)' /\ ~At(p, "handoff")'
    BY <2>1 DEF UnitFits, At, Mine
  <2>3. QED
    BY <1>0, <1>1, <1>6, <2>1, <2>2, UnitStep
<1>9. QED
  BY <1>4, <1>7, <1>8

(* The unit of a worker that is past its preparation.                      *)
LEMMA MineIsAUnit ==
    ASSUME DeepInv, NEW p \in Workers,
           worker[p].pc \in {"register", "spawn", "begin", "running", "stop", "cleanup", "result", "save"}
    PROVE  Mine(p) \in Units /\ unit[Mine(p)].used /\ unit[Mine(p)] \in Unit
  BY DEF DeepInv, TypeOK, WorkerFits, UnitFits, Mine, Memory

(* A step of a worker on its own unit.                                     *)
LEMMA OwnUnitStep ==
    ASSUME DeepInv, NEW p \in Workers,
           worker[p].pc \in {"register", "spawn", "stop", "cleanup"},
           NEW new \in Unit, new.used, new.active => new.registered /\ new.tree,
           unit' = [unit EXCEPT ![Mine(p)] = new],
           UNCHANGED <<row, packet>>, faults' \in 0 .. MaxFaults,
           OthersStay(p), worker'[p].pc # "handoff", UnitFits(p)',
           worker'[p].unit \in {0, Mine(p)}
    PROVE  DeepInv'
<1>1. Mine(p) \in Units /\ unit[Mine(p)].used
  BY MineIsAUnit
<1>2. /\ unit'[Mine(p)] = new /\ unit' \in [Units -> Unit]
      /\ \A v \in Units \ {Mine(p)} : unit'[v] = unit[v]
  BY <1>1 DEF DeepInv, TypeOK
<1>3. Touches(p) /\ UnitsFit'
  BY <1>1, <1>2 DEF DeepInv, Touches, UnitsFit, ActiveIsRegistered
<1>4. row' \in Row /\ RowFits' /\ HandedOffHasPacket' /\ packet' \in Units \cup {0}
  BY DeepRow DEF DeepInv, TypeOK
<1>5. QED
  BY <1>3, <1>4, UnitStep DEF At

LEMMA RegisterStep == ASSUME DeepInv, NEW p \in Workers, Register(p) PROVE DeepInv'
<1>0. /\ worker \in [Workers -> Memory] /\ UnitFits(p) /\ At(p, "register")
      /\ UNCHANGED <<row, packet>> /\ faults' \in 0 .. MaxFaults
  BY BoundsAssumption DEF DeepInv, TypeOK, WorkerFits, Register, Faulty
<1>1. /\ Mine(p) \in Units /\ unit[Mine(p)] \in Unit /\ unit[Mine(p)].used
      /\ unit \in [Units -> Unit] /\ ~unit[Mine(p)].active
  BY <1>0, MineIsAUnit DEF DeepInv, TypeOK, At, UnitFits, Units
<1>2. CASE unit' = [unit EXCEPT ![Mine(p)].registered = TRUE] /\ Goes(p, "spawn")
  <2> DEFINE new == [unit[Mine(p)] EXCEPT !.registered = TRUE]
  <2>1. /\ new \in Unit /\ new.used /\ ~new.active /\ new.registered
        /\ new.tree = unit[Mine(p)].tree
    BY <1>1 DEF Unit
  <2>2. unit' = [unit EXCEPT ![Mine(p)] = new]
    BY <1>2
  <2> HIDE DEF new
  <2>3. OthersStay(p) /\ worker'[p].pc = "spawn" /\ worker'[p].unit = Mine(p)
    BY <1>0, <1>2, Moves DEF Pc
  <2>4. new.registered /\ new.tree
    BY <1>0, <2>1 DEF UnitFits
  <2>5. UnitFits(p)'
    <3>1. unit'[Mine(p)] = new
      BY <1>1, <2>2
    <3>2. QED
      BY <1>1, <2>1, <2>3, <2>4, <3>1 DEF UnitFits, At, Mine, Units
  <2>6. QED
    BY <1>0, <2>1, <2>2, <2>3, <2>5, OwnUnitStep DEF At
<1>3. CASE RegisterFails(p)
  <2>1. PICK left \in BOOLEAN :
           /\ unit' = [unit EXCEPT ![Mine(p)].tree = left]
           /\ Fails(p, IF left THEN "never" ELSE "bounded")
    BY <1>3 DEF RegisterFails
  <2> DEFINE new == [unit[Mine(p)] EXCEPT !.tree = left]
  <2>2. new \in Unit /\ new.used /\ ~new.active
    BY <1>1 DEF Unit
  <2>3. unit' = [unit EXCEPT ![Mine(p)] = new]
    BY <2>1
  <2> HIDE DEF new
  <2>4. OthersStay(p) /\ worker'[p].pc = "fail" /\ worker'[p].unit = Mine(p)
    <3>1. (IF left THEN "never" ELSE "bounded") \in Ends
      BY DEF Ends
    <3>2. QED
      BY <1>0, <2>1, <3>1, Moves
  <2>5. UnitFits(p)'
    <3>1. unit'[Mine(p)] = new
      BY <1>1, <2>3
    <3>2. QED
      BY <1>1, <2>2, <2>4, <3>1 DEF UnitFits, At, Mine, Units
  <2>6. QED
    BY <1>0, <2>2, <2>3, <2>4, <2>5, OwnUnitStep DEF At
<1>4. QED
  BY <1>2, <1>3 DEF Register

LEMMA SpawnStep == ASSUME DeepInv, NEW p \in Workers, Spawn(p) PROVE DeepInv'
<1>0. /\ worker \in [Workers -> Memory] /\ UnitFits(p) /\ At(p, "spawn")
      /\ UNCHANGED <<row, packet>> /\ faults' \in 0 .. MaxFaults
  BY BoundsAssumption DEF DeepInv, TypeOK, WorkerFits, Spawn, Faulty
<1>1. /\ Mine(p) \in Units /\ unit[Mine(p)] \in Unit /\ unit[Mine(p)].used
      /\ unit \in [Units -> Unit] /\ ~unit[Mine(p)].active
      /\ unit[Mine(p)].registered /\ unit[Mine(p)].tree
  BY <1>0, MineIsAUnit DEF DeepInv, TypeOK, At, UnitFits, Units
<1>2. CASE unit' = [unit EXCEPT ![Mine(p)].active = TRUE] /\ Goes(p, "begin")
  <2> DEFINE new == [unit[Mine(p)] EXCEPT !.active = TRUE]
  <2>1. new \in Unit /\ new.used /\ new.registered /\ new.tree
    BY <1>1 DEF Unit
  <2>2. unit' = [unit EXCEPT ![Mine(p)] = new]
    BY <1>2
  <2> HIDE DEF new
  <2>3. OthersStay(p) /\ worker'[p].pc = "begin" /\ worker'[p].unit = Mine(p)
    BY <1>0, <1>2, Moves DEF Pc
  <2>4. UnitFits(p)'
    <3>1. unit'[Mine(p)] = new
      BY <1>1, <2>2
    <3>2. QED
      BY <1>1, <2>1, <2>3, <3>1 DEF UnitFits, At, Mine, Units
  <2>5. QED
    BY <1>0, <2>1, <2>2, <2>3, <2>4, OwnUnitStep DEF At
<1>3. CASE UNCHANGED unit /\ Cleans(p, "bounded")
  <2>1. OthersStay(p) /\ worker'[p].pc = "cleanup" /\ worker'[p].unit = Mine(p)
    BY <1>0, <1>3, Moves DEF Ends
  <2>2. UnitFits(p)'
    BY <1>1, <1>3, <2>1 DEF UnitFits, At, Mine, Units
  <2>3. QED
    BY <1>0, <1>3, <2>1, <2>2, RowOnly, DeepRow DEF At
<1>4. QED
  BY <1>2, <1>3 DEF Spawn

(* The attempt begins, and ends one way or the other.                      *)
LEMMA RunningStep ==
    ASSUME DeepInv, NEW p \in Workers, BeginAttempt(p) \/ Complete(p) PROVE DeepInv'
<1>0. /\ worker \in [Workers -> Memory] /\ UnitFits(p) /\ worker[p].pc \in {"begin", "running"}
      /\ UNCHANGED <<packet, unit>> /\ faults' \in 0 .. MaxFaults
  <2>1. worker \in [Workers -> Memory] /\ UnitFits(p) /\ faults \in 0 .. MaxFaults
    BY DEF DeepInv, TypeOK, WorkerFits
  <2>2. worker[p].pc \in {"begin", "running"} /\ UNCHANGED <<packet, unit>>
    BY DEF BeginAttempt, Complete, At
  <2>3. faults' = faults \/ (faults < MaxFaults /\ faults' = faults + 1)
    BY DEF BeginAttempt, Complete, Faulty
  <2>4. QED
    BY <2>1, <2>2, <2>3, BoundsAssumption
<1>1. Mine(p) \in Units /\ unit[Mine(p)].used
  BY <1>0, MineIsAUnit
<1>2. row' \in Row /\ RowFits' /\ HandedOffHasPacket'
  <2>1. row' \in {row, Begun(row)}
    BY DEF BeginAttempt, Complete
  <2>2. QED
    BY <1>0, <2>1, DeepRow
<1>3. \/ Goes(p, "running") \/ Fails(p, "never")
      \/ \E end \in Ends : Cleans(p, end) \/ \E clean \in BOOLEAN : Stops(p, end, clean)
  BY DEF BeginAttempt, Refused, Complete, Ends
<1>4. /\ OthersStay(p) /\ worker'[p].unit = Mine(p)
      /\ \/ worker'[p].pc \in {"running", "stop", "cleanup"}
         \/ worker'[p].pc = "fail" /\ worker'[p].end = "never"
  BY <1>0, <1>3, Moves DEF Pc, Ends
<1>5. UnitFits(p)' /\ ~At(p, "handoff")'
  BY <1>0, <1>1, <1>4 DEF UnitFits, At, Mine, Units
<1>6. QED
  BY <1>0, <1>2, <1>4, <1>5, RowOnly

LEMMA StopStep == ASSUME DeepInv, NEW p \in Workers, Stop(p) PROVE DeepInv'
<1>0. /\ worker \in [Workers -> Memory] /\ UnitFits(p) /\ At(p, "stop")
      /\ UNCHANGED <<row, packet>> /\ faults' \in 0 .. MaxFaults /\ worker[p].end \in Ends
  BY BoundsAssumption DEF DeepInv, TypeOK, WorkerFits, Stop, Faulty, Memory
<1>1. /\ Mine(p) \in Units /\ unit[Mine(p)] \in Unit /\ unit[Mine(p)].used
      /\ unit \in [Units -> Unit]
  BY <1>0, MineIsAUnit DEF DeepInv, TypeOK, At
<1>2. CASE /\ unit' = [unit EXCEPT ![Mine(p)].active = FALSE]
           /\ Forgets(p) \/ Cleans(p, worker[p].end) \/ Fails(p, worker[p].end)
  <2> DEFINE new == [unit[Mine(p)] EXCEPT !.active = FALSE]
  <2>1. new \in Unit /\ new.used /\ ~new.active
    BY <1>1 DEF Unit
  <2>2. unit' = [unit EXCEPT ![Mine(p)] = new]
    BY <1>2
  <2> HIDE DEF new
  <2>3. /\ OthersStay(p)
        /\ \/ worker'[p].pc = "idle" /\ worker'[p].unit = 0
           \/ worker'[p].pc \in {"cleanup", "fail"} /\ worker'[p].unit = Mine(p)
    BY <1>0, <1>2, Moves
  <2>4. UnitFits(p)'
    <3>1. unit'[Mine(p)] = new
      BY <1>1, <2>2
    <3>2. QED
      BY <1>1, <2>1, <2>3, <3>1 DEF UnitFits, At, Mine, Units
  <2>5. QED
    BY <1>0, <2>1, <2>2, <2>3, <2>4, OwnUnitStep DEF At
<1>3. CASE UNCHANGED unit /\ (Forgets(p) \/ Fails(p, "never"))
  <2>1. /\ OthersStay(p)
        /\ \/ worker'[p].pc = "idle" /\ worker'[p].unit = 0
           \/ worker'[p].pc = "fail" /\ worker'[p].end = "never" /\ worker'[p].unit = Mine(p)
    BY <1>0, <1>3, Moves DEF Ends
  <2>2. UnitFits(p)'
    BY <1>1, <1>3, <2>1 DEF UnitFits, At, Mine, Units
  <2>3. QED
    BY <1>0, <1>3, <2>1, <2>2, RowOnly, DeepRow DEF At
<1>4. ASSUME NEW still \in VerifiedInactive(unit[Mine(p)].active),
             unit' = [unit EXCEPT ![Mine(p)].active = @ /\ still]
      PROVE  unit' = [unit EXCEPT ![Mine(p)].active = FALSE]
  <2>1. (unit[Mine(p)].active /\ still) = FALSE
    BY DEF VerifiedInactive
  <2>2. QED
    BY <1>4, <2>1
<1>5. CASE \E still \in VerifiedInactive(unit[Mine(p)].active) :
              unit' = [unit EXCEPT ![Mine(p)].active = @ /\ still]
  <2>1. unit' = [unit EXCEPT ![Mine(p)].active = FALSE]
    BY <1>4, <1>5
  <2>2. CASE Forgets(p) \/ Cleans(p, worker[p].end) \/ Fails(p, worker[p].end)
    BY <1>2, <2>1, <2>2
  <2>3. CASE UNCHANGED unit /\ (Forgets(p) \/ Fails(p, "never"))
    BY <1>3, <2>3
  <2>4. QED
    BY <2>2, <2>3 DEF Stop
<1>6. QED
  BY <1>3, <1>5 DEF Stop

LEMMA CleanupStep == ASSUME DeepInv, NEW p \in Workers, Cleanup(p) PROVE DeepInv'
<1>0. /\ worker \in [Workers -> Memory] /\ UnitFits(p) /\ At(p, "cleanup")
      /\ UNCHANGED <<row, packet>> /\ faults' \in 0 .. MaxFaults /\ worker[p].end \in Ends
  BY BoundsAssumption DEF DeepInv, TypeOK, WorkerFits, Cleanup, Faulty, Memory
<1>1. /\ Mine(p) \in Units /\ unit[Mine(p)] \in Unit /\ unit[Mine(p)].used
      /\ unit \in [Units -> Unit]
  BY <1>0, MineIsAUnit DEF DeepInv, TypeOK, At
<1>2. ASSUME NEW new \in Unit, new.used, ~new.active,
             unit' = [unit EXCEPT ![Mine(p)] = new],
             Goes(p, "result") \/ \E end \in Ends : Fails(p, end)
      PROVE  DeepInv'
  <2>1. /\ OthersStay(p) /\ worker'[p].unit = Mine(p)
        /\ worker'[p].pc \in {"result", "fail"}
    BY <1>0, <1>2, Moves DEF Pc
  <2>2. UnitFits(p)'
    <3>1. unit'[Mine(p)] = new
      BY <1>1, <1>2
    <3>2. QED
      BY <1>1, <1>2, <2>1, <3>1 DEF UnitFits, At, Mine, Units
  <2>3. QED
    BY <1>0, <1>2, <2>1, <2>2, OwnUnitStep DEF At
<1>3. CASE /\ ~unit[Mine(p)].active
           /\ unit' = [unit EXCEPT ![Mine(p)].tree = FALSE, ![Mine(p)].registered = FALSE]
           /\ Goes(p, "result") \/ Fails(p, worker[p].end)
  <2> DEFINE new == [unit[Mine(p)] EXCEPT !.tree = FALSE, !.registered = FALSE]
  <2>1. new \in Unit /\ new.used /\ ~new.active
    BY <1>1, <1>3 DEF Unit
  <2>2. unit' = [unit EXCEPT ![Mine(p)] = new]
    BY <1>3
  <2> HIDE DEF new
  <2>3. QED
    BY <1>0, <1>2, <1>3, <2>1, <2>2
<1>4. CASE /\ ~unit[Mine(p)].active
           /\ \E left \in BOOLEAN : unit' = [unit EXCEPT ![Mine(p)].tree = left]
           /\ Fails(p, "never")
  <2>1. PICK left \in BOOLEAN : unit' = [unit EXCEPT ![Mine(p)].tree = left]
    BY <1>4
  <2> DEFINE new == [unit[Mine(p)] EXCEPT !.tree = left]
  <2>2. new \in Unit /\ new.used /\ ~new.active
    BY <1>1, <1>4 DEF Unit
  <2>3. unit' = [unit EXCEPT ![Mine(p)] = new]
    BY <2>1
  <2> HIDE DEF new
  <2>4. QED
    BY <1>2, <1>4, <2>2, <2>3 DEF Ends
<1>5. CASE UNCHANGED unit /\ Fails(p, "never")
  <2>1. OthersStay(p) /\ worker'[p].pc = "fail" /\ worker'[p].end = "never" /\ worker'[p].unit = Mine(p)
    BY <1>0, <1>5, Moves DEF Ends
  <2>2. UnitFits(p)'
    BY <1>1, <1>5, <2>1 DEF UnitFits, At, Mine, Units
  <2>3. QED
    BY <1>0, <1>5, <2>1, <2>2, RowOnly, DeepRow DEF At
<1>6. QED
  BY <1>3, <1>4, <1>5 DEF Cleanup, CleanupFails

(* The packet is saved, and the row leaves the stage.                      *)
LEMMA PacketStep ==
    ASSUME DeepInv, NEW p \in Workers, Result(p) \/ Save(p) PROVE DeepInv'
<1>0. /\ worker \in [Workers -> Memory] /\ UnitFits(p) /\ worker[p].pc \in {"result", "save"}
      /\ UNCHANGED unit /\ faults' \in 0 .. MaxFaults /\ row' \in {row, Beaten(row)}
  BY DEF DeepInv, TypeOK, WorkerFits, Result, Save, At
<1>1. Mine(p) \in Units /\ unit[Mine(p)].used /\ ~unit[Mine(p)].active
  BY <1>0, MineIsAUnit DEF UnitFits, Units
<1>2. /\ UNCHANGED packet \/ (packet = 0 /\ packet' = Mine(p))
      /\ \/ Forgets(p) \/ Goes(p, "save") \/ \E end \in Ends : Fails(p, end)
         \/ Goes(p, "handoff") /\ packet' = Mine(p)
  BY DEF Result, Save, PacketFirst, Ends
<1>3. row' \in Row /\ RowFits' /\ HandedOffHasPacket' /\ packet' \in Units \cup {0}
  <2>1. row' \in Row /\ RowFits' /\ (UNCHANGED packet => HandedOffHasPacket')
    BY <1>0, DeepRow
  <2>2. packet' \in Units \cup {0}
    BY <1>1, <1>2 DEF DeepInv, TypeOK
  <2>3. packet' = Mine(p) => HandedOffHasPacket'
    BY <1>1 DEF HandedOffHasPacket, Units
  <2>4. QED
    BY <1>2, <2>1, <2>2, <2>3
<1>4. /\ OthersStay(p)
      /\ \/ worker'[p].pc = "idle" /\ worker'[p].unit = 0
         \/ worker'[p].pc \in {"save", "fail"} /\ worker'[p].unit = Mine(p)
         \/ worker'[p].pc = "handoff" /\ worker'[p].unit = Mine(p) /\ packet' = Mine(p)
  BY <1>0, <1>2, Moves DEF Pc
<1>5. UnitFits(p)' /\ (At(p, "handoff")' => packet' # 0)
  BY <1>0, <1>1, <1>4 DEF UnitFits, At, Mine, Units
<1>6. packet # 0 => packet' # 0
  BY <1>2
<1>7. Touches(p) /\ UnitsFit'
  BY <1>0, NothingTouched DEF DeepInv, UnitsFit, ActiveIsRegistered
<1>8. QED
  BY <1>0, <1>3, <1>4, <1>5, <1>6, <1>7, UnitStep

LEMMA LeavingStep ==
    ASSUME DeepInv, NEW p \in Workers, Handoff(p) \/ Promote(p) \/ Fail(p) PROVE DeepInv'
<1>0. /\ worker \in [Workers -> Memory] /\ UnitFits(p) /\ WorkerFits(p)
      /\ row \in Row /\ RowFits /\ HandedOffHasPacket
      /\ UNCHANGED <<packet, unit>> /\ worker[p].pc \in {"handoff", "promote", "fail"}
  BY DEF DeepInv, TypeOK, WorkerFits, Handoff, Promote, Fail, At
<1>1. faults' \in 0 .. MaxFaults
  <2>1. faults' = faults \/ (faults < MaxFaults /\ faults' = faults + 1)
    BY DEF Handoff, Promote, Fail, Faulty
  <2>2. QED
    BY <2>1, BoundsAssumption DEF DeepInv, TypeOK
<1>2. Forgets(p) \/ Goes(p, "promote")
  BY DEF Handoff, Promote, Fail
<1>3. row' \in Row /\ RowFits' /\ HandedOffHasPacket'
  <2>1. CASE row' = row
    BY <1>0, <2>1, DeepRow
  <2>2. CASE Handoff(p) /\ row' = Moved(row, "research_ready")
    <3>1. row' \in Row /\ row'.status = "research_ready"
      <4>1. "research_ready" \in Status
        BY StatusType
      <4>2. QED
        BY <1>0, <2>2, <4>1, MovedRow
    <3>2. packet # 0
      BY <1>0, <2>2 DEF Handoff, WorkerFits
    <3>3. QED
      BY <1>0, <3>1, <3>2 DEF RowFits, HandedOffHasPacket
  <2>3. CASE Promote(p) /\ row' = [row EXCEPT !.status = Promoted(@)]
    <3>1. CASE row.status = "research_ready"
      <4>1. row' = [row EXCEPT !.status = "entity_pending"]
        BY <2>3, <3>1 DEF Promoted
      <4>2. "entity_pending" \in Status
        BY StatusType DEF PendingStatus
      <4>3. row' \in Row /\ row'.status = "entity_pending"
        BY <1>0, <4>1, <4>2 DEF Row
      <4>4. QED
        BY <1>0, <3>1, <4>3 DEF RowFits, HandedOffHasPacket
    <3>2. CASE row.status # "research_ready"
      <4>1. row' = row
        BY <1>0, <2>3, <3>2 DEF Promoted, Row
      <4>2. QED
        BY <1>0, <4>1, DeepRow
    <3>3. QED
      BY <3>1, <3>2
  <2>4. CASE row.status = "deep_leased" /\ row' \in FailureRows(row, worker[p].end)
    <3>1. row.status \in LeasedStatus /\ PendingStatusFor[row.status] = "deep_pending"
      BY <2>4 DEF LeasedStatus, PendingStatusFor
    <3>2. /\ row' \in Row
          /\ \/ row'.status \in {"expired", "dead_letter"}
             \/ row'.status = "retry_wait" /\ row'.target = "deep_pending"
      BY <1>0, <2>4, <3>1, FailureRow
    <3>3. QED
      BY <3>2 DEF RowFits, HandedOffHasPacket
  <2>5. QED
    BY <2>1, <2>2, <2>3, <2>4 DEF Handoff, Promote, Fail, Fence
<1>4. /\ OthersStay(p)
      /\ \/ worker'[p].pc = "idle" /\ worker'[p].unit = 0
         \/ worker'[p].pc = "promote" /\ worker'[p].unit = Mine(p)
  BY <1>0, <1>2, Moves DEF Pc
<1>5. UnitFits(p)' /\ ~At(p, "handoff")'
  BY <1>0, <1>4 DEF UnitFits, At, Mine
<1>6. QED
  BY <1>0, <1>1, <1>3, <1>4, <1>5, RowOnly

(* What happens to the row, the workers and the units from outside.        *)
LEMMA OutsideStep ==
    ASSUME DeepInv,
           \/ \E p \in Workers : Beat(p) \/ Crash(p)
           \/ \E u \in Units : UnitEnds(u)
           \/ RecoverRow \/ SweepRow \/ Tick \/ GetsStale
    PROVE  DeepInv'
<1>0. /\ worker \in [Workers -> Memory] /\ row \in Row /\ RowFits /\ HandedOffHasPacket
      /\ unit \in [Units -> Unit] /\ faults \in 0 .. MaxFaults /\ packet \in Units \cup {0}
      /\ UNCHANGED packet
  BY DEF DeepInv, TypeOK, Beat, Crash, UnitEnds, RecoverRow, SweepRow, Tick, GetsStale
<1>1. ASSUME UNCHANGED <<unit, worker, faults>>, row' \in Row, RowFits', HandedOffHasPacket'
      PROVE  DeepInv'
  BY <1>0, <1>1 DEF DeepInv, TypeOK, UnitsFit, ActiveIsRegistered, OwnUnits, WorkerFits, UnitFits, At, Mine
<1>2. ASSUME NEW p \in Workers, Beat(p) PROVE DeepInv'
  BY <1>0, <1>1, <1>2, DeepRow DEF Beat
<1>3. ASSUME NEW p \in Workers, Crash(p) PROVE DeepInv'
  <2>1. OthersStay(p) /\ worker'[p].pc = "idle" /\ worker'[p].unit = 0
    BY <1>0, <1>3, Moves DEF Crash
  <2>2. UnitFits(p)' /\ ~At(p, "handoff")'
    BY <2>1 DEF UnitFits, At, Mine
  <2>3. faults' \in 0 .. MaxFaults /\ UNCHANGED <<row, unit>>
    BY <1>0, <1>3, BoundsAssumption DEF Crash, Faulty
  <2>4. QED
    BY <1>0, <2>1, <2>2, <2>3, RowOnly, DeepRow
<1>4. ASSUME NEW u \in Units, UnitEnds(u) PROVE DeepInv'
  <2>1. UNCHANGED <<row, packet, worker, faults>> /\ unit[u] \in Unit /\ unit[u].active
    BY <1>0, <1>4 DEF UnitEnds
  <2> DEFINE new == [unit[u] EXCEPT !.active = FALSE]
  <2>2. /\ new \in Unit /\ ~new.active /\ new.used = unit[u].used
        /\ new.registered = unit[u].registered /\ new.tree = unit[u].tree
    BY <2>1 DEF Unit
  <2>3. unit' = [unit EXCEPT ![u] = new]
    BY <1>4 DEF UnitEnds
  <2> HIDE DEF new
  <2>4. unit' \in [Units -> Unit] /\ unit'[u] = new /\ \A v \in Units \ {u} : unit'[v] = unit[v]
    BY <1>0, <2>2, <2>3
  <2>5. unit[u].used
    BY <2>1 DEF DeepInv, UnitsFit, NoUnit
  <2>6. UnitsFit'
    BY <2>2, <2>4, <2>5 DEF DeepInv, UnitsFit, ActiveIsRegistered
  <2>7. ASSUME NEW p \in Workers PROVE WorkerFits(p)'
    <3>1. /\ WorkerFits(p) /\ Mine(p) \in Units \cup {0}
      BY <1>0 DEF DeepInv, Mine, Memory
    <3>2. QED
      BY <1>0, <2>1, <2>2, <2>4, <3>1 DEF WorkerFits, UnitFits, At, Mine
  <2>8. QED
    BY <1>0, <2>1, <2>4, <2>6, <2>7 DEF DeepInv, TypeOK, RowFits, OwnUnits, HandedOffHasPacket, Mine
<1>5. CASE RecoverRow
  <2>1. /\ row' = Recovered(row, FALSE)
        /\ LeaseExpired(row) \/ RetryDue(row)
        /\ row.status = "retry_wait" => row.target \in PendingStatus
    BY <1>0, <1>5 DEF RecoverRow, RowFits, PendingStatus
  <2>2. (IF Leased(row) THEN PendingStatusFor[row.status] ELSE row.target) = "deep_pending"
    BY <1>0, <2>1 DEF RowFits, LeaseExpired, RetryDue, Leased, LeasedStatus, PendingStatusFor
  <2>3. row' \in Row /\ row'.status = "deep_pending"
    BY <1>0, <2>1, <2>2, RecoveredRow
  <2>4. RowFits' /\ HandedOffHasPacket'
    BY <2>3 DEF RowFits, HandedOffHasPacket
  <2>5. QED
    BY <1>1, <1>5, <2>3, <2>4 DEF RecoverRow
<1>6. CASE Tick
  <2>1. row' \in Row /\ row'.status = row.status /\ row'.target = row.target
    BY <1>0, <1>6, AgedRow DEF Tick
  <2>2. QED
    BY <1>0, <1>1, <1>6, <2>1 DEF Tick, RowFits, HandedOffHasPacket
<1>7. CASE GetsStale
  <2>1. row.fresh \in 0 .. Freshness /\ row.fresh > 0 /\ Freshness \in Nat
    BY <1>0, <1>7, TimesType DEF GetsStale, Row
  <2>2. row.fresh - 1 \in 0 .. Freshness
    BY <2>1
  <2>3. row' \in Row /\ row'.status = row.status /\ row'.target = row.target
    BY <1>0, <1>7, <2>2 DEF GetsStale, Row
  <2>4. QED
    BY <1>0, <1>1, <1>7, <2>3 DEF GetsStale, RowFits, HandedOffHasPacket
<1>8. CASE SweepRow
  <2>1. row' = Swept(row, FALSE) /\ row.status \in LeasedStatus /\ PendingStatusFor[row.status] = "deep_pending"
    BY <1>0, <1>8 DEF SweepRow, RowFits, LeaseExpired, Leased, LeasedStatus, PendingStatusFor
  <2>2. /\ row' \in Row
        /\ \/ row'.status = "retry_wait" /\ row'.target = "deep_pending"
           \/ row'.status = "dead_letter"
    BY <1>0, <2>1, SweptRow
  <2>3. RowFits' /\ HandedOffHasPacket'
    BY <2>2 DEF RowFits, HandedOffHasPacket
  <2>4. QED
    BY <1>1, <1>8, <2>2, <2>3 DEF SweepRow
<1>9. QED
  BY <1>2, <1>3, <1>4, <1>5, <1>6, <1>7, <1>8

LEMMA DeepInit == Init => DeepInv
<1> SUFFICES ASSUME Init PROVE DeepInv
  OBVIOUS
<1>1. row \in Row /\ row.status = "deep_pending"
  <2> DEFINE r == AdmittedRow
  <2>1. r \in Row
    BY TimesType, StatusType DEF AdmittedRow, Row, PendingStatus
  <2>2. "deep_pending" \in Status
    BY StatusType DEF PendingStatus
  <2> HIDE DEF r
  <2>3. [r EXCEPT !.status = "deep_pending"] \in Row /\ [r EXCEPT !.status = "deep_pending"].status = "deep_pending"
    BY <2>1, <2>2 DEF Row
  <2>4. QED
    BY <2>3 DEF Init, r
<1>2. NoUnit \in Unit /\ ~NoUnit.active /\ Idle \in Memory /\ Idle.pc = "idle" /\ Idle.unit = 0
  BY DEF NoUnit, Unit, Idle, Memory, Pc, Ends
<1>3. /\ unit = [u \in Units |-> NoUnit] /\ worker = [p \in Workers |-> Idle]
      /\ packet = 0 /\ faults = 0
  BY DEF Init
<1>4. TypeOK
  BY <1>1, <1>2, <1>3, BoundsAssumption DEF TypeOK
<1>5. RowFits /\ HandedOffHasPacket
  BY <1>1 DEF RowFits, HandedOffHasPacket
<1>6. UnitsFit
  BY <1>2, <1>3 DEF UnitsFit, ActiveIsRegistered
<1>7. OwnUnits /\ \A p \in Workers : WorkerFits(p)
  BY <1>2, <1>3 DEF OwnUnits, WorkerFits, UnitFits, At, Mine
<1>8. QED
  BY <1>4, <1>5, <1>6, <1>7 DEF DeepInv

LEMMA DeepStep == DeepInv /\ [Next]_vars => DeepInv'
<1> SUFFICES ASSUME DeepInv, [Next]_vars PROVE DeepInv'
  OBVIOUS
<1>1. CASE UNCHANGED vars
  BY <1>1 DEF vars, DeepInv, TypeOK, RowFits, UnitsFit, ActiveIsRegistered, OwnUnits, WorkerFits, UnitFits,
              HandedOffHasPacket, At, Mine
<1>2. ASSUME NEW p \in Workers, ClaimRow(p) \/ WorkerStep(p) PROVE DeepInv'
  BY <1>2, EarlyStep, PrepareStep, RegisterStep, SpawnStep, RunningStep, StopStep, CleanupStep,
     PacketStep, LeavingStep DEF WorkerStep
<1>3. QED
  BY <1>1, <1>2, OutsideStep DEF Next

LEMMA DeepInvariant == Spec => []DeepInv
  BY DeepInit, DeepStep, PTL DEF Spec
-----------------------------------------------------------------------------
(* The row, the packet, the units and every worker's memory keep their     *)
(* types, for any number of workers, executions and faults.                *)
THEOREM DeepTypeCorrect == Spec => []TypeOK
<1>1. DeepInv => TypeOK
  BY DEF DeepInv
<1>2. QED
  BY <1>1, DeepInvariant, PTL

(* Every unit that runs is one the registry knows, whichever call of the   *)
(* executor failed and whenever its worker died.                           *)
THEOREM RunningIsKnown == Spec => []ActiveIsRegistered
<1>1. DeepInv => ActiveIsRegistered
  BY DEF DeepInv, UnitsFit
<1>2. QED
  BY <1>1, DeepInvariant, PTL

(* A row past the deep stage has its packet, although nothing fences the   *)
(* packet and the transition does not look at it.                          *)
THEOREM PacketBeforeHandoff == Spec => []HandedOffHasPacket
<1>1. DeepInv => HandedOffHasPacket
  BY DEF DeepInv
<1>2. QED
  BY <1>1, DeepInvariant, PTL

(* While its lease holds, only the worker's own failure that may be        *)
(* retried and its handoff let go of it to retry_wait or research_ready,   *)
(* and both know the worker's unit to be inactive.  Recovery and sweep,    *)
(* which know nothing of units, take expired leases alone.                 *)
THEOREM NothingRunsOn == Spec => LeavesNothingRunning
<1>1. ASSUME DeepInv, [Next]_vars, NEW p \in Workers,
             Fence(row, p, "deep_leased"), row'.owner = NoWorker,
             row'.status \in {"retry_wait", "research_ready"}, Mine(p) # 0
      PROVE  ~unit[Mine(p)].active
  <2>0. /\ row \in Row /\ p # NoWorker /\ WorkerFits(p) /\ row' # row
        /\ row.owner = p /\ row.status = "deep_leased" /\ row.lease > 0
    BY <1>1, NoWorkerAssumption DEF DeepInv, TypeOK, Fence
  <2>1. ASSUME NEW q \in Workers, Handoff(q) PROVE ~unit[Mine(p)].active
    <3>1. q = p /\ At(p, "handoff")
      BY <1>1, <2>0, <2>1 DEF Handoff, Fence
    <3>2. QED
      BY <1>1, <2>0, <3>1 DEF WorkerFits, UnitFits, At
  <2>2. ASSUME NEW q \in Workers, Fail(q) PROVE ~unit[Mine(p)].active
    <3>1. /\ q = p /\ At(p, "fail") /\ row.status \in LeasedStatus
          /\ row' \in FailureRows(row, worker[p].end)
      BY <1>1, <2>0, <2>2 DEF Fail, Fence, LeasedStatus
    <3>2. worker[p].end \in {"bounded", "always"}
      BY <1>1, <2>0, <3>1, FailureRow
    <3>3. worker[p].end = "bounded"
      BY <1>1, <3>2 DEF DeepInv, TypeOK, Memory, Ends
    <3>4. QED
      BY <1>1, <2>0, <3>1, <3>3 DEF WorkerFits, UnitFits
  <2>3. ASSUME row' \in {Beaten(row), Begun(row), [row EXCEPT !.status = Promoted(@)],
                         [Aged(row) EXCEPT !.fresh = row.fresh], [row EXCEPT !.fresh = @ - 1]}
        PROVE  FALSE
    <3>1. row'.owner = row.owner
      BY <2>0, <2>3, BeatenRow, BegunRow, AgedRow DEF Row
    <3>2. QED
      BY <1>1, <2>0, <3>1
  <2>4. ASSUME NEW q \in Workers, row' = Claimed(row, q) PROVE FALSE
    <3>1. Claimed(row, q).owner = q
      BY <2>0 DEF Claimed, Row
    <3>2. QED
      BY <1>1, <2>4, <3>1, NoWorkerAssumption
  <2>5. ASSUME row' = Moved(row, "deep_pending") PROVE FALSE
    <3>1. "deep_pending" \in Status
      BY StatusType DEF PendingStatus
    <3>2. QED
      BY <1>1, <2>0, <2>5, <3>1, MovedRow
  <2>6. ~RecoverRow /\ ~SweepRow
    <3>1. ~LeaseExpired(row) /\ ~RetryDue(row)
      BY <2>0 DEF LeaseExpired, RetryDue, Row
    <3>2. QED
      BY <3>1 DEF RecoverRow, SweepRow
  <2>7. QED
    BY <1>1, <2>0, <2>1, <2>2, <2>3, <2>4, <2>5, <2>6
       DEF Next, WorkerStep, ClaimRow, Begin, Preflight, Release, Check, Prepare, Register, Spawn,
           BeginAttempt, Complete, Stop, Cleanup, Result, Save, Promote, Beat, Crash, UnitEnds, Tick,
           GetsStale, vars
<1>2. DeepInv /\ [Next]_vars =>
        [\A p \in Workers :
            /\ Fence(row, p, "deep_leased") /\ row'.owner = NoWorker
            /\ row'.status \in {"retry_wait", "research_ready"}
            /\ Mine(p) # 0
            => ~unit[Mine(p)].active]_vars
  BY <1>1
<1>3. QED
  BY <1>2, DeepInvariant, PTL DEF Spec, LeavesNothingRunning
-----------------------------------------------------------------------------
(* The units that are left alone.  A step of a worker leaves at most its   *)
(* own, and only a step that counts a fault does.                          *)
CleanupIsOver(p) == At(p, "cleanup") => ~unit[Mine(p)].active

LeftFits == LeftOnlyByFaults /\ \A p \in Workers : CleanupIsOver(p)

LEMMA LeftIsCounted ==
    /\ IsFiniteSet(Left) /\ Cardinality(Left) \in Nat
    /\ \A S \in SUBSET Left : IsFiniteSet(S) /\ Cardinality(S) <= Cardinality(Left)
<1>1. IsFiniteSet(Units)
  BY BoundsAssumption, FS_Interval DEF Units
<1>2. IsFiniteSet(Left)
  BY <1>1, FS_Subset DEF Left
<1>3. QED
  BY <1>2, FS_Subset, FS_CardinalityType

LEMMA LeftGrows ==
    ASSUME LeftOnlyByFaults, faults \in Nat, faults' \in {faults, faults + 1},
           \/ Left' \subseteq Left
           \/ faults' = faults + 1 /\ \E u : Left' \subseteq Left \cup {u}
    PROVE  LeftOnlyByFaults'
<1> DEFINE n == Cardinality(Left)
<1>1. IsFiniteSet(Left) /\ n \in Nat /\ n <= faults
  BY LeftIsCounted DEF LeftOnlyByFaults
<1>2. CASE Left' \subseteq Left
  <2>1. Cardinality(Left') \in Nat /\ Cardinality(Left') <= n
    BY <1>1, <1>2, FS_Subset, FS_CardinalityType
  <2>2. QED
    BY <1>1, <2>1 DEF LeftOnlyByFaults
<1>3. ASSUME NEW u, Left' \subseteq Left \cup {u}, faults' = faults + 1 PROVE LeftOnlyByFaults'
  <2> DEFINE more == Left \cup {u}
  <2>1. IsFiniteSet(more) /\ Cardinality(more) \in {n, n + 1}
    BY <1>1, FS_AddElement
  <2>2. Cardinality(Left') \in Nat /\ Cardinality(Left') <= Cardinality(more)
    BY <1>3, <2>1, FS_Subset, FS_CardinalityType
  <2> HIDE DEF more, n
  <2>3. QED
    BY <1>1, <1>3, <2>1, <2>2 DEF LeftOnlyByFaults
<1>4. QED
  BY <1>2, <1>3

LEMMA OneWorkerLeaves ==
    ASSUME DeepInv, LeftFits, NEW p \in Workers, OthersStay(p), CleanupIsOver(p)',
           faults' \in {faults, faults + 1},
           \A u \in Units \ {Mine(p)} : unit'[u].active => unit[u].active,
           \/ faults' = faults + 1
           \/ /\ worker[p].pc \notin {"begin", "running", "stop"}
              /\ Mine(p) # 0 /\ unit'[Mine(p)].active => unit[Mine(p)].active
           \/ ~unit'[Mine(p)].active
           \/ worker'[p].unit = Mine(p) /\ worker'[p].pc \in {"begin", "running", "stop"}
    PROVE  LeftFits'
<1>0. /\ faults \in Nat
      /\ \A q \in Workers : q # p => worker'[q] = worker[q] /\ (Mine(q) # 0 => Mine(q) # Mine(p))
  BY BoundsAssumption DEF DeepInv, TypeOK, OthersStay, OwnUnits
<1>1. Left' \subseteq Left \cup {Mine(p)}
  <2>1. ASSUME NEW u \in Units, u # Mine(p), u \in Left' PROVE u \in Left
    <3>1. unit[u].active
      BY <2>1 DEF Left
    <3>2. ~Attended(u)
      BY <1>0, <2>1 DEF Left, Attended, Mine
    <3>3. QED
      BY <3>1, <3>2 DEF Left
  <2>2. QED
    BY <2>1 DEF Left
<1>2. ASSUME faults' # faults + 1 PROVE Left' \subseteq Left
  <2>1. ASSUME NEW u \in Units, u = Mine(p), u \in Left' PROVE u \in Left
    <3>1. u # 0 /\ unit'[u].active /\ ~Attended(u)'
      BY <2>1 DEF Left, Units
    <3>2. ~(worker'[p].unit = u /\ worker'[p].pc \in {"begin", "running", "stop"})
      BY <3>1 DEF Attended, Mine
    <3>3. worker[p].pc \notin {"begin", "running", "stop"} /\ unit[u].active
      BY <1>2, <2>1, <3>1, <3>2
    <3>4. ~Attended(u)
      BY <1>0, <2>1, <3>1, <3>3 DEF Attended
    <3>5. QED
      BY <3>3, <3>4 DEF Left
  <2>2. QED
    BY <1>1, <2>1 DEF Left
<1>3. LeftOnlyByFaults'
  <2>1. CASE faults' = faults + 1
    BY <1>0, <1>1, <2>1, LeftGrows DEF LeftFits
  <2>2. CASE faults' # faults + 1
    <3>1. Left' \subseteq Left
      BY <1>1, <1>2, <2>2
    <3>2. QED
      BY <1>0, <3>1, LeftGrows DEF LeftFits
  <2>3. QED
    BY <2>1, <2>2
<1>4. ASSUME NEW q \in Workers \ {p} PROVE CleanupIsOver(q)'
  <2>1. worker'[q] = worker[q] /\ CleanupIsOver(q) /\ (Mine(q) # Mine(p) \/ ~At(q, "cleanup"))
    BY <1>0 DEF LeftFits, DeepInv, WorkerFits, UnitFits, At
  <2>2. worker[q].pc = "cleanup" => Mine(q) \in Units
    BY MineIsAUnit
  <2>3. QED
    BY <1>0, <2>1, <2>2 DEF CleanupIsOver, At, Mine
<1>5. QED
  BY <1>3, <1>4 DEF LeftFits

(* The steps that start or end a watch, or leave a unit to itself.         *)
LEMMA WatchStep ==
    ASSUME DeepInv, LeftFits, NEW p \in Workers,
           Spawn(p) \/ BeginAttempt(p) \/ Complete(p) \/ Stop(p)
    PROVE  LeftFits'
<1>0. /\ worker \in [Workers -> Memory] /\ unit \in [Units -> Unit] /\ worker[p].end \in Ends
      /\ worker[p].pc \in {"spawn", "begin", "running", "stop"}
      /\ Mine(p) \in Units /\ unit[Mine(p)] \in Unit
  <2>1. worker[p].pc \in {"spawn", "begin", "running", "stop"}
    BY DEF Spawn, BeginAttempt, Complete, Stop, At
  <2>2. QED
    BY <2>1, MineIsAUnit DEF DeepInv, TypeOK, Memory
<1>1. faults' \in {faults, faults + 1} /\ \A u \in Units \ {Mine(p)} : unit'[u].active => unit[u].active
  BY <1>0 DEF Spawn, BeginAttempt, Complete, Stop, Faulty
<1>2. CASE Spawn(p)
  <2>1. CASE unit' = [unit EXCEPT ![Mine(p)].active = TRUE] /\ Goes(p, "begin")
    <3>1. OthersStay(p) /\ worker'[p].pc = "begin" /\ worker'[p].unit = Mine(p)
      BY <1>0, <2>1, Moves DEF Pc
    <3>2. QED
      BY <1>1, <3>1, OneWorkerLeaves DEF CleanupIsOver, At
  <2>2. CASE UNCHANGED unit /\ Cleans(p, "bounded")
    <3>1. OthersStay(p) /\ worker'[p].pc = "cleanup" /\ worker'[p].unit = Mine(p)
      BY <1>0, <2>2, Moves DEF Ends
    <3>2. ~unit'[Mine(p)].active
      BY <1>0, <1>2, <2>2 DEF Spawn, At, DeepInv, WorkerFits, UnitFits, Units
    <3>3. QED
      BY <1>1, <3>1, <3>2, OneWorkerLeaves DEF CleanupIsOver, Mine
  <2>3. QED
    BY <1>2, <2>1, <2>2 DEF Spawn
<1>3. CASE BeginAttempt(p) \/ Complete(p)
  <2>1. UNCHANGED unit
    BY <1>3 DEF BeginAttempt, Complete
  <2>2. CASE Goes(p, "running") \/ \E end \in Ends, clean \in BOOLEAN : Stops(p, end, clean)
    <3>1. /\ OthersStay(p) /\ worker'[p].unit = Mine(p)
          /\ worker'[p].pc \in {"running", "stop"}
      BY <1>0, <2>2, Moves DEF Pc
    <3>2. QED
      BY <1>1, <3>1, OneWorkerLeaves DEF CleanupIsOver, At
  <2>3. CASE ~unit[Mine(p)].active /\ \E end \in Ends : Cleans(p, end)
    <3>1. OthersStay(p) /\ worker'[p].unit = Mine(p) /\ ~unit'[Mine(p)].active
      BY <1>0, <2>1, <2>3, Moves
    <3>2. QED
      BY <1>1, <3>1, OneWorkerLeaves DEF CleanupIsOver, Mine
  <2>4. CASE Faulty /\ Fails(p, "never")
    <3>1. OthersStay(p) /\ worker'[p].pc = "fail" /\ faults' = faults + 1
      BY <1>0, <2>4, Moves DEF Ends, Faulty
    <3>2. QED
      BY <1>1, <3>1, OneWorkerLeaves DEF CleanupIsOver, At
  <2>5. QED
    BY <1>3, <2>2, <2>3, <2>4 DEF BeginAttempt, Refused, Complete, Ends
<1>4. CASE Stop(p)
  <2>1. CASE \E still \in VerifiedInactive(unit[Mine(p)].active) :
                unit' = [unit EXCEPT ![Mine(p)].active = @ /\ still]
    <3>1. unit' = [unit EXCEPT ![Mine(p)] = [unit[Mine(p)] EXCEPT !.active = FALSE]]
      <4>1. (unit[Mine(p)].active /\ FALSE) = FALSE
        OBVIOUS
      <4>2. unit' = [unit EXCEPT ![Mine(p)].active = unit[Mine(p)].active /\ FALSE]
        BY <2>1 DEF VerifiedInactive
      <4>3. QED
        BY <4>1, <4>2
    <3>2. ~unit'[Mine(p)].active
      BY <1>0, <3>1 DEF Unit
    <3>3. Forgets(p) \/ \E end \in Ends : Cleans(p, end) \/ Fails(p, end)
      BY <1>0, <1>4 DEF Stop, Ends
    <3>4. OthersStay(p) /\ (worker'[p].unit = Mine(p) \/ worker'[p].pc = "idle")
      BY <1>0, <3>3, Moves
    <3>5. QED
      BY <1>1, <3>2, <3>4, OneWorkerLeaves DEF CleanupIsOver, At, Mine
  <2>2. CASE Faulty /\ (Forgets(p) \/ Fails(p, "never"))
    <3>1. OthersStay(p) /\ worker'[p].pc # "cleanup" /\ faults' = faults + 1
      BY <1>0, <2>2, Moves DEF Ends, Faulty
    <3>2. QED
      BY <1>1, <3>1, OneWorkerLeaves DEF CleanupIsOver, At
  <2>3. QED
    BY <1>4, <2>1, <2>2 DEF Stop
<1>5. QED
  BY <1>2, <1>3, <1>4

(* The other steps of a worker start no unit and watch none.               *)
LEMMA UnwatchedStep ==
    ASSUME DeepInv, LeftFits, NEW p \in Workers,
           \/ ClaimRow(p) \/ Begin(p) \/ Preflight(p) \/ Release(p) \/ Check(p) \/ Prepare(p) \/ Register(p)
           \/ Cleanup(p) \/ Result(p) \/ Save(p) \/ Handoff(p) \/ Promote(p) \/ Fail(p)
    PROVE  LeftFits'
<1>0. /\ worker \in [Workers -> Memory] /\ unit \in [Units -> Unit] /\ worker[p].end \in Ends
      /\ worker[p].pc \notin {"begin", "running", "stop"} /\ faults' \in {faults, faults + 1}
  BY DEF DeepInv, TypeOK, Memory, ClaimRow, Begin, Preflight, Release, Check, Prepare, Register, Cleanup,
         Result, Save, Handoff, Promote, Fail, At, Faulty
<1>1. \A u \in Units : unit'[u].active = unit[u].active
  <2>1. ASSUME NEW v, NEW tree \in BOOLEAN, NEW known \in BOOLEAN,
               \/ unit' = [unit EXCEPT ![v].used = TRUE, ![v].tree = tree]
               \/ unit' = [unit EXCEPT ![v].tree = tree]
               \/ unit' = [unit EXCEPT ![v].registered = known]
               \/ unit' = [unit EXCEPT ![v].tree = tree, ![v].registered = known]
        PROVE  \A u \in Units : unit'[u].active = unit[u].active
    BY <1>0, <2>1 DEF Unit
  <2>2. CASE Prepare(p) \/ Register(p) \/ Cleanup(p)
    BY <2>1, <2>2 DEF Prepare, Register, RegisterFails, Cleanup
  <2>3. CASE UNCHANGED unit
    BY <2>3
  <2>4. QED
    BY <2>2, <2>3 DEF ClaimRow, Begin, Preflight, Release, Check, Result, Save, Handoff, Promote, Fail
<1>2. OthersStay(p) /\ worker'[p].pc # "cleanup"
  <2>1. CASE Prepare(p) /\ \E u \in Units : worker' = [worker EXCEPT ![p].pc = "register", ![p].unit = u]
    <3>1. PICK u \in Units :
             worker' = [worker EXCEPT ![p] = [worker[p] EXCEPT !.pc = "register", !.unit = u]]
      BY <2>1
    <3>2. QED
      BY <1>0, <3>1 DEF OthersStay, Memory, Pc
  <2>2. \/ \E pc \in Pc \ {"cleanup"} : Goes(p, pc)
        \/ \E end \in Ends : Fails(p, end)
        \/ Forgets(p)
        \/ Prepare(p) /\ \E u \in Units : worker' = [worker EXCEPT ![p].pc = "register", ![p].unit = u]
    BY <1>0 DEF ClaimRow, Begin, Preflight, Release, Check, Prepare, Register, RegisterFails, Cleanup,
                CleanupFails, Result, Save, Handoff, Promote, Fail, PacketFirst, Pc, Ends
  <2>3. QED
    BY <1>0, <2>1, <2>2, Moves
<1>3. Mine(p) \in Units \cup {0}
  BY <1>0 DEF Memory, Mine
<1>4. QED
  BY <1>0, <1>1, <1>2, <1>3, OneWorkerLeaves DEF CleanupIsOver, At

LEMMA LeftStep == DeepInv /\ LeftFits /\ [Next]_vars => LeftFits'
<1> SUFFICES ASSUME DeepInv, LeftFits, [Next]_vars PROVE LeftFits'
  OBVIOUS
<1>1. ASSUME NEW p \in Workers, ClaimRow(p) \/ WorkerStep(p) PROVE LeftFits'
  BY <1>1, WatchStep, UnwatchedStep DEF WorkerStep
<1>2. ASSUME NEW p \in Workers, Crash(p) PROVE LeftFits'
  <2>1. OthersStay(p) /\ worker'[p].pc = "idle" /\ UNCHANGED unit /\ faults' = faults + 1
    BY <1>2, Moves DEF Crash, Faulty, DeepInv, TypeOK
  <2>2. QED
    BY <2>1, OneWorkerLeaves DEF CleanupIsOver, At
<1>3. CASE UNCHANGED <<worker, faults>> /\ \A u \in Units : unit'[u].active => unit[u].active
  <2>1. faults \in Nat
    BY BoundsAssumption DEF DeepInv, TypeOK
  <2>2. Left' \subseteq Left
    BY <1>3 DEF Left, Attended, Mine
  <2>3. LeftOnlyByFaults'
    BY <1>3, <2>1, <2>2, LeftGrows DEF LeftFits
  <2>4. ASSUME NEW p \in Workers PROVE CleanupIsOver(p)'
    <3>1. worker[p].pc = "cleanup" => Mine(p) \in Units
      BY MineIsAUnit
    <3>2. QED
      BY <1>3, <3>1 DEF LeftFits, CleanupIsOver, At, Mine
  <2>5. QED
    BY <2>3, <2>4 DEF LeftFits
<1>4. ASSUME NEW u \in Units, UnitEnds(u) PROVE LeftFits'
  BY <1>3, <1>4 DEF UnitEnds, DeepInv, TypeOK
<1>5. CASE UNCHANGED <<unit, worker, faults>>
  BY <1>3, <1>5
<1>6. QED
  BY <1>1, <1>2, <1>4, <1>5 DEF Next, Beat, RecoverRow, SweepRow, Tick, GetsStale, vars

(* LeftOnlyByFaults for every instance: a lease that was lost leaves no    *)
(* unit without a worker that sees to its end.                             *)
THEOREM OnlyFaultsLeaveUnits == Spec => []LeftOnlyByFaults
<1>1. ASSUME Init PROVE LeftFits
  <2>1. Left = {} /\ faults = 0
    BY <1>1 DEF Init, Left, NoUnit
  <2>2. QED
    BY <1>1, <2>1, FS_EmptySet DEF LeftFits, LeftOnlyByFaults, Init, CleanupIsOver, At, Idle
<1>2. LeftFits => LeftOnlyByFaults
  BY DEF LeftFits
<1>3. QED
  BY <1>1, <1>2, LeftStep, DeepInvariant, PTL DEF Spec
-----------------------------------------------------------------------------
(* The row's moves.  The deep stage adds a handoff and a promotion to what *)
(* the store does on its own.                                              *)
RowMoves == row'.status # row.status => CanTransition(row.status, row'.status)

LEMMA RowMovesStep == DeepInv /\ [Next]_vars => RowMoves
<1> SUFFICES ASSUME DeepInv, [Next]_vars, row'.status # row.status
             PROVE  CanTransition(row.status, row'.status)
  BY DEF RowMoves
<1>0. row \in Row /\ RowFits /\ row' # row
  BY DEF DeepInv, TypeOK
<1>1. CASE \E p \in Workers : ClaimRow(p)
  <2>1. PICK p \in Workers : ClaimRow(p)
    BY <1>1
  <2>2. row.status \in PendingStatus /\ row'.status = LeasedStatusFor[row.status]
    BY <1>0, <2>1, ClaimedRow DEF ClaimRow, PendingStatus
  <2>3. QED
    BY <2>2, StageMoves
<1>2. CASE \E p \in Workers : Release(p)
  <2>1. row.status = "deep_leased" /\ row' = Moved(row, "deep_pending")
    BY <1>0, <1>2 DEF Release, Fence
  <2>2. row'.status = "deep_pending"
    BY <1>0, <2>1, StatusType, MovedRow DEF PendingStatus
  <2>3. QED
    BY <2>1, <2>2 DEF CanTransition, NormalTransitions
<1>3. CASE \E p \in Workers : Handoff(p)
  <2>1. row.status = "deep_leased" /\ row' = Moved(row, "research_ready")
    BY <1>0, <1>3 DEF Handoff, Fence
  <2>2. row'.status = "research_ready"
    BY <1>0, <2>1, StatusType, MovedRow
  <2>3. QED
    BY <2>1, <2>2 DEF CanTransition, NormalTransitions
<1>4. CASE \E p \in Workers : Promote(p)
  <2>1. row' = [row EXCEPT !.status = Promoted(row.status)]
    BY <1>0, <1>4 DEF Promote
  <2>2. row'.status = Promoted(row.status)
    BY <1>0, <2>1 DEF Row
  <2>3. row.status = "research_ready" /\ row'.status = "entity_pending"
    BY <2>2 DEF Promoted
  <2>4. QED
    BY <2>3 DEF CanTransition, NormalTransitions
<1>5. CASE \E p \in Workers : Fail(p)
  <2>1. PICK p \in Workers : Fail(p)
    BY <1>5
  <2>2. row.status \in LeasedStatus /\ row' \in FailureRows(row, worker[p].end)
    BY <1>0, <2>1 DEF Fail, Fence, LeasedStatus
  <2>3. row'.status \in {"retry_wait", "expired", "dead_letter"}
    BY <1>0, <2>2, FailureRow
  <2>4. QED
    BY <2>2, <2>3, StageMoves
<1>6. CASE RecoverRow
  <2>1. /\ row' = Recovered(row, FALSE)
        /\ LeaseExpired(row) \/ RetryDue(row)
        /\ row.status = "retry_wait" => row.target \in PendingStatus
    BY <1>0, <1>6 DEF RecoverRow, RowFits, PendingStatus
  <2>2. row'.status = IF Leased(row) THEN PendingStatusFor[row.status] ELSE row.target
    BY <1>0, <2>1, RecoveredRow
  <2>3. CASE row.status \in LeasedStatus
    BY <2>2, <2>3, StageMoves DEF Leased
  <2>4. CASE row.status \notin LeasedStatus
    <3>1. row.status = "retry_wait" /\ row'.status = row.target
      BY <2>1, <2>2, <2>4 DEF Leased, LeaseExpired, RetryDue
    <3>2. QED
      BY <2>1, <3>1, StageMoves
  <2>5. QED
    BY <2>3, <2>4
<1>7. CASE row' \in {Beaten(row), Begun(row), [Aged(row) EXCEPT !.fresh = row.fresh],
                     [row EXCEPT !.fresh = row.fresh - 1]}
  <2>1. row'.status = row.status
    BY <1>0, <1>7, BeatenRow, BegunRow, AgedRow DEF Row
  <2>2. QED
    BY <2>1
<1>8. CASE SweepRow
  BY <1>0, <1>8, SweptMoves DEF SweepRow, LeaseExpired, Leased
<1>9. QED
  BY <1>0, <1>1, <1>2, <1>3, <1>4, <1>5, <1>6, <1>7, <1>8
     DEF Next, WorkerStep, Begin, Preflight, Check, Prepare, Register, Spawn, BeginAttempt, Complete,
         Stop, Cleanup, Result, Save, Beat, Crash, UnitEnds, Tick, GetsStale, vars

(* FollowsTransitionTable for every instance: whatever fails, expires, is  *)
(* recovered or swept, the deep stage never leaves the table.              *)
THEOREM DeepFollowsTable == Spec => FollowsTransitionTable
<1>1. DeepInv /\ [Next]_vars =>
        [row'.status # row.status => CanTransition(row.status, row'.status)]_vars
  BY RowMovesStep DEF RowMoves
<1>2. QED
  BY <1>1, DeepInvariant, PTL DEF Spec, FollowsTransitionTable
-----------------------------------------------------------------------------
(* The unit of the packet.  A worker has a result once its unit is over    *)
(* and cleaned up, and saves a packet as the last thing it does with it:   *)
(* from then on nobody is left who could touch that unit.                  *)
Over(u) == unit[u] = [NoUnit EXCEPT !.used = TRUE]

KnowsItIsOver(p) ==
    /\ worker[p].pc \in {"result", "save"} => Over(Mine(p))
    /\ packet # 0 /\ Mine(p) = packet => worker[p].pc \in {"handoff", "promote"}

PacketFits == PacketOutlivesItsUnit /\ \A p \in Workers : KnowsItIsOver(p)

(* What a step of p does to units that were given out: nothing but to its  *)
(* own.                                                                    *)
OwnOnly(p) == \A u \in Units : unit[u].used /\ u # Mine(p) => unit'[u] = unit[u]

LEMMA PacketUnit ==
    ASSUME DeepInv, PacketFits, packet # 0
    PROVE  packet \in Units /\ Over(packet) /\ unit[packet].used /\ ~unit[packet].active
<1>1. packet \in Units /\ Over(packet)
  BY DEF DeepInv, TypeOK, PacketFits, PacketOutlivesItsUnit, Over
<1>2. QED
  BY <1>1 DEF Over, NoUnit

(* A step that leaves the packet and its unit alone.                       *)
LEMMA PacketStays ==
    ASSUME DeepInv, PacketFits, NEW p \in Workers, UNCHANGED packet,
           OthersStay(p), OwnOnly(p),
           packet # 0 /\ Mine(p) = packet => UNCHANGED unit,
           KnowsItIsOver(p)'
    PROVE  PacketFits'
<1>1. PacketOutlivesItsUnit'
  <2>1. ASSUME packet # 0 PROVE unit'[packet] = unit[packet]
    BY <2>1, PacketUnit DEF OwnOnly
  <2>2. QED
    BY <2>1 DEF PacketFits, PacketOutlivesItsUnit
<1>2. ASSUME NEW q \in Workers \ {p} PROVE KnowsItIsOver(q)'
  <2>1. worker'[q] = worker[q] /\ WorkerFits(q) /\ KnowsItIsOver(q) /\ Mine(q) \in Units \cup {0}
    BY DEF DeepInv, PacketFits, OthersStay, TypeOK, Memory, Mine
  <2>2. Mine(q) # 0 => unit'[Mine(q)] = unit[Mine(q)]
    <3>1. Mine(q) # 0 => (Mine(q) # Mine(p) /\ unit[Mine(q)].used)
      BY <2>1 DEF DeepInv, OwnUnits, WorkerFits, UnitFits
    <3>2. QED
      BY <2>1, <3>1 DEF OwnOnly
  <2>3. worker[q].pc \in {"result", "save"} => Mine(q) # 0
    BY <2>1 DEF WorkerFits, UnitFits
  <2>4. QED
    BY <2>1, <2>2, <2>3 DEF KnowsItIsOver, Over, Mine
<1>3. QED
  BY <1>1, <1>2 DEF PacketFits

(* A step of p that leaves the units alone: it has no result it had not    *)
(* before, and keeps the packet's unit only from handoff to promotion.     *)
LEMMA QuietForPacket ==
    ASSUME DeepInv, PacketFits, NEW p \in Workers,
           \/ ClaimRow(p) \/ Begin(p) \/ Preflight(p) \/ Release(p) \/ Check(p) \/ BeginAttempt(p)
           \/ Complete(p) \/ Result(p) \/ (Save(p) /\ UNCHANGED packet) \/ Handoff(p) \/ Promote(p)
           \/ Fail(p) \/ Crash(p)
    PROVE  PacketFits'
<1>0. worker \in [Workers -> Memory] /\ UNCHANGED <<packet, unit>> /\ KnowsItIsOver(p)
  BY DEF DeepInv, TypeOK, PacketFits, ClaimRow, Begin, Preflight, Release, Check, BeginAttempt, Complete,
         Result, Save, Handoff, Promote, Fail, Crash
<1>1. \/ Forgets(p)
      \/ Goes(p, "save") /\ At(p, "result")
      \/ Goes(p, "promote")
      \/ /\ worker[p].pc \notin {"handoff", "promote"}
         /\ \/ \E pc \in Pc \ {"result", "save"} : Goes(p, pc)
            \/ \E end \in Ends : Fails(p, end) \/ Cleans(p, end)
            \/ \E end \in Ends, clean \in BOOLEAN : Stops(p, end, clean)
  BY DEF ClaimRow, Begin, Preflight, Release, Check, BeginAttempt, Refused, Complete, Result, Save, Handoff,
         Promote, Fail, Crash, At, Pc, Ends, PacketFirst
<1>2. /\ OthersStay(p)
      /\ \/ worker'[p].pc = "idle" /\ worker'[p].unit = 0
         \/ worker'[p].pc = "save" /\ worker'[p].unit = Mine(p) /\ worker[p].pc = "result"
         \/ worker'[p].pc = "promote" /\ worker'[p].unit = Mine(p)
         \/ /\ worker[p].pc \notin {"handoff", "promote"} /\ worker'[p].unit = Mine(p)
            /\ worker'[p].pc \notin {"result", "save"}
  <2>1. CASE Forgets(p)
    BY <1>0, <2>1, Moves
  <2>2. CASE (Goes(p, "save") /\ At(p, "result")) \/ Goes(p, "promote")
    BY <1>0, <2>2, Moves DEF Pc, At
  <2>3. CASE \E pc \in Pc \ {"result", "save"} : Goes(p, pc) /\ worker[p].pc \notin {"handoff", "promote"}
    BY <1>0, <2>3, Moves
  <2>4. CASE /\ worker[p].pc \notin {"handoff", "promote"}
             /\ \/ \E end \in Ends : Fails(p, end) \/ Cleans(p, end)
                \/ \E end \in Ends, clean \in BOOLEAN : Stops(p, end, clean)
    BY <1>0, <2>4, Moves
  <2>5. QED
    BY <1>1, <2>1, <2>2, <2>3, <2>4
<1>3. KnowsItIsOver(p)'
  <2>1. packet # 0 => packet \in Units
    BY PacketUnit
  <2>2. QED
    BY <1>0, <1>2, <2>1 DEF KnowsItIsOver, Over, Mine, Units
<1>4. QED
  BY <1>0, <1>2, <1>3, PacketStays DEF OwnOnly

(* A step of p on a unit of its own, which is not the packet's: the unit   *)
(* is new, or the worker has not had its result.                           *)
LEMMA TouchesNoPacket ==
    ASSUME DeepInv, PacketFits, NEW p \in Workers, UNCHANGED packet, OthersStay(p), OwnOnly(p),
           worker[p].pc \notin {"handoff", "promote"},
           \/ worker'[p].unit = Mine(p)
           \/ worker'[p].unit = 0
           \/ worker'[p].unit \in Units /\ ~unit[worker'[p].unit].used,
           worker'[p].pc # "save",
           worker'[p].pc = "result" => Over(Mine(p))' /\ worker'[p].unit = Mine(p)
    PROVE  PacketFits'
<1>1. packet # 0 => (packet \in Units /\ unit[packet].used /\ Mine(p) # packet)
  BY PacketUnit DEF PacketFits, KnowsItIsOver
<1>2. KnowsItIsOver(p)'
  <2>1. packet # 0 => worker'[p].unit # packet
    BY <1>1 DEF Units
  <2>2. QED
    BY <2>1 DEF KnowsItIsOver, Over, Mine
<1>3. QED
  BY <1>1, <1>2, PacketStays

(* The executor's steps on the unit.                                       *)
LEMMA ExecutorStep ==
    ASSUME DeepInv, PacketFits, NEW p \in Workers,
           Prepare(p) \/ Register(p) \/ Spawn(p) \/ Stop(p) \/ Cleanup(p)
    PROVE  PacketFits'
<1>0. /\ worker \in [Workers -> Memory] /\ unit \in [Units -> Unit] /\ UnitFits(p)
      /\ UNCHANGED packet /\ worker[p].pc \in {"prepare", "register", "spawn", "stop", "cleanup"}
      /\ worker[p].end \in Ends
  BY DEF DeepInv, TypeOK, WorkerFits, Prepare, Register, Spawn, Stop, Cleanup, At, Memory
<1>1. CASE Prepare(p)
  <2>1. PICK u \in Units :
           /\ ~unit[u].used /\ \A v \in Units \ {u} : unit'[v] = unit[v]
           /\ \/ worker' = [worker EXCEPT ![p].pc = "register", ![p].unit = u]
              \/ \E end \in Ends : Fails(p, end)
    BY <1>0, <1>1 DEF Prepare, Ends
  <2>2. OwnOnly(p)
    BY <2>1 DEF OwnOnly
  <2>3. CASE worker' = [worker EXCEPT ![p].pc = "register", ![p].unit = u]
    <3>1. OthersStay(p) /\ worker'[p].pc = "register" /\ worker'[p].unit = u
      BY <1>0, <2>3 DEF OthersStay, Memory, Pc
    <3>2. QED
      BY <1>0, <2>1, <2>2, <3>1, TouchesNoPacket
  <2>4. CASE \E end \in Ends : Fails(p, end)
    <3>1. OthersStay(p) /\ worker'[p].pc = "fail" /\ worker'[p].unit = Mine(p)
      BY <1>0, <2>4, Moves
    <3>2. QED
      BY <1>0, <2>2, <3>1, TouchesNoPacket
  <2>5. QED
    BY <2>1, <2>3, <2>4
<1>2. CASE Register(p) \/ Spawn(p) \/ Stop(p)
  <2>1. \/ Goes(p, "spawn") \/ Goes(p, "begin") \/ Forgets(p)
        \/ \E end \in Ends : Fails(p, end) \/ Cleans(p, end)
    BY <1>0, <1>2 DEF Register, RegisterFails, Spawn, Stop, Ends
  <2>2. /\ OthersStay(p) /\ worker'[p].pc \notin {"result", "save"}
        /\ worker'[p].unit = Mine(p) \/ worker'[p].unit = 0
    BY <1>0, <2>1, Moves DEF Pc
  <2>3. OwnOnly(p)
    BY <1>0, <1>2 DEF OwnOnly, Register, RegisterFails, Spawn, Stop
  <2>4. QED
    BY <1>0, <2>2, <2>3, TouchesNoPacket
<1>3. CASE Cleanup(p)
  <2>1. OwnOnly(p)
    BY <1>0, <1>3 DEF OwnOnly, Cleanup
  <2>2. CASE Goes(p, "result")
    <3>1. /\ ~unit[Mine(p)].active
          /\ unit' = [unit EXCEPT ![Mine(p)].tree = FALSE, ![Mine(p)].registered = FALSE]
      BY <1>0, <1>3, <2>2, Moves DEF Cleanup, CleanupFails, Pc, Ends
    <3>2. OthersStay(p) /\ worker'[p].pc = "result" /\ worker'[p].unit = Mine(p)
      BY <1>0, <2>2, Moves DEF Pc
    <3>3. Mine(p) \in Units /\ unit[Mine(p)] \in Unit /\ unit[Mine(p)].used
      BY <1>0, <1>3, MineIsAUnit DEF UnitFits, Cleanup, At, Units
    <3> DEFINE new == [unit[Mine(p)] EXCEPT !.tree = FALSE, !.registered = FALSE]
    <3>4. new = [NoUnit EXCEPT !.used = TRUE]
      <4>1. new \in Unit /\ new.used /\ ~new.tree /\ ~new.registered /\ ~new.active
        BY <3>1, <3>3 DEF Unit
      <4>2. ASSUME NEW v \in Unit, v.used, ~v.tree, ~v.registered, ~v.active
            PROVE  v = [used |-> TRUE, tree |-> FALSE, registered |-> FALSE, active |-> FALSE]
        BY <4>2 DEF Unit
      <4> DEFINE blank == [NoUnit EXCEPT !.used = TRUE]
      <4>3. blank \in Unit /\ blank.used /\ ~blank.tree /\ ~blank.registered /\ ~blank.active
        BY DEF NoUnit, Unit
      <4> HIDE DEF new, blank
      <4>4. new = blank
        BY <4>1, <4>2, <4>3
      <4>5. QED
        BY <4>4 DEF blank
    <3>5. unit' = [unit EXCEPT ![Mine(p)] = new]
      BY <3>1
    <3> HIDE DEF new
    <3>6. Over(Mine(p))'
      BY <1>0, <3>2, <3>3, <3>4, <3>5 DEF Over, Mine
    <3>7. QED
      BY <1>0, <2>1, <3>2, <3>6, TouchesNoPacket
  <2>3. CASE \E end \in Ends : Fails(p, end)
    <3>1. OthersStay(p) /\ worker'[p].pc = "fail" /\ worker'[p].unit = Mine(p)
      BY <1>0, <2>3, Moves
    <3>2. QED
      BY <1>0, <2>1, <3>1, TouchesNoPacket
  <2>4. QED
    BY <1>0, <1>3, <2>2, <2>3 DEF Cleanup, CleanupFails, Ends
<1>4. QED
  BY <1>1, <1>2, <1>3

LEMMA SavingStep ==
    ASSUME DeepInv, PacketFits, NEW p \in Workers, Save(p), packet' # packet PROVE PacketFits'
<1>1. /\ packet = 0 /\ packet' = Mine(p) /\ UNCHANGED unit /\ worker[p].pc = "save"
      /\ Goes(p, "handoff")
  BY DEF Save, At
<1>2. /\ OthersStay(p) /\ worker'[p].pc = "handoff" /\ worker'[p].unit = Mine(p)
  BY <1>1, Moves DEF DeepInv, TypeOK, Pc
<1>3. Over(packet') /\ Mine(p) # 0
  BY <1>1 DEF PacketFits, KnowsItIsOver, DeepInv, WorkerFits, UnitFits
<1>4. PacketOutlivesItsUnit'
  BY <1>1, <1>3 DEF PacketOutlivesItsUnit, Over
<1>5. ASSUME NEW q \in Workers \ {p} PROVE KnowsItIsOver(q)'
  <2>1. worker'[q] = worker[q] /\ KnowsItIsOver(q) /\ Mine(q) # Mine(p)
    BY <1>2, <1>3 DEF PacketFits, OthersStay, DeepInv, OwnUnits
  <2>2. QED
    BY <1>1, <2>1 DEF KnowsItIsOver, Over, Mine
<1>6. KnowsItIsOver(p)'
  BY <1>2 DEF KnowsItIsOver
<1>7. QED
  BY <1>4, <1>5, <1>6 DEF PacketFits

LEMMA PacketFitsStep == DeepInv /\ PacketFits /\ [Next]_vars => PacketFits'
<1> SUFFICES ASSUME DeepInv, PacketFits, [Next]_vars PROVE PacketFits'
  OBVIOUS
<1>1. ASSUME UNCHANGED <<packet, worker>>,
             \A u \in Units : Over(u) => unit'[u] = unit[u]
      PROVE  PacketFits'
  <2>1. PacketOutlivesItsUnit'
    <3>1. packet # 0 => unit'[packet] = unit[packet]
      BY <1>1, PacketUnit
    <3>2. QED
      BY <1>1, <3>1 DEF PacketFits, PacketOutlivesItsUnit
  <2>2. ASSUME NEW p \in Workers PROVE KnowsItIsOver(p)'
    <3>1. worker[p].pc \in {"result", "save"} => Mine(p) \in Units
      BY DEF DeepInv, TypeOK, Memory, WorkerFits, UnitFits, Mine
    <3>2. QED
      BY <1>1, <3>1 DEF PacketFits, KnowsItIsOver, Over, Mine
  <2>3. QED
    BY <2>1, <2>2 DEF PacketFits
<1>2. ASSUME NEW p \in Workers, ClaimRow(p) \/ WorkerStep(p) \/ Crash(p) PROVE PacketFits'
  BY <1>2, QuietForPacket, ExecutorStep, SavingStep DEF WorkerStep
<1>3. ASSUME NEW u \in Units, UnitEnds(u) PROVE PacketFits'
  <2>1. UNCHANGED <<packet, worker>> /\ unit[u].active /\ \A v \in Units \ {u} : unit'[v] = unit[v]
    BY <1>3 DEF UnitEnds, DeepInv, TypeOK
  <2>2. ~Over(u)
    BY <2>1 DEF Over, NoUnit
  <2>3. QED
    BY <1>1, <2>1, <2>2
<1>4. CASE UNCHANGED <<packet, unit, worker>>
  BY <1>1, <1>4
<1>5. QED
  BY <1>2, <1>3, <1>4 DEF Next, Beat, RecoverRow, SweepRow, Tick, GetsStale, vars

(* PacketOutlivesItsUnit for every instance.                               *)
THEOREM PacketOfEndedUnit == Spec => []PacketOutlivesItsUnit
<1>1. Init => PacketFits
  BY DEF Init, PacketFits, PacketOutlivesItsUnit, KnowsItIsOver, Idle
<1>2. PacketFits => PacketOutlivesItsUnit
  BY DEF PacketFits
<1>3. QED
  BY <1>1, <1>2, PacketFitsStep, DeepInvariant, PTL DEF Spec
-----------------------------------------------------------------------------
(* The work between the two calls of a handoff, with nobody left to make   *)
(* the second.                                                             *)
Stranded == row.status = "research_ready" /\ \A p \in Workers : ~At(p, "promote")

(* Only a handoff leads to a promotion, and it needs a leased row; no      *)
(* claim, no heartbeat and no recovery looks at a row in this status.      *)
LEMMA StrandedStep == DeepInv /\ Stranded /\ [Next]_vars => Stranded'
<1> SUFFICES ASSUME DeepInv, Stranded, [Next]_vars PROVE Stranded'
  OBVIOUS
<1>0. /\ row \in Row /\ row.status = "research_ready" /\ worker \in [Workers -> Memory]
      /\ \A p \in Workers : worker[p].pc # "promote"
  BY DEF DeepInv, TypeOK, Stranded, At
<1>1. \A p \in Workers : ~ClaimRow(p) /\ ~Promote(p) /\ ~MayBeat(row, p) /\ ~Fence(row, p, "deep_leased")
  BY <1>0 DEF ClaimRow, Promote, At, MayBeat, Leased, LeasedStatus, Fence
<1>2. ~RecoverRow /\ ~SweepRow
  BY <1>0 DEF RecoverRow, SweepRow, LeaseExpired, RetryDue, Leased, LeasedStatus
<1>3. row' \in {row, [Aged(row) EXCEPT !.fresh = row.fresh], [row EXCEPT !.fresh = row.fresh - 1]}
  BY <1>1, <1>2
     DEF Next, WorkerStep, Begin, Preflight, Release, Check, Prepare, Register, Spawn, BeginAttempt, Complete,
         Stop, Cleanup, Result, Save, Handoff, Fail, Beat, Crash, UnitEnds, Tick, GetsStale, MayBegin, vars
<1>4. row'.status = "research_ready"
  BY <1>0, <1>3, AgedRow DEF Row
<1>5. ASSUME NEW p \in Workers PROVE worker'[p].pc # "promote"
  <2>1. CASE worker' = worker
    BY <1>0, <2>1
  <2>2. ASSUME NEW q \in Workers, WorkerStep(q) \/ Crash(q) PROVE worker'[p].pc # "promote"
    <3>1. worker'[q].pc # "promote" /\ \A r \in Workers \ {q} : worker'[r] = worker[r]
      <4>1. CASE Prepare(q) /\ \E u \in Units : worker' = [worker EXCEPT ![q].pc = "register", ![q].unit = u]
        <5>1. PICK u \in Units :
                 worker' = [worker EXCEPT ![q] = [worker[q] EXCEPT !.pc = "register", !.unit = u]]
          BY <4>1
        <5>2. QED
          BY <1>0, <5>1 DEF Memory
      <4>2. \/ \E pc \in Pc \ {"promote"} : Goes(q, pc)
            \/ \E end \in Ends : Fails(q, end) \/ Cleans(q, end) \/ \E clean \in BOOLEAN : Stops(q, end, clean)
            \/ Forgets(q)
            \/ Prepare(q) /\ \E u \in Units : worker' = [worker EXCEPT ![q].pc = "register", ![q].unit = u]
        BY <1>0, <1>1, <2>2
           DEF WorkerStep, Begin, Preflight, Release, Check, Prepare, Register, RegisterFails, Spawn, BeginAttempt,
               Refused, Complete, Stop, Cleanup, CleanupFails, Result, Save, Handoff, Fail, Crash, Pc, Ends,
               Memory, PacketFirst
      <4>3. QED
        BY <1>0, <4>1, <4>2, Moves DEF OthersStay
    <3>2. QED
      BY <1>0, <3>1
  <2>3. QED
    BY <1>1, <2>1, <2>2 DEF Next, Beat, UnitEnds, RecoverRow, SweepRow, Tick, GetsStale, vars
<1>6. QED
  BY <1>4, <1>5 DEF Stranded, At

(* The other side of CrashStrandsNothing: in every instance, a work whose  *)
(* promotion failed, or whose worker died before it, stays research_ready  *)
(* for ever, whatever workers, recovery and time do.                       *)
THEOREM StrandedForGood == Spec => [](Stranded => []Stranded)
<1>1. DeepInv /\ Stranded /\ [Next]_vars => Stranded'
  BY StrandedStep
<1>2. QED
  BY <1>1, DeepInvariant, PTL DEF Spec
=============================================================================
