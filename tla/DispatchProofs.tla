--------------------------- MODULE DispatchProofs ---------------------------
(***************************************************************************)
(* Proofs about Dispatch, for any submission IDs, any number of executor   *)
(* goroutines, and any capacity of the queue, the pool and the parking     *)
(* set.                                                                    *)
(***************************************************************************)
EXTENDS Dispatch, FiniteSetTheorems, SequenceTheorems, WellFoundedInduction, TLAPS

\* An executor goroutine that exists, one that has a slot, and one that has a
\* parking place.
Working == Executors(ExecAt \ {"none"})
Slotted == Executors({"running", "ending"})
Parking == {g \in Executors(ExecAt \ {"none", "unmarking"}) : exec[g].wasParked}

\* The loop has an ID in its hand: marked, and not yet given to an executor.
InHand == loop.at \in {"marked", "full"}

-----------------------------------------------------------------------------
(* The inductive invariant.                                                *)

Shape ==
    /\ exec = [g \in Goroutine |-> exec[g]]
    /\ \A g \in Goroutine : exec[g] = [at |-> exec[g].at, id |-> exec[g].id,
                                       wasParked |-> exec[g].wasParked]
    /\ \A g \in Goroutine : exec[g].at \in ExecAt /\ exec[g].wasParked \in BOOLEAN
    /\ loop = [at |-> loop.at, id |-> loop.id]
    /\ sweep = [s \in Sweeper |-> sweep[s]]
    /\ \A s \in Sweeper : sweep[s] = [at |-> sweep[s].at, ids |-> sweep[s].ids]

Finite == IsFiniteSet(Working) /\ IsFiniteSet(inFlight)

\* Whoever waits for a slot, or is to give a parking place back, has one.
WaitsParked ==
    \A g \in Goroutine : exec[g].at \in {"waiting", "unparking"} => exec[g].wasParked

\* A mark has one owner, until it is taken off.
OneOwner ==
    /\ \A g, h \in Working : exec[g].id = exec[h].id => g = h
    /\ InHand => \A g \in Working : exec[g].id # loop.id

\* The ticker's sweep is a part of the loop.
SweepInLoop == sweep["ticker"].at = "offering" => loop.at = "sweeping"

IInv ==
    /\ Shape /\ Finite /\ WaitsParked /\ OneOwner /\ SweepInLoop
    /\ AllAccountedFor /\ StopJoinsAll

-----------------------------------------------------------------------------
(* One goroutine changes.                                                  *)

LEMMA OneChange ==
    ASSUME Shape, NEW g \in Goroutine, NEW at \in ExecAt, NEW id, NEW p \in BOOLEAN,
           exec' = [exec EXCEPT ![g] = [at |-> at, id |-> id, wasParked |-> p]]
    PROVE  /\ exec' = [h \in Goroutine |-> exec'[h]]
           /\ \A h \in Goroutine : exec'[h] = [at |-> exec'[h].at, id |-> exec'[h].id,
                                               wasParked |-> exec'[h].wasParked]
           /\ \A h \in Goroutine : exec'[h].at \in ExecAt /\ exec'[h].wasParked \in BOOLEAN
           /\ exec'[g].at = at /\ exec'[g].id = id /\ exec'[g].wasParked = p
           /\ \A h \in Goroutine : h # g => exec'[h] = exec[h]
           /\ Working' = IF at # "none" THEN Working \union {g} ELSE Working \ {g}
           /\ Slotted' = IF at \in {"running", "ending"}
                         THEN Slotted \union {g} ELSE Slotted \ {g}
           /\ Parking' = IF at \notin {"none", "unmarking"} /\ p
                         THEN Parking \union {g} ELSE Parking \ {g}
  <1>0. DOMAIN exec = Goroutine
    BY DEF Shape
  <1>1. /\ exec'[g] = [at |-> at, id |-> id, wasParked |-> p]
        /\ \A h \in Goroutine : h # g => exec'[h] = exec[h]
        /\ exec' = [h \in Goroutine |-> exec'[h]]
    BY <1>0
  <1>2. exec'[g].at = at /\ exec'[g].id = id /\ exec'[g].wasParked = p
    BY <1>1
  <1>3. /\ \A h \in Goroutine :
              exec'[h] = [at |-> exec'[h].at, id |-> exec'[h].id,
                          wasParked |-> exec'[h].wasParked]
        /\ \A h \in Goroutine : exec'[h].at \in ExecAt /\ exec'[h].wasParked \in BOOLEAN
    BY <1>1, <1>2 DEF Shape
  <1>4. /\ Working' = IF at # "none" THEN Working \union {g} ELSE Working \ {g}
        /\ Slotted' = IF at \in {"running", "ending"}
                      THEN Slotted \union {g} ELSE Slotted \ {g}
    BY <1>1, <1>2 DEF Executors, Working, Slotted
  <1>5. Parking' = IF at \notin {"none", "unmarking"} /\ p
                   THEN Parking \union {g} ELSE Parking \ {g}
    BY <1>1, <1>2 DEF Executors, Parking
  <1>6. QED
    BY <1>1, <1>2, <1>3, <1>4, <1>5

\* A goroutine goes on with the same ID.
LEMMA MoveChange ==
    ASSUME IInv, NEW g \in Working, NEW where \in ExecAt \ {"none"}, GoTo(g, where)
    PROVE  /\ exec' = [exec EXCEPT ![g] = [at |-> where, id |-> exec[g].id,
                                           wasParked |-> exec[g].wasParked]]
           /\ Working' = Working
           /\ {exec'[h].id : h \in Working'} = {exec[h].id : h \in Working}
           /\ \A h \in Working : exec'[h].id = exec[h].id
  <1>0. Shape /\ g \in Goroutine /\ where \in ExecAt /\ exec[g].wasParked \in BOOLEAN
    BY DEF IInv, Working, Executors, Shape
  <1>1. exec' = [exec EXCEPT ![g] = [at |-> where, id |-> exec[g].id,
                                     wasParked |-> exec[g].wasParked]]
    <2>1. PICK a, i, p : exec[g] = [at |-> a, id |-> i, wasParked |-> p]
      BY <1>0 DEF Shape
    <2>2. [exec[g] EXCEPT !.at = where] =
             [at |-> where, id |-> exec[g].id, wasParked |-> exec[g].wasParked]
      BY <2>1
    <2>3. QED
      BY <2>2 DEF GoTo
  <1>2. Working' = Working
    <2>1. where \in ExecAt \ {"none"} /\ g \in Working
      OBVIOUS
    <2>2. Working' = Working \union {g}
      BY ZenonT(40), <1>0, <1>1, <2>1, OneChange
    <2>3. QED
      BY <2>1, <2>2
  <1>3. \A h \in Working : exec'[h].id = exec[h].id
    BY <1>0, <1>1, OneChange DEF Working, Executors
  <1>4. QED
    BY <1>1, <1>2, <1>3

\* A new executor goroutine takes over the ID in the loop's hand.
LEMMA SpawnChange ==
    ASSUME IInv, InHand, NEW at \in {"running", "waiting"}, NEW p \in BOOLEAN, Spawn(at, p)
    PROVE  \E g \in Goroutine \ Working :
              /\ exec' = [exec EXCEPT ![g] = [at |-> at, id |-> loop.id, wasParked |-> p]]
              /\ Working' = Working \union {g}
              /\ {exec'[h].id : h \in Working'} = {exec[h].id : h \in Working} \union {loop.id}
              /\ exec'[g].id = loop.id
              /\ \A h \in Working : exec'[h] = exec[h]
  <1> DEFINE g == CHOOSE h \in {h \in Goroutine : exec[h].at = "none"} : TRUE
  <1>0. Shape /\ at \in ExecAt
    BY DEF IInv, ExecAt
  <1>1. /\ exec' = [exec EXCEPT ![g] = [at |-> at, id |-> loop.id, wasParked |-> p]]
        /\ g \in Goroutine /\ exec[g].at = "none"
    BY DEF Spawn
  <1>2. g \notin Working
    BY <1>1 DEF Working, Executors
  <1>3. /\ Working' = Working \union {g}
        /\ exec'[g].id = loop.id
        /\ \A h \in Working : exec'[h] = exec[h]
    <2> HIDE DEF g
    <2>1. at \in ExecAt \ {"none"}
      BY DEF ExecAt
    <2>2. /\ Working' = Working \union {g}
          /\ exec'[g].id = loop.id
          /\ \A h \in Goroutine : h # g => exec'[h] = exec[h]
      BY ZenonT(40), <1>0, <1>1, <2>1, OneChange
    <2>3. QED
      BY <1>2, <2>2 DEF Working, Executors
  <1>4. {exec'[h].id : h \in Working'} = {exec[h].id : h \in Working} \union {loop.id}
    <2> HIDE DEF g
    <2> QED
      BY <1>2, <1>3
  <1>5. QED
    BY <1>1, <1>2, <1>3, <1>4

\* The holders of a slot or a parking place can be counted.
LEMMA Counted ==
    ASSUME IInv
    PROVE  /\ IsFiniteSet(Working) /\ IsFiniteSet(Slotted) /\ IsFiniteSet(Parking)
           /\ IsFiniteSet(inFlight)
           /\ Cardinality(Slotted) \in Nat /\ Cardinality(Parking) \in Nat
           /\ Cardinality(inFlight) \in Nat
  <1>1. Slotted \subseteq Working /\ Parking \subseteq Working
    BY DEF Slotted, Parking, Working, Executors, ExecAt
  <1>2. IsFiniteSet(Working) /\ IsFiniteSet(inFlight)
    BY DEF IInv, Finite
  <1>3. IsFiniteSet(Slotted) /\ IsFiniteSet(Parking)
    BY <1>1, <1>2, FS_Subset
  <1>4. QED
    BY <1>2, <1>3, FS_CardinalityType

\* What AllAccountedFor says, in these terms.
LEMMA Accounts ==
    AllAccountedFor <=>
        /\ slots = Cardinality(Slotted) /\ parked = Cardinality(Parking)
        /\ inFlight = {exec[g].id : g \in Working} \union (IF InHand THEN {loop.id} ELSE {})
        /\ wg = Cardinality(inFlight)
  BY DEF AllAccountedFor, Slotted, Parking, Working, InHand

-----------------------------------------------------------------------------
(* Every step keeps the invariant.                                         *)

\* The steps of submit handlers, of sweeps and of other processes, which leave
\* the executors, the pool and the marks alone.
LEMMA OutsideStep ==
    ASSUME IInv, UNCHANGED <<exec, pool, phase>>,
           \/ UNCHANGED <<loop, sweep>>
           \/ \E s \in Sweeper : BeginSweep(s) \/ SweepOne(s) \/ EndSweep(s)
    PROVE  IInv'
  <1>0. /\ Shape /\ Finite /\ WaitsParked /\ OneOwner /\ SweepInLoop /\ AllAccountedFor
        /\ StopJoinsAll
    BY DEF IInv
  <1>1. UNCHANGED <<exec, slots, parked, inFlight, wg, phase>>
    BY DEF pool
  <1>2. CASE UNCHANGED <<loop, sweep>>
    <2>1. Shape' /\ Finite' /\ WaitsParked'
      BY <1>0, <1>1, <1>2 DEF Shape, Finite, WaitsParked, Working, Executors
    <2>2. OneOwner' /\ SweepInLoop' /\ AllAccountedFor' /\ StopJoinsAll'
      BY <1>0, <1>1, <1>2
         DEF OneOwner, SweepInLoop, AllAccountedFor, StopJoinsAll, Working, Executors, InHand
    <2>3. QED
      BY <2>1, <2>2 DEF IInv
  <1>3. ASSUME NEW s \in Sweeper, BeginSweep(s) \/ SweepOne(s) \/ EndSweep(s)
        PROVE  IInv'
    <2>a. PICK a, ids : sweep[s] = [at |-> a, ids |-> ids]
      BY <1>0 DEF Shape
    <2>b. PICK b, i : loop = [at |-> b, id |-> i]
      BY <1>0 DEF Shape
    <2>c. \E c, js : sweep' = [sweep EXCEPT ![s] = [at |-> c, ids |-> js]]
      BY <1>3, <2>a DEF BeginSweep, SweepOne, EndSweep
    <2>1. /\ sweep' = [r \in Sweeper |-> sweep'[r]]
          /\ \A r \in Sweeper : sweep'[r] = [at |-> sweep'[r].at, ids |-> sweep'[r].ids]
          /\ loop' = [at |-> loop'.at, id |-> loop'.id]
      <3>1. loop' = [at |-> loop'.at, id |-> loop'.id]
        BY <1>3, <2>b DEF BeginSweep, SweepOne, EndSweep, AtSelect
      <3>2. QED
        BY <1>0, <2>c, <3>1 DEF Shape
    <2>2. SweepInLoop'
      BY <1>0, <1>3
         DEF Shape, SweepInLoop, BeginSweep, SweepOne, EndSweep, Sweeper, AtSelect
    <2>3. \/ loop' = loop
          \/ loop.at \in {"select", "sweeping"} /\ loop'.at \in {"select", "sweeping"}
      BY <1>0, <1>3
         DEF Shape, SweepInLoop, BeginSweep, SweepOne, EndSweep, Sweeper, AtSelect
    <2>4. Shape' /\ Finite' /\ WaitsParked'
      BY <1>0, <1>1, <2>1 DEF Shape, Finite, WaitsParked, Working, Executors
    <2>5. OneOwner' /\ AllAccountedFor' /\ StopJoinsAll'
      BY <1>0, <1>1, <2>3
         DEF OneOwner, AllAccountedFor, StopJoinsAll, Working, Executors, InHand
    <2>6. QED
      BY <2>2, <2>4, <2>5 DEF IInv
  <1>4. QED
    BY <1>2, <1>3

\* The loop takes an ID and marks it.
LEMMA TakeStep == ASSUME IInv, Take PROVE IInv'
  <1>0. /\ Shape /\ Finite /\ WaitsParked /\ OneOwner /\ SweepInLoop /\ AllAccountedFor
        /\ StopJoinsAll
    BY DEF IInv
  <1>1. CASE Duplicate(Head(queue))
    <2>1. UNCHANGED <<exec, pool, phase, loop, sweep>>
      BY <1>1 DEF Take, pool, marks
    <2>2. QED
      BY <2>1, OutsideStep
  <1>2. CASE ~ Duplicate(Head(queue))
    <2> DEFINE id == Head(queue)
    <2>1. /\ id \notin inFlight /\ inFlight' = inFlight \union {id} /\ wg' = wg + 1
          /\ loop' = [at |-> "marked", id |-> id] /\ loop.at = "select"
          /\ UNCHANGED <<exec, slots, parked, sweep, phase>>
      BY <1>2 DEF Take, Duplicate
    <2> HIDE DEF id
    <2>2. inFlight = {exec[g].id : g \in Working} /\ wg = Cardinality(inFlight)
      BY <1>0, <2>1, Accounts DEF InHand
    <2>3. IsFiniteSet(inFlight') /\ wg' = Cardinality(inFlight')
      BY <2>1, <2>2, Counted, FS_AddElement
    <2>4. Shape' /\ Finite' /\ WaitsParked' /\ SweepInLoop'
      BY <1>0, <2>1, <2>3
         DEF Shape, Finite, WaitsParked, SweepInLoop, Working, Executors
    <2>5. OneOwner' /\ StopJoinsAll'
      BY <1>0, <2>1, <2>2 DEF OneOwner, StopJoinsAll, Working, Executors, InHand
    <2>6. AllAccountedFor'
      <3>1. inFlight' = {exec'[g].id : g \in Working'} \union {loop'.id}
        BY <2>1, <2>2 DEF Working, Executors
      <3>2. QED
        BY <1>0, <2>1, <2>3, <3>1 DEF AllAccountedFor, Working, Executors
    <2>7. QED
      BY <2>4, <2>5, <2>6 DEF IInv
  <1>3. QED
    BY <1>1, <1>2

\* The ID in the loop's hand goes to an executor, with a slot or a parking place.
LEMMA SpawnStep ==
    ASSUME IInv, InHand, UNCHANGED <<sweep, marks, phase>>,
           \/ slots' = slots + 1 /\ Spawn("running", FALSE) /\ UNCHANGED parked
           \/ parked' = parked + 1 /\ Spawn("waiting", TRUE) /\ UNCHANGED slots
    PROVE  IInv'
  <1>0. /\ Shape /\ Finite /\ WaitsParked /\ OneOwner /\ SweepInLoop /\ AllAccountedFor
        /\ StopJoinsAll
        /\ {"running", "waiting"} \subseteq ExecAt
    BY DEF IInv, ExecAt
  <1>1. PICK at \in {"running", "waiting"}, p \in BOOLEAN :
           /\ Spawn(at, p)
           /\ at = "running" => slots' = slots + 1 /\ ~ p /\ UNCHANGED parked
           /\ at = "waiting" => parked' = parked + 1 /\ p /\ UNCHANGED slots
    <2>1. CASE slots' = slots + 1 /\ Spawn("running", FALSE) /\ UNCHANGED parked
      BY <2>1
    <2>2. CASE parked' = parked + 1 /\ Spawn("waiting", TRUE) /\ UNCHANGED slots
      BY <2>2
    <2>3. QED
      BY <2>1, <2>2
  <1>2. PICK g \in Goroutine \ Working :
              /\ exec' = [exec EXCEPT ![g] = [at |-> at, id |-> loop.id, wasParked |-> p]]
              /\ Working' = Working \union {g}
              /\ {exec'[h].id : h \in Working'} = {exec[h].id : h \in Working} \union {loop.id}
              /\ exec'[g].id = loop.id
              /\ \A h \in Working : exec'[h] = exec[h]
    BY <1>1, SpawnChange
  <1>3. loop' = AtSelect /\ UNCHANGED <<sweep, inFlight, wg, phase>>
    BY <1>1 DEF Spawn, marks
  <1>4. /\ exec' = [h \in Goroutine |-> exec'[h]]
        /\ \A h \in Goroutine : exec'[h] = [at |-> exec'[h].at, id |-> exec'[h].id,
                                            wasParked |-> exec'[h].wasParked]
        /\ \A h \in Goroutine : exec'[h].at \in ExecAt /\ exec'[h].wasParked \in BOOLEAN
        /\ exec'[g].at = at /\ exec'[g].wasParked = p
        /\ \A h \in Goroutine : h # g => exec'[h] = exec[h]
        /\ Slotted' = IF at \in {"running", "ending"} THEN Slotted \union {g} ELSE Slotted \ {g}
        /\ Parking' = IF at \notin {"none", "unmarking"} /\ p
                      THEN Parking \union {g} ELSE Parking \ {g}
    BY <1>0, <1>2, OneChange
  <1>5. g \notin Slotted /\ g \notin Parking
    BY <1>2 DEF Slotted, Parking, Working, Executors, ExecAt
  <1>6. Shape'
    BY <1>0, <1>3, <1>4 DEF Shape, AtSelect
  <1>7. Finite'
    BY <1>2, <1>3, Counted, FS_AddElement DEF Finite
  <1>8. WaitsParked' /\ SweepInLoop'
    <2>1. WaitsParked'
      BY <1>0, <1>1, <1>4 DEF WaitsParked
    <2>2. SweepInLoop'
      BY <1>0, <1>3 DEF SweepInLoop, InHand
    <2>3. QED
      BY <2>1, <2>2
  <1>9. OneOwner'
    BY <1>0, <1>2, <1>3 DEF OneOwner, InHand, AtSelect
  <1>10. AllAccountedFor'
    <2>1. slots' = Cardinality(Slotted')
      <3>1. CASE at = "running"
        <4>1. Slotted' = Slotted \union {g}
          BY <1>4, <3>1
        <4>2. Cardinality(Slotted') = Cardinality(Slotted) + 1
          BY <1>5, <4>1, Counted, FS_AddElement
        <4>3. QED
          BY <1>0, <1>1, <3>1, <4>2, Accounts
      <3>2. CASE at = "waiting"
        BY <1>0, <1>1, <1>4, <1>5, <3>2, Accounts
      <3>3. QED
        BY <3>1, <3>2
    <2>2. parked' = Cardinality(Parking')
      <3>1. CASE at = "waiting"
        <4>1. Parking' = Parking \union {g}
          BY <1>1, <1>4, <3>1
        <4>2. Cardinality(Parking') = Cardinality(Parking) + 1
          BY <1>5, <4>1, Counted, FS_AddElement
        <4>3. QED
          BY <1>0, <1>1, <3>1, <4>2, Accounts
      <3>2. CASE at = "running"
        BY <1>0, <1>1, <1>4, <1>5, <3>2, Accounts
      <3>3. QED
        BY <3>1, <3>2
    <2>3. inFlight' = {exec'[h].id : h \in Working'}
      BY <1>0, <1>2, <1>3, Accounts
    <2>4. wg' = Cardinality(inFlight')
      BY <1>0, <1>3, Accounts
    <2>5. ~ InHand'
      BY <1>3 DEF InHand, AtSelect
    <2>6. QED
      BY <2>1, <2>2, <2>3, <2>4, <2>5
         DEF AllAccountedFor, Slotted, Parking, Working, InHand
  <1>11. StopJoinsAll'
    BY <1>0, <1>3 DEF StopJoinsAll, InHand
  <1>12. QED
    BY <1>6, <1>7, <1>8, <1>9, <1>10, <1>11 DEF IInv

\* The loop changes its place: it keeps the ID in its hand, or has none.
LEMMA LoopMoveStep ==
    ASSUME IInv, UNCHANGED <<exec, pool, sweep, phase>>,
           loop' = [loop EXCEPT !.at = loop'.at],
           \/ loop.at = "marked" /\ loop'.at = "full"
           \/ loop.at = "select" /\ loop'.at = "returned"
    PROVE  IInv'
  <1>0. /\ Shape /\ Finite /\ WaitsParked /\ OneOwner /\ SweepInLoop /\ AllAccountedFor
        /\ StopJoinsAll /\ UNCHANGED <<slots, parked, inFlight, wg>>
    BY DEF IInv, pool
  <1>1. PICK a, i : loop = [at |-> a, id |-> i]
    BY <1>0 DEF Shape
  <1>2. loop' = [at |-> loop'.at, id |-> loop'.id] /\ loop'.id = loop.id
    BY <1>1
  <1>3. Shape' /\ Finite' /\ WaitsParked' /\ SweepInLoop'
    BY <1>0, <1>2 DEF Shape, Finite, WaitsParked, SweepInLoop, Working, Executors
  <1>4. OneOwner' /\ AllAccountedFor' /\ StopJoinsAll'
    BY <1>0, <1>2 DEF OneOwner, AllAccountedFor, StopJoinsAll, Working, Executors, InHand
  <1>5. QED
    BY <1>3, <1>4 DEF IInv

\* The loop drops the ID in its hand.
LEMMA DropStep ==
    ASSUME IInv, InHand, Drop, loop' = AtSelect,
           UNCHANGED <<exec, slots, parked, sweep, phase>>
    PROVE  IInv'
  <1>0. /\ Shape /\ Finite /\ WaitsParked /\ OneOwner /\ SweepInLoop /\ AllAccountedFor
        /\ StopJoinsAll
    BY DEF IInv
  <1>1. inFlight' = inFlight \ {loop.id} /\ wg' = wg - 1
    BY DEF Drop
  <1>2. /\ inFlight = {exec[g].id : g \in Working} \union {loop.id}
        /\ wg = Cardinality(inFlight)
    BY <1>0, Accounts
  <1>3. IsFiniteSet(inFlight') /\ wg' = Cardinality(inFlight')
    <2>1. IsFiniteSet(inFlight) /\ loop.id \in inFlight
      BY <1>2, Counted
    <2>2. /\ IsFiniteSet(inFlight \ {loop.id})
          /\ Cardinality(inFlight \ {loop.id}) = Cardinality(inFlight) - 1
      BY <2>1, FS_RemoveElement
    <2>3. QED
      BY <1>1, <1>2, <2>2
  <1>4. inFlight' = {exec[g].id : g \in Working}
    BY <1>0, <1>1, <1>2 DEF OneOwner
  <1>5. Working' = Working /\ Slotted' = Slotted /\ Parking' = Parking
    BY DEF Working, Slotted, Parking, Executors
  <1>6. Shape' /\ Finite' /\ WaitsParked' /\ SweepInLoop'
    BY <1>0, <1>3, <1>5 DEF Shape, Finite, WaitsParked, SweepInLoop, InHand, AtSelect
  <1>7. OneOwner' /\ StopJoinsAll'
    BY <1>0, <1>5 DEF OneOwner, StopJoinsAll, InHand, AtSelect
  <1>8. AllAccountedFor'
    <2>1. /\ slots' = Cardinality(Slotted') /\ parked' = Cardinality(Parking')
          /\ inFlight' = {exec'[g].id : g \in Working'} /\ ~ InHand'
      BY <1>0, <1>4, <1>5, Accounts DEF InHand, AtSelect
    <2>2. QED
      BY <1>3, <2>1 DEF AllAccountedFor, Slotted, Parking, Working, InHand
  <1>9. QED
    BY <1>6, <1>7, <1>8 DEF IInv

\* An executor goes on with its ID, taking or giving back what it holds.
LEMMA MoveStep ==
    ASSUME IInv, NEW g \in Goroutine,
           \/ GetSlot(g) \/ GiveUp(g) \/ RunSettles(g) \/ RunLeaves(g)
           \/ FreeSlot(g) \/ Unpark(g)
    PROVE  IInv'
  <1>0. /\ Shape /\ Finite /\ WaitsParked /\ OneOwner /\ SweepInLoop /\ AllAccountedFor
        /\ StopJoinsAll
    BY DEF IInv
  <1>1. PICK where \in {"running", "ending", "unparking", "unmarking"} :
           /\ GoTo(g, where)
           /\ exec[g].at \notin {"none", "unmarking"}
           /\ where = "running" =>
                 exec[g].at = "waiting" /\ slots' = slots + 1 /\ parked' = parked
           /\ where = "ending" =>
                 exec[g].at = "running" /\ slots' = slots /\ parked' = parked
           /\ where = "unparking" =>
                 /\ exec[g].wasParked /\ parked' = parked
                 /\ \/ exec[g].at = "waiting" /\ slots' = slots
                    \/ exec[g].at = "ending" /\ slots' = slots - 1
           /\ where = "unmarking" =>
                 \/ exec[g].at = "ending" /\ ~ exec[g].wasParked /\ slots' = slots - 1
                                          /\ parked' = parked
                 \/ exec[g].at = "unparking" /\ exec[g].wasParked /\ slots' = slots
                                             /\ parked' = parked - 1
    <2>1. CASE GetSlot(g)
      BY <2>1 DEF GetSlot
    <2>2. CASE GiveUp(g)
      BY <1>0, <2>2 DEF GiveUp, OnCancel, pool, WaitsParked
    <2>3. CASE RunSettles(g) \/ RunLeaves(g)
      BY <2>3 DEF RunSettles, RunLeaves, pool
    <2>4. CASE FreeSlot(g) /\ exec[g].wasParked
      BY <2>4 DEF FreeSlot
    <2>5. CASE FreeSlot(g) /\ ~ exec[g].wasParked
      BY <2>5 DEF FreeSlot
    <2>6. CASE Unpark(g)
      BY <1>0, <2>6 DEF Unpark, WaitsParked
    <2>7. QED
      BY <2>1, <2>2, <2>3, <2>4, <2>5, <2>6
  <1>2. /\ g \in Working /\ where \in ExecAt /\ where \in ExecAt \ {"none"}
        /\ exec[g].wasParked \in BOOLEAN
        /\ UNCHANGED <<loop, sweep, inFlight, wg, phase>>
    BY <1>0, <1>1
       DEF Working, Executors, Shape, ExecAt, GetSlot, GiveUp, RunSettles, RunLeaves, FreeSlot,
           Unpark, pool, marks
  <1>3. /\ exec' = [exec EXCEPT ![g] = [at |-> where, id |-> exec[g].id,
                                        wasParked |-> exec[g].wasParked]]
        /\ Working' = Working
        /\ {exec'[h].id : h \in Working'} = {exec[h].id : h \in Working}
        /\ \A h \in Working : exec'[h].id = exec[h].id
    BY <1>1, <1>2, MoveChange
  <1>4. /\ exec' = [h \in Goroutine |-> exec'[h]]
        /\ \A h \in Goroutine : exec'[h] = [at |-> exec'[h].at, id |-> exec'[h].id,
                                            wasParked |-> exec'[h].wasParked]
        /\ \A h \in Goroutine : exec'[h].at \in ExecAt /\ exec'[h].wasParked \in BOOLEAN
        /\ exec'[g].at = where /\ exec'[g].wasParked = exec[g].wasParked
        /\ \A h \in Goroutine : h # g => exec'[h] = exec[h]
        /\ Slotted' = IF where \in {"running", "ending"}
                      THEN Slotted \union {g} ELSE Slotted \ {g}
        /\ Parking' = IF where \notin {"none", "unmarking"} /\ exec[g].wasParked
                      THEN Parking \union {g} ELSE Parking \ {g}
    BY <1>0, <1>2, <1>3, OneChange
  <1>5. /\ g \in Slotted <=> exec[g].at \in {"running", "ending"}
        /\ g \in Parking <=> exec[g].wasParked
    BY <1>0, <1>1 DEF Slotted, Parking, Executors, Shape
  <1>6. Shape' /\ Finite' /\ SweepInLoop'
    BY <1>0, <1>2, <1>3, <1>4 DEF Shape, Finite, SweepInLoop
  <1>7. WaitsParked'
    BY <1>0, <1>1, <1>4 DEF WaitsParked
  <1>8. OneOwner'
    BY <1>0, <1>2, <1>3 DEF OneOwner, InHand
  <1>9. slots' = Cardinality(Slotted')
    <2>1. CASE where = "running"
      <3>1. Slotted' = Slotted \union {g} /\ g \notin Slotted
        BY <1>1, <1>4, <1>5, <2>1
      <3>2. QED
        <4>1. Cardinality(Slotted \union {g}) = Cardinality(Slotted) + 1
          BY <3>1, Counted, FS_AddElement
        <4>2. QED
          BY <1>0, <1>1, <2>1, <3>1, <4>1, Accounts
    <2>2. CASE \/ where = "ending"
               \/ where \in {"unparking", "unmarking"} /\ exec[g].at \in {"waiting", "unparking"}
      <3>1. Slotted' = Slotted
        BY <1>1, <1>4, <1>5, <2>2
      <3>2. QED
        BY <1>0, <1>1, <2>2, <3>1, Accounts
    <2>3. CASE where \in {"unparking", "unmarking"} /\ exec[g].at = "ending"
      <3>1. Slotted' = Slotted \ {g} /\ g \in Slotted
        BY <1>4, <1>5, <2>3
      <3>2. QED
        BY <1>0, <1>1, <2>3, <3>1, Counted, Accounts, FS_RemoveElement
    <2>4. QED
      BY <1>1, <2>1, <2>2, <2>3
  <1>10. parked' = Cardinality(Parking')
    <2>1. CASE exec[g].at = "unparking"
      <3>1. Parking' = Parking \ {g} /\ g \in Parking /\ parked' = parked - 1
        BY <1>1, <1>4, <1>5, <2>1
      <3>2. QED
        BY <1>0, <3>1, Counted, Accounts, FS_RemoveElement
    <2>2. CASE exec[g].at # "unparking"
      <3>1. Parking' = Parking /\ parked' = parked
        BY <1>1, <1>4, <1>5, <2>2
      <3>2. QED
        BY <1>0, <3>1, Accounts
    <2>3. QED
      BY <2>1, <2>2
  <1>11. AllAccountedFor'
    <2>1. /\ inFlight' = {exec'[h].id : h \in Working'} \union (IF InHand THEN {loop.id} ELSE {})
          /\ wg' = Cardinality(inFlight')
      BY <1>0, <1>2, <1>3, Accounts
    <2>2. QED
      BY <1>2, <1>9, <1>10, <2>1 DEF AllAccountedFor, Slotted, Parking, Working, InHand
  <1>12. StopJoinsAll'
    BY <1>0, <1>2 DEF StopJoinsAll, Working
  <1>13. QED
    BY <1>6, <1>7, <1>8, <1>11, <1>12 DEF IInv

\* An executor takes its mark off and is gone.
LEMMA UnmarkStep == ASSUME IInv, NEW g \in Goroutine, Unmark(g) PROVE IInv'
  <1>0. /\ Shape /\ Finite /\ WaitsParked /\ OneOwner /\ SweepInLoop /\ AllAccountedFor
        /\ StopJoinsAll
    BY DEF IInv
  <1>1. /\ exec[g].at = "unmarking"
        /\ inFlight' = inFlight \ {exec[g].id} /\ wg' = wg - 1
        /\ exec' = [exec EXCEPT ![g] = [at |-> "none", id |-> NoId, wasParked |-> FALSE]]
        /\ UNCHANGED <<sweep, loop, slots, parked, phase>>
    BY DEF Unmark, NoExec
  <1>2. "none" \in ExecAt /\ FALSE \in BOOLEAN
    BY DEF ExecAt
  <1>3. /\ exec' = [h \in Goroutine |-> exec'[h]]
        /\ \A h \in Goroutine : exec'[h] = [at |-> exec'[h].at, id |-> exec'[h].id,
                                            wasParked |-> exec'[h].wasParked]
        /\ \A h \in Goroutine : exec'[h].at \in ExecAt /\ exec'[h].wasParked \in BOOLEAN
        /\ exec'[g].at = "none"
        /\ \A h \in Goroutine : h # g => exec'[h] = exec[h]
        /\ Working' = Working \ {g} /\ Slotted' = Slotted \ {g} /\ Parking' = Parking \ {g}
    BY <1>0, <1>1, <1>2, OneChange
  <1>4. g \in Working /\ g \notin Slotted /\ g \notin Parking
    BY <1>1 DEF Working, Slotted, Parking, Executors, ExecAt
  <1>5. Slotted' = Slotted /\ Parking' = Parking
    BY <1>3, <1>4
  <1>6. /\ inFlight = {exec[h].id : h \in Working} \union (IF InHand THEN {loop.id} ELSE {})
        /\ wg = Cardinality(inFlight)
    BY <1>0, Accounts
  <1>7. IsFiniteSet(inFlight') /\ wg' = Cardinality(inFlight')
    <2>1. IsFiniteSet(inFlight) /\ exec[g].id \in inFlight
      BY <1>4, <1>6, Counted
    <2>2. /\ IsFiniteSet(inFlight \ {exec[g].id})
          /\ Cardinality(inFlight \ {exec[g].id}) = Cardinality(inFlight) - 1
      BY <2>1, FS_RemoveElement
    <2>3. QED
      BY <1>1, <1>6, <2>2
  <1>8. \A h \in Working' : h \in Working /\ h # g /\ exec'[h] = exec[h]
    BY <1>3 DEF Working, Executors
  <1>9. inFlight' = {exec'[h].id : h \in Working'} \union (IF InHand THEN {loop.id} ELSE {})
    <2>1. {exec'[h].id : h \in Working'} = {exec[h].id : h \in Working \ {g}}
      BY <1>3, <1>8
    <2>2. {exec[h].id : h \in Working \ {g}} = {exec[h].id : h \in Working} \ {exec[g].id}
      BY <1>0, <1>4 DEF OneOwner
    <2>3. InHand => loop.id # exec[g].id
      BY <1>0, <1>4 DEF OneOwner
    <2>4. QED
      BY <1>1, <1>6, <2>1, <2>2, <2>3
  <1>10. Finite'
    BY <1>3, <1>7, Counted, FS_RemoveElement DEF Finite
  <1>11. Shape' /\ WaitsParked' /\ SweepInLoop'
    BY <1>0, <1>1, <1>3 DEF Shape, WaitsParked, SweepInLoop
  <1>12. OneOwner'
    BY <1>0, <1>1, <1>8 DEF OneOwner, InHand
  <1>13. AllAccountedFor'
    <2>1. slots' = Cardinality(Slotted') /\ parked' = Cardinality(Parking')
      BY <1>0, <1>1, <1>5, Accounts
    <2>2. QED
      BY <1>1, <1>7, <1>9, <2>1 DEF AllAccountedFor, Slotted, Parking, Working, InHand
  <1>14. StopJoinsAll'
    BY <1>0, <1>1, <1>4 DEF StopJoinsAll, Working
  <1>15. QED
    BY <1>10, <1>11, <1>12, <1>13, <1>14 DEF IInv

\* Stop returns when the loop has, and when no mark is left.
LEMMA StopStep == ASSUME IInv, Stop \/ StopReturns PROVE IInv'
  <1>0. /\ Shape /\ Finite /\ WaitsParked /\ OneOwner /\ SweepInLoop /\ AllAccountedFor
    BY DEF IInv
  <1>1. UNCHANGED <<sweep, loop, exec, slots, parked, inFlight, wg>>
    BY DEF Stop, StopReturns, pool
  <1>2. Shape' /\ Finite' /\ WaitsParked' /\ OneOwner' /\ SweepInLoop' /\ AllAccountedFor'
    BY <1>0, <1>1
       DEF Shape, Finite, WaitsParked, OneOwner, SweepInLoop, AllAccountedFor, Working,
           Executors, InHand
  <1>3. StopJoinsAll'
    <2>1. CASE Stop
      BY <2>1 DEF Stop, StopJoinsAll
    <2>2. CASE StopReturns
      <3>1. loop.at = "returned" /\ wg = 0
        BY <2>2 DEF StopReturns, Joined
      <3>2. inFlight = {}
        BY <1>0, <3>1, Accounts, Counted, FS_EmptySet
      <3>3. Working = {}
        BY <1>0, <3>2, Accounts
      <3>4. Slotted = {} /\ Parking = {}
        BY <3>3 DEF Working, Slotted, Parking, Executors, ExecAt
      <3>5. slots = 0 /\ parked = 0
        BY <1>0, <3>4, Accounts, FS_EmptySet
      <3>6. Executors(ExecAt \ {"none"})' = {}
        BY <1>1, <3>3 DEF Working, Executors
      <3>7. QED
        BY <1>1, <3>1, <3>2, <3>5, <3>6 DEF StopJoinsAll
    <2>3. QED
      BY <2>1, <2>2
  <1>4. QED
    BY <1>2, <1>3 DEF IInv

LEMMA IInvInit == Init => IInv
  <1> SUFFICES ASSUME Init PROVE IInv
    OBVIOUS
  <1>1. /\ exec = [g \in Goroutine |-> [at |-> "none", id |-> NoId, wasParked |-> FALSE]]
        /\ loop = [at |-> "select", id |-> NoId]
        /\ sweep = [s \in Sweeper |-> [at |-> "due", ids |-> <<>>]]
        /\ slots = 0 /\ parked = 0 /\ inFlight = {} /\ wg = 0 /\ phase = "up"
    BY DEF Init, NoExec, AtSelect
  <1>2. Shape /\ WaitsParked /\ SweepInLoop /\ StopJoinsAll
    BY <1>1 DEF Shape, WaitsParked, SweepInLoop, StopJoinsAll, ExecAt, Sweeper
  <1>3. Working = {} /\ Slotted = {} /\ Parking = {} /\ ~ InHand
    BY <1>1 DEF Working, Slotted, Parking, Executors, ExecAt, InHand
  <1>4. Finite /\ OneOwner
    BY <1>1, <1>3, FS_EmptySet DEF Finite, OneOwner
  <1>5. AllAccountedFor
    BY <1>1, <1>3, FS_EmptySet, Accounts
  <1>6. QED
    BY <1>2, <1>4, <1>5 DEF IInv

LEMMA IInvStep == IInv /\ [Next]_vars => IInv'
  <1> SUFFICES ASSUME IInv, [Next]_vars PROVE IInv'
    OBVIOUS
  <1>1. ASSUME NEW id \in Id, Submit(id) \/ Dispatch(id) \/ SettleElsewhere(id) PROVE IInv'
    BY <1>1, OutsideStep DEF Submit, Dispatch, SettleElsewhere
  <1>2. ASSUME NEW s \in Sweeper, BeginSweep(s) \/ SweepOne(s) \/ EndSweep(s) PROVE IInv'
    BY <1>2, OutsideStep DEF BeginSweep, SweepOne, EndSweep
  <1>3. CASE TakeSlot
    <2>1. CASE slots < MaxInFlight
      BY <1>3, <2>1, SpawnStep DEF TakeSlot, InHand
    <2>2. CASE ~ (slots < MaxInFlight)
      <3>1. /\ UNCHANGED <<exec, pool, sweep, phase>> /\ loop.at = "marked"
            /\ loop' = [loop EXCEPT !.at = "full"]
        BY <1>3, <2>2 DEF TakeSlot, pool, marks
      <3>2. PICK a, i : loop = [at |-> a, id |-> i]
        BY DEF IInv, Shape
      <3>3. loop'.at = "full"
        BY <3>1, <3>2
      <3>4. QED
        BY <3>1, <3>3, LoopMoveStep
    <2>3. QED
      BY <2>1, <2>2
  <1>4. CASE Park
    <2>1. CASE parked < MaxInFlight
      BY <1>4, <2>1, SpawnStep DEF Park, InHand
    <2>2. CASE ~ (parked < MaxInFlight)
      BY <1>4, <2>2, DropStep DEF Park, InHand
    <2>3. QED
      BY <2>1, <2>2
  <1>5. CASE LoopReturns
    <2>1. /\ UNCHANGED <<exec, pool, sweep, phase>> /\ loop.at = "select"
          /\ loop' = [loop EXCEPT !.at = "returned"]
      BY <1>5 DEF LoopReturns
    <2>2. PICK a, i : loop = [at |-> a, id |-> i]
      BY DEF IInv, Shape
    <2>3. loop'.at = "returned"
      BY <2>1, <2>2
    <2>4. QED
      BY <2>1, <2>3, LoopMoveStep
  <1>6. ASSUME NEW g \in Goroutine, ExecStep(g) PROVE IInv'
    BY <1>6, MoveStep, UnmarkStep DEF ExecStep
  <1>7. CASE UNCHANGED vars
    BY <1>7, OutsideStep DEF vars
  <1>8. QED
    BY <1>1, <1>2, <1>3, <1>4, <1>5, <1>6, <1>7, TakeStep, StopStep
       DEF Next, LoopStep, Sweeper

\* The inductive invariant holds in every reachable state.
THEOREM DispatchInductive == Spec => []IInv
  BY IInvInit, IInvStep, PTL DEF Spec

\* service.go, LoadOrStore on the in-flight map: a submission is never executed
\* twice at once in one process, from however many sources it is offered.
THEOREM NeverTwice == Spec => []NeverTwiceInProcess
  <1>1. IInv => NeverTwiceInProcess
    BY DEF IInv, OneOwner, NeverTwiceInProcess, Working, Executors, ExecAt
  <1>2. QED
    BY <1>1, DispatchInductive, PTL

\* execute's deferred releases: whatever way an executor goes, the tokens of the
\* two channels, the marks and the wait group are those of who holds them.
THEOREM Accounted == Spec => []AllAccountedFor
  <1>1. IInv => AllAccountedFor
    BY DEF IInv
  <1>2. QED
    BY <1>1, DispatchInductive, PTL

\* No channel of the pool holds more than its capacity, whether the loop or a parked
\* executor takes the slot.
WithinCapacity == slots <= MaxInFlight /\ parked <= MaxInFlight

LEMMA CapacityHolds == Spec => []WithinCapacity
  <1>1. IInv => slots \in Nat /\ parked \in Nat
    BY Accounts, Counted DEF IInv
  <1>2. Init => WithinCapacity
    BY DispatchAssumption DEF Init, WithinCapacity
  <1>3. IInv /\ WithinCapacity /\ [Next]_vars => WithinCapacity'
    <2> SUFFICES ASSUME IInv, WithinCapacity, [Next]_vars PROVE WithinCapacity'
      OBVIOUS
    <2>0. slots \in Nat /\ parked \in Nat /\ MaxInFlight \in Nat
      BY <1>1, DispatchAssumption
    <2>1. CASE TakeSlot \/ Park
      <3>1. CASE TakeSlot
        <4>1. parked' = parked /\ (slots' = slots \/ (slots < MaxInFlight /\ slots' = slots + 1))
          BY <3>1 DEF TakeSlot
        <4>2. QED
          BY <2>0, <4>1 DEF WithinCapacity
      <3>2. CASE Park
        <4>1. slots' = slots /\ (parked' = parked \/ (parked < MaxInFlight /\ parked' = parked + 1))
          BY <3>2 DEF Park
        <4>2. QED
          BY <2>0, <4>1 DEF WithinCapacity
      <3>3. QED
        BY <2>1, <3>1, <3>2
    <2>2. ASSUME NEW g \in Goroutine, GetSlot(g) \/ FreeSlot(g) \/ Unpark(g) PROVE WithinCapacity'
      BY <2>0, <2>2 DEF GetSlot, FreeSlot, Unpark, WithinCapacity
    <2>3. CASE UNCHANGED <<slots, parked>>
      BY <2>3 DEF WithinCapacity
    <2>4. QED
      BY <2>1, <2>2, <2>3
         DEF Next, LoopStep, ExecStep, vars, pool, Submit, Dispatch, SettleElsewhere,
             BeginSweep, SweepOne, EndSweep, Take, LoopReturns, GiveUp, RunSettles, RunLeaves,
             Unmark, Stop, StopReturns
  <1>4. QED
    BY <1>2, <1>3, DispatchInductive, PTL DEF Spec

\* service.go: "At most Config.MaxInFlight submissions execute concurrently; at
\* most MaxInFlight more wait": nobody gets past the capacity of a channel,
\* whether the loop or a parked executor takes the slot.
AtMostMaxInFlight ==
    /\ Cardinality(Executors({"running"})) <= MaxInFlight
    /\ Cardinality(Executors({"waiting"})) <= MaxInFlight

THEOREM PoolIsBounded == Spec => []AtMostMaxInFlight
  <1>1. IInv /\ WithinCapacity => AtMostMaxInFlight
    <2> SUFFICES ASSUME IInv, WithinCapacity PROVE AtMostMaxInFlight
      OBVIOUS
    <2>1. Executors({"running"}) \subseteq Slotted /\ Executors({"waiting"}) \subseteq Parking
      BY DEF IInv, WaitsParked, Slotted, Parking, Executors, ExecAt
    <2>2. /\ Cardinality(Executors({"running"})) <= Cardinality(Slotted)
          /\ Cardinality(Executors({"waiting"})) <= Cardinality(Parking)
      BY <2>1, Counted, FS_Subset
    <2>3. /\ Cardinality(Executors({"running"})) \in Nat
          /\ Cardinality(Executors({"waiting"})) \in Nat
      BY <2>1, Counted, FS_Subset, FS_CardinalityType
    <2>4. slots = Cardinality(Slotted) /\ parked = Cardinality(Parking)
      BY Accounts DEF IInv
    <2>5. QED
      BY <2>2, <2>3, <2>4, Counted, DispatchAssumption DEF AtMostMaxInFlight, WithinCapacity
  <1>2. QED
    BY <1>1, CapacityHolds, DispatchInductive, PTL DEF Spec

\* Stop: once it has returned, neither the loop nor an executor is left.
THEOREM StopJoins == Spec => []StopJoinsAll
  <1>1. IInv => StopJoinsAll
    BY DEF IInv
  <1>2. QED
    BY <1>1, DispatchInductive, PTL

-----------------------------------------------------------------------------
(* Types, and that the pipeline works on accepted submissions only.        *)

Known == ToSet(created)

LoopAt == {"select", "marked", "full", "sweeping", "returned"}
SweepAt == {"due", "offering", "over"}

\* service.go dispatches an ID after its row is stored, and the sweeps list rows:
\* whatever is queued, listed, marked or executed has a row.
WorksOnAccepted ==
    /\ settled \subseteq Known /\ handlers \subseteq Known /\ inFlight \subseteq Known
    /\ queue \in Seq(Known)
    /\ \A s \in Sweeper : sweep[s].ids \in Seq(Known)
    /\ InHand => loop.id \in Known
    /\ \A g \in Working : exec[g].id \in Known

AcceptedInv ==
    /\ created \in Seq(Id)
    /\ settled \subseteq Known /\ handlers \subseteq Known /\ inFlight \subseteq Known
    /\ queue \in Seq(Known) /\ Len(queue) <= QueueDepth
    /\ sweep \in [Sweeper -> [at : SweepAt, ids : Seq(Known)]]
    /\ loop \in [at : LoopAt, id : Known \union {NoId}] /\ (InHand => loop.id \in Known)
    /\ exec \in [Goroutine -> [at : ExecAt, id : Known \union {NoId}, wasParked : BOOLEAN]]
    /\ \A g \in Goroutine : exec[g].at # "none" => exec[g].id \in Known
    /\ phase \in {"up", "stopping", "stopped"}

\* A set of numbers has a least one: the library's least element of a well-founded
\* relation is about sets, where its induction is about an operator.
LEMMA LeastNumber ==
    ASSUME NEW T \in SUBSET Nat, T # {}
    PROVE  \E m \in T : \A k \in T : m <= k
  <1> DEFINE Less == OpToRel(<, Nat)
  <1>1. IsWellFoundedOn(Less, Nat)
    BY NatLessThanWellFounded
  <1>2. \A x, y \in Nat : y < x => <<y, x>> \in Less
    BY DEF OpToRel
  <1> HIDE DEF Less
  <1>3. PICK x \in T : \A y \in T : ~ (<<y, x>> \in Less)
    BY <1>1, WFMin
  <1>4. \A y \in T : ~(y < x)
    BY <1>2, <1>3
  <1>5. QED
    BY <1>4

\* ListRunnable goes through every row.
LEMMA RunnableLoop ==
    ASSUME Len(created) \in Nat
    PROVE  \E f : /\ Runnable = f[Len(created)]
                  /\ f[0] = <<>>
                  /\ \A i \in 1..Len(created) :
                       f[i] = IF created[i] \notin settled THEN Append(f[i - 1], created[i])
                              ELSE f[i - 1]
  <1> DEFINE n == Len(created)
             Body(f, i) == IF i = 0 THEN <<>>
                           ELSE IF created[i] \notin settled THEN Append(f[i - 1], created[i])
                           ELSE f[i - 1]
             Defines(f, k) == f = [i \in 0..k |-> Body(f, i)]
             T == {k \in Nat : \A f : ~Defines(f, k)}
  <1>0. n \in Nat
    OBVIOUS
  <1> HIDE DEF n
  <1>1. T = {}
    <2>1. SUFFICES ASSUME T # {} PROVE FALSE
      OBVIOUS
    <2>2. PICK k \in T : \A j \in T : k <= j
      BY <2>1, LeastNumber
    <2>3. k # 0
      <3>1. Defines([i \in 0..0 |-> <<>>], 0)
        OBVIOUS
      <3>2. QED
        BY <3>1
    <2>4. k - 1 \in Nat /\ k - 1 \notin T
      <3>1. k \in Nat
        OBVIOUS
      <3> HIDE DEF T
      <3>2. QED
        BY <2>2, <2>3, <3>1
    <2>5. PICK g : Defines(g, k - 1)
      BY <2>4
    <2> DEFINE h == [i \in 0..k |-> IF i = k THEN Body(g, k) ELSE g[i]]
    <2>6. \A i \in 0..(k - 1) : h[i] = g[i] /\ g[i] = Body(g, i)
      <3> HIDE DEF Body
      <3>1. \A i \in 0..(k - 1) : g[i] = Body(g, i)
        BY <2>5
      <3>2. QED
        BY <3>1, <2>4
    <2>7. \A i \in 0..k : Body(h, i) = IF i = k THEN Body(g, k) ELSE Body(g, i)
      <3>1. TAKE i \in 0..k
      <3>2. CASE i = 0
        BY <3>2, <2>3
      <3>3. CASE i # 0
        <4>1. i - 1 \in 0..(k - 1) /\ h[i - 1] = g[i - 1]
          BY <3>3, <2>6, <2>4
        <4> HIDE DEF h
        <4>2. QED
          BY <4>1, <3>3
      <3>4. QED
        BY <3>2, <3>3
    <2>8. h = [i \in 0..k |-> Body(h, i)]
      <3>1. \A i \in 0..k : h[i] = Body(h, i)
        <4>1. TAKE i \in 0..k
        <4>2. h[i] = IF i = k THEN Body(g, k) ELSE g[i]
          BY DEF h
        <4>3. i # k => i \in 0..(k - 1)
          BY <2>4
        <4> HIDE DEF Body, h
        <4>4. QED
          BY <4>2, <4>3, <2>6, <2>7
      <3>2. h = [i \in 0..k |-> h[i]]
        BY DEF h
      <3> HIDE DEF h, Body
      <3>3. QED
        BY <3>1, <3>2
    <2>9. QED
      BY <2>8, <2>2
  <1>2. \E f : Defines(f, n)
    <2> HIDE DEF Defines
    <2>1. QED
      BY <1>0, <1>1
  <1> DEFINE pending == CHOOSE f : Defines(f, n)
  <1>3. Defines(pending, n)
    <2> HIDE DEF Defines
    <2>1. QED
      BY <1>2
  <1>4. Runnable = pending[n]
    BY Zenon DEF Runnable, n
  <1>5. \A i \in 0..n : pending[i] = Body(pending, i)
    <2> HIDE DEF Body, pending
    <2>1. QED
      BY <1>3
  <1> HIDE DEF pending
  <1>6. QED
    BY <1>0, <1>4, <1>5 DEF n

\* ListRunnable lists rows, and all of them that are pending.
LEMMA RunnableFacts ==
    ASSUME created \in Seq(Id)
    PROVE  /\ Runnable \in Seq(Known)
           /\ ToSet(Runnable) = Known \ settled
  <1> DEFINE n == Len(created)
             Lists(s, k) ==
               /\ s \in Seq(Known)
               /\ \A i \in 1..Len(s) : s[i] \notin settled
               /\ \A j \in 1..k : created[j] \in settled \/ \E i \in 1..Len(s) : s[i] = created[j]
  <1>0. n \in Nat /\ \A i \in 1..n : created[i] \in Known
    BY DEF Known, ToSet
  <1>1. PICK f : /\ Runnable = f[n]
                 /\ f[0] = <<>>
                 /\ \A i \in 1..n :
                      f[i] = IF created[i] \notin settled THEN Append(f[i - 1], created[i])
                             ELSE f[i - 1]
    BY <1>0, RunnableLoop
  <1>2. Lists(f[0], 0)
    <2>1. <<>> \in Seq(Known) /\ Len(<<>>) = 0
      OBVIOUS
    <2>2. QED
      BY <1>1, <2>1
  <1>3. ASSUME NEW k \in 1..n, Lists(f[k - 1], k - 1) PROVE Lists(f[k], k)
    <2> DEFINE s == f[k - 1]
               e == created[k]
    <2>1. e \in Known /\ \A j \in 1..k : j \in 1..(k - 1) \/ j = k
      BY <1>0
    <2>2. CASE e \in settled
      <3>1. f[k] = s
        BY <1>1, <2>2
      <3>2. QED
        BY <1>3, <2>1, <2>2, <3>1
    <2>3. CASE e \notin settled
      <3> DEFINE t == Append(s, e)
      <3>1. f[k] = t
        BY <1>1, <2>3
      <3>2. s \in Seq(Known) /\ Len(s) \in Nat
        BY <1>3
      <3>3. /\ t \in Seq(Known) /\ Len(t) = Len(s) + 1 /\ t[Len(s) + 1] = e
            /\ \A i \in 1..Len(s) : t[i] = s[i]
        BY <2>1, <3>2, AppendProperties
      <3>4. /\ \A i \in 1..Len(t) : i \in 1..Len(s) \/ i = Len(s) + 1
            /\ Len(s) + 1 \in 1..Len(t) /\ \A i \in 1..Len(s) : i \in 1..Len(t)
        BY <3>2, <3>3
      <3> HIDE DEF t, s, e
      <3>5. \A i \in 1..Len(t) : t[i] \notin settled
        BY <1>3, <2>3, <3>3, <3>4 DEF s
      <3>6. \A j \in 1..(k - 1) :
               created[j] \in settled \/ \E i \in 1..Len(t) : t[i] = created[j]
        BY <1>3, <3>3, <3>4 DEF s
      <3>7. \E i \in 1..Len(t) : t[i] = created[k]
        BY <3>3, <3>4 DEF e
      <3>8. QED
        BY <2>1, <3>1, <3>3, <3>5, <3>6, <3>7
    <2>4. QED
      BY <2>2, <2>3
  <1> HIDE DEF Lists
  <1> DEFINE T == {k \in 0..n : ~Lists(f[k], k)}
  <1>4. T = {}
    <2>1. SUFFICES ASSUME T # {} PROVE FALSE
      OBVIOUS
    <2>2. PICK k \in T : \A j \in T : k <= j
      <3>1. T \in SUBSET Nat
        BY <1>0
      <3> HIDE DEF T
      <3>2. QED
        BY <2>1, <3>1, LeastNumber
    <2>3. k \in 1..n /\ k - 1 \in 0..n
      BY <1>0, <1>2
    <2>4. k - 1 \notin T
      <3> HIDE DEF T
      <3>1. QED
        BY <1>0, <2>2, <2>3
    <2>5. QED
      BY <1>3, <2>3, <2>4
  <1>5. Lists(f[n], n)
    BY <1>0, <1>4
  <1>6. Lists(Runnable, n)
    BY <1>1, <1>5
  <1> DEFINE list == Runnable
  <1> HIDE DEF list
  <1>7. /\ list \in Seq(Known) /\ \A i \in 1..Len(list) : list[i] \notin settled
        /\ \A j \in 1..n : created[j] \in settled \/ \E i \in 1..Len(list) : list[i] = created[j]
    BY <1>6 DEF Lists, list
  <1>8. /\ \A x : x \in ToSet(list) <=> \E i \in 1..Len(list) : list[i] = x
        /\ \A x : x \in Known <=> \E i \in 1..n : created[i] = x
        /\ \A i \in 1..Len(list) : list[i] \in Known
    BY <1>7 DEF ToSet, Known
  <1>9. ToSet(list) = Known \ settled
    BY <1>7, <1>8
  <1>10. QED
    BY <1>7, <1>9 DEF list

LEMMA EmptyLists == \A S : <<>> \in Seq(S) /\ Len(<<>>) = 0
  OBVIOUS

LEMMA AcceptedInit == Init => AcceptedInv /\ slots = 0 /\ parked = 0
  <1> SUFFICES ASSUME Init PROVE AcceptedInv
    BY DEF Init
  <1>1. created \in Seq(Id)
    <2>1. PICK n \in 0..Cardinality(Id) : created \in [1..n -> Id]
      BY DEF Init
    <2>2. n \in Nat
      BY <2>1
    <2>3. QED
      BY <2>1, <2>2
  <1>2. /\ NoExec \in [at : ExecAt, id : Known \union {NoId}, wasParked : BOOLEAN]
        /\ AtSelect \in [at : LoopAt, id : Known \union {NoId}]
        /\ NoExec.at = "none" /\ ~(AtSelect.at \in {"marked", "full"})
    BY DEF NoExec, AtSelect, ExecAt, LoopAt
  <1>3. /\ queue \in Seq(Known) /\ Len(queue) <= QueueDepth
        /\ sweep \in [Sweeper -> [at : SweepAt, ids : Seq(Known)]]
    BY EmptyLists, DispatchAssumption DEF Init, SweepAt
  <1>4. QED
    BY <1>1, <1>2, <1>3 DEF Init, AcceptedInv, InHand, Known

\* A submit handler stores its row: what was known still is.
LEMMA SubmitAccepted ==
    ASSUME AcceptedInv, NEW id \in Id, Submit(id)
    PROVE  AcceptedInv'
  <1>1. created \in Seq(Id) /\ created' = Append(created, id)
    BY DEF AcceptedInv, Submit
  <1>2. created' \in Seq(Id) /\ Known' = Known \union {id}
    <2> DEFINE n == Len(created)
    <2>1. /\ created' \in Seq(Id) /\ Len(created') = n + 1 /\ n \in Nat
          /\ \A i \in 1..n : created'[i] = created[i]
          /\ created'[n + 1] = id
      BY <1>1, AppendProperties
    <2>2. DOMAIN created = 1..n /\ DOMAIN created' = 1..(n + 1)
      BY <1>1, <2>1
    <2> HIDE DEF n
    <2>3. \A i \in 1..(n + 1) : i \in 1..n \/ i = n + 1
      BY <2>1
    <2>4. n + 1 \in 1..(n + 1) /\ \A i \in 1..n : i \in 1..(n + 1)
      BY <2>1
    <2>5. \A x : x \in Known' <=> \E i \in 1..(n + 1) : x = created'[i]
      BY <2>2 DEF Known, ToSet
    <2>6. \A x : x \in Known <=> \E i \in 1..n : x = created[i]
      BY <2>2 DEF Known, ToSet
    <2>7. \A x : x \in Known' <=> x \in Known \union {id}
      BY <2>1, <2>3, <2>4, <2>5, <2>6
    <2>8. QED
      BY <2>1, <2>7
  <1>3. UNCHANGED <<settled, queue, sweep, loop, exec, inFlight, phase>>
    BY DEF Submit, pool
  <1>4. handlers' \subseteq Known' /\ settled' \subseteq Known' /\ inFlight' \subseteq Known'
    BY <1>2, <1>3 DEF AcceptedInv, Submit
  <1>5. \A s \in Seq(Known) : s \in Seq(Known')
    BY <1>2, SeqMonotonic
  <1>6. queue' \in Seq(Known') /\ Len(queue') <= QueueDepth
    BY <1>3, <1>5 DEF AcceptedInv
  <1>7. sweep' \in [Sweeper -> [at : SweepAt, ids : Seq(Known')]]
    BY <1>3, <1>5 DEF AcceptedInv
  <1>8. /\ loop' \in [at : LoopAt, id : Known' \union {NoId}] /\ (InHand' => loop'.id \in Known')
        /\ exec' \in [Goroutine -> [at : ExecAt, id : Known' \union {NoId}, wasParked : BOOLEAN]]
        /\ \A g \in Goroutine : exec'[g].at # "none" => exec'[g].id \in Known'
    BY <1>2, <1>3 DEF AcceptedInv, InHand
  <1>9. QED
    BY <1>2, <1>3, <1>4, <1>6, <1>7, <1>8 DEF AcceptedInv

\* Offer puts a known ID at the end of the queue or drops it.
LEMMA OfferTypes ==
    ASSUME AcceptedInv, NEW id \in Known, Offer(id)
    PROVE  queue' \in Seq(Known) /\ Len(queue') <= QueueDepth
  <1>1. queue \in Seq(Known) /\ Len(queue) \in Nat /\ Len(queue) <= QueueDepth /\ QueueDepth \in Nat
    BY DispatchAssumption DEF AcceptedInv
  <1>2. Append(queue, id) \in Seq(Known) /\ Len(Append(queue, id)) = Len(queue) + 1
    BY <1>1, AppendProperties
  <1>3. QED
    BY <1>1, <1>2 DEF Offer

\* The submit handlers, other processes and both sweeps.
LEMMA OfferAccepted ==
    ASSUME AcceptedInv,
           \/ \E id \in Id : Dispatch(id) \/ SettleElsewhere(id)
           \/ \E s \in Sweeper : BeginSweep(s) \/ SweepOne(s) \/ EndSweep(s)
    PROVE  AcceptedInv'
  <1>0. /\ created' = created /\ Known' = Known /\ UNCHANGED <<exec, inFlight, phase>>
        /\ sweep \in [Sweeper -> [at : SweepAt, ids : Seq(Known)]]
        /\ loop \in [at : LoopAt, id : Known \union {NoId}]
    BY DEF AcceptedInv, Dispatch, SettleElsewhere, BeginSweep, SweepOne, EndSweep, store, pool,
           Known
  <1>1. ASSUME NEW id \in Id, Dispatch(id) PROVE AcceptedInv'
    <2>1. id \in Known /\ Offer(id) /\ handlers' \subseteq Known
          /\ UNCHANGED <<settled, sweep, loop>>
      BY <1>1 DEF AcceptedInv, Dispatch, store
    <2>2. QED
      BY <1>0, <2>1, OfferTypes DEF AcceptedInv, InHand
  <1>2. ASSUME NEW id \in Id, SettleElsewhere(id) PROVE AcceptedInv'
    BY <1>0, <1>2 DEF AcceptedInv, SettleElsewhere, InHand, Known
  <1>3. ASSUME NEW s \in Sweeper, BeginSweep(s) PROVE AcceptedInv'
    <2>1. Runnable \in Seq(Known)
      BY RunnableFacts DEF AcceptedInv
    <2> DEFINE list == Runnable
    <2>0. list \in Seq(Known)
      BY <2>1
    <2> HIDE DEF list
    <2>2. \/ sweep' = [sweep EXCEPT ![s] = [at |-> "offering", ids |-> list]]
          \/ sweep' = [sweep EXCEPT ![s].at = "over"]
      BY <1>3 DEF BeginSweep, list
    <2>3. sweep' \in [Sweeper -> [at : SweepAt, ids : Seq(Known)]]
      <3>1. CASE sweep' = [sweep EXCEPT ![s] = [at |-> "offering", ids |-> list]]
        <4>1. [at |-> "offering", ids |-> list] \in [at : SweepAt, ids : Seq(Known)]
          BY <2>0 DEF SweepAt
        <4>2. QED
          BY <1>0, <3>1, <4>1
      <3>2. CASE sweep' = [sweep EXCEPT ![s].at = "over"]
        BY <1>0, <3>2 DEF SweepAt
      <3>3. QED
        BY <2>2, <3>1, <3>2
    <2>4. loop' = loop \/ loop' = [loop EXCEPT !.at = "sweeping"]
      BY <1>3 DEF BeginSweep
    <2>5. loop' \in [at : LoopAt, id : Known \union {NoId}] /\ (InHand' => InHand /\ loop'.id = loop.id)
      BY <1>0, <2>4 DEF LoopAt, InHand
    <2>6. UNCHANGED <<settled, handlers, queue>>
      BY <1>3 DEF BeginSweep, store
    <2>7. QED
      BY <1>0, <2>3, <2>5, <2>6 DEF AcceptedInv
  <1>4. ASSUME NEW s \in Sweeper, SweepOne(s) PROVE AcceptedInv'
    <2> DEFINE ids == sweep[s].ids
    <2>1. ids \in Seq(Known) /\ ids # <<>>
      BY <1>0, <1>4 DEF SweepOne
    <2>2. Head(ids) \in Known /\ Tail(ids) \in Seq(Known)
      BY <2>1, HeadTailProperties
    <2>3. sweep' = [sweep EXCEPT ![s].ids = Tail(ids)]
      BY <1>4 DEF SweepOne
    <2>4. queue' = queue \/ Offer(Head(ids))
      BY <1>4 DEF SweepOne
    <2>5. queue' \in Seq(Known) /\ Len(queue') <= QueueDepth
      BY <2>2, <2>4, OfferTypes DEF AcceptedInv
    <2> HIDE DEF ids
    <2>6. sweep' \in [Sweeper -> [at : SweepAt, ids : Seq(Known)]]
      BY <1>0, <2>2, <2>3
    <2>7. UNCHANGED <<settled, handlers, loop>>
      BY <1>4 DEF SweepOne, store
    <2>8. QED
      BY <1>0, <2>5, <2>6, <2>7 DEF AcceptedInv, InHand
  <1>5. ASSUME NEW s \in Sweeper, EndSweep(s) PROVE AcceptedInv'
    <2>1. sweep' \in [Sweeper -> [at : SweepAt, ids : Seq(Known)]]
      BY <1>0, <1>5 DEF EndSweep, SweepAt
    <2>2. loop' = loop \/ loop' = AtSelect
      BY <1>5 DEF EndSweep
    <2>3. loop' \in [at : LoopAt, id : Known \union {NoId}] /\ (InHand' => InHand /\ loop' = loop)
      BY <1>0, <2>2 DEF LoopAt, InHand, AtSelect
    <2>4. UNCHANGED <<settled, handlers, queue>>
      BY <1>5 DEF EndSweep, store
    <2>5. QED
      BY <1>0, <2>1, <2>3, <2>4 DEF AcceptedInv
  <1>6. QED
    BY <1>1, <1>2, <1>3, <1>4, <1>5

\* The loop's receive, and what it does with the ID in its hand.
LEMMA LoopAccepted ==
    ASSUME AcceptedInv, Take \/ TakeSlot \/ Park \/ LoopReturns
    PROVE  AcceptedInv'
  <1>0. /\ created' = created /\ Known' = Known /\ UNCHANGED <<settled, handlers, sweep, phase>>
        /\ loop \in [at : LoopAt, id : Known \union {NoId}]
        /\ exec \in [Goroutine -> [at : ExecAt, id : Known \union {NoId}, wasParked : BOOLEAN]]
    BY DEF AcceptedInv, Take, TakeSlot, Park, LoopReturns, store, Known
  <1>1. CASE Take
    <2>1. queue \in Seq(Known) /\ queue # <<>> /\ Len(queue) \in Nat /\ Len(queue) <= QueueDepth
          /\ QueueDepth \in Nat
      BY <1>1, DispatchAssumption DEF AcceptedInv, Take
    <2>2. Head(queue) \in Known /\ Tail(queue) \in Seq(Known) /\ Len(Tail(queue)) = Len(queue) - 1
      BY <2>1, HeadTailProperties
    <2>3. queue' = Tail(queue) /\ exec' = exec
      BY <1>1 DEF Take
    <2>4. queue' \in Seq(Known) /\ Len(queue') <= QueueDepth
      BY <2>1, <2>2, <2>3
    <2>5. \/ UNCHANGED <<loop, inFlight>>
          \/ /\ inFlight' = inFlight \union {Head(queue)}
             /\ loop' = [at |-> "marked", id |-> Head(queue)]
      BY <1>1 DEF Take, marks
    <2>6. /\ loop' \in [at : LoopAt, id : Known \union {NoId}]
          /\ (InHand' => loop'.id \in Known) /\ inFlight' \subseteq Known
      BY <1>0, <2>2, <2>5 DEF AcceptedInv, LoopAt, InHand
    <2>7. QED
      BY <1>0, <2>3, <2>4, <2>6 DEF AcceptedInv
  <1>2. CASE LoopReturns
    <2>1. UNCHANGED <<queue, exec, inFlight>> /\ loop' = [loop EXCEPT !.at = "returned"]
      BY <1>2 DEF LoopReturns, pool
    <2>2. loop' \in [at : LoopAt, id : Known \union {NoId}] /\ ~InHand'
      BY <1>0, <2>1 DEF LoopAt, InHand
    <2>3. QED
      BY <1>0, <2>1, <2>2 DEF AcceptedInv
  <1>3. CASE TakeSlot \/ Park
    <2>1. InHand /\ loop.id \in Known /\ queue' = queue
      BY <1>3 DEF AcceptedInv, TakeSlot, Park, InHand
    <2>2. inFlight' \subseteq Known
      BY <1>3 DEF AcceptedInv, TakeSlot, Park, marks, Drop
    <2>3. \/ /\ exec' = exec
             /\ loop' = AtSelect \/ loop' = [loop EXCEPT !.at = "full"]
          \/ Spawn("running", FALSE) \/ Spawn("waiting", TRUE)
      BY <1>3 DEF TakeSlot, Park
    <2>4. CASE exec' = exec /\ (loop' = AtSelect \/ loop' = [loop EXCEPT !.at = "full"])
      <3>1. loop' \in [at : LoopAt, id : Known \union {NoId}] /\ (InHand' => loop'.id \in Known)
        BY <1>0, <2>1, <2>4 DEF LoopAt, InHand, AtSelect
      <3>2. QED
        BY <1>0, <2>1, <2>2, <2>4, <3>1 DEF AcceptedInv
    <2>5. ASSUME NEW at \in {"running", "waiting"}, NEW p \in BOOLEAN, Spawn(at, p)
          PROVE  AcceptedInv'
      <3>1. PICK g \in Goroutine :
              exec' = [exec EXCEPT ![g] = [at |-> at, id |-> loop.id, wasParked |-> p]]
        <4>1. {h \in Goroutine : exec[h].at = "none"} # {}
          BY <2>5 DEF Spawn
        <4>2. (CHOOSE h \in {h \in Goroutine : exec[h].at = "none"} : TRUE) \in Goroutine
          BY <4>1
        <4>3. QED
          BY <2>5, <4>2 DEF Spawn
      <3>2. loop' = AtSelect
        BY <2>5 DEF Spawn
      <3>3. loop' \in [at : LoopAt, id : Known \union {NoId}] /\ ~InHand'
        BY <3>2 DEF LoopAt, InHand, AtSelect
      <3>4. /\ exec' \in [Goroutine -> [at : ExecAt, id : Known \union {NoId},
                                        wasParked : BOOLEAN]]
            /\ \A h \in Goroutine : exec'[h] = exec[h] \/ exec'[h].id = loop.id
        BY <1>0, <2>1, <3>1 DEF ExecAt
      <3>5. \A h \in Goroutine : exec'[h].at # "none" => exec'[h].id \in Known
        BY <2>1, <3>4 DEF AcceptedInv
      <3>6. QED
        BY <1>0, <2>1, <2>2, <3>3, <3>4, <3>5 DEF AcceptedInv
    <2>6. QED
      BY <2>3, <2>4, <2>5
  <1>4. QED
    BY <1>1, <1>2, <1>3

\* An executor goes on, or ends.
LEMMA ExecAccepted ==
    ASSUME AcceptedInv, NEW g \in Goroutine, ExecStep(g)
    PROVE  AcceptedInv'
  <1>0. /\ created' = created /\ Known' = Known /\ UNCHANGED <<handlers, queue, sweep, loop, phase>>
        /\ exec \in [Goroutine -> [at : ExecAt, id : Known \union {NoId}, wasParked : BOOLEAN]]
        /\ exec[g].at # "none"
    BY DEF AcceptedInv, ExecStep, GetSlot, GiveUp, RunSettles, RunLeaves, FreeSlot, Unpark,
           Unmark, store, Known
  <1>1. exec[g].id \in Known
    BY <1>0 DEF AcceptedInv
  <1>2. settled' \subseteq Known /\ inFlight' \subseteq Known
    BY <1>1 DEF AcceptedInv, ExecStep, GetSlot, GiveUp, RunSettles, RunLeaves, FreeSlot, Unpark,
                Unmark, store, pool, marks
  <1>3. \/ exec' = [exec EXCEPT ![g] = NoExec]
        \/ \E at \in ExecAt : exec' = [exec EXCEPT ![g].at = at]
    BY DEF ExecStep, GetSlot, GiveUp, RunSettles, RunLeaves, FreeSlot, Unpark, Unmark, GoTo,
           OnCancel, ExecAt
  <1>4. /\ exec' \in [Goroutine -> [at : ExecAt, id : Known \union {NoId}, wasParked : BOOLEAN]]
        /\ \A h \in Goroutine : exec'[h].at # "none" => exec'[h].id \in Known
    <2>1. CASE exec' = [exec EXCEPT ![g] = NoExec]
      BY <1>0, <2>1 DEF AcceptedInv, NoExec, ExecAt
    <2>2. ASSUME NEW at \in ExecAt, exec' = [exec EXCEPT ![g].at = at]
          PROVE  /\ exec' \in [Goroutine -> [at : ExecAt, id : Known \union {NoId},
                                             wasParked : BOOLEAN]]
                 /\ \A h \in Goroutine : exec'[h].at # "none" => exec'[h].id \in Known
      <3>1. \A h \in Goroutine : h # g => exec'[h] = exec[h]
        BY <1>0, <2>2
      <3>2. exec'[g].id = exec[g].id
        BY <1>0, <2>2
      <3>3. QED
        BY <1>0, <1>1, <2>2, <3>1, <3>2 DEF AcceptedInv
    <2>3. QED
      BY <1>3, <2>1, <2>2
  <1>5. QED
    BY <1>0, <1>2, <1>4 DEF AcceptedInv, InHand

LEMMA AcceptedStep == AcceptedInv /\ [Next]_vars => AcceptedInv'
  <1> SUFFICES ASSUME AcceptedInv, [Next]_vars PROVE AcceptedInv'
    OBVIOUS
  <1>1. CASE Stop \/ StopReturns
    BY <1>1 DEF Stop, StopReturns, AcceptedInv, store, pool, InHand, Known
  <1>2. CASE UNCHANGED vars
    BY <1>2 DEF vars, AcceptedInv, store, pool, InHand, Known
  <1>3. QED
    BY <1>1, <1>2, SubmitAccepted, OfferAccepted, LoopAccepted, ExecAccepted
       DEF Next, LoopStep, Sweeper

\* submit.go creates the row and only then dispatches: the pipeline never queues,
\* marks or executes a submission that has no row, and a sweep lists rows only.
THEOREM OnlyAccepted == Spec => []WorksOnAccepted
  <1>1. AcceptedInv => WorksOnAccepted
    BY DEF AcceptedInv, WorksOnAccepted, Working, Executors
  <1>2. QED
    BY <1>1, AcceptedInit, AcceptedStep, PTL DEF Spec

\* The state of the pipeline keeps its types, and no channel holds more than its
\* capacity (service.go, NewService).
THEOREM DispatchTyped == Spec => []TypeOK
  <1>1. AcceptedInv /\ IInv /\ WithinCapacity => TypeOK
    <2> SUFFICES ASSUME AcceptedInv, IInv, WithinCapacity PROVE TypeOK
      OBVIOUS
    <2>1. Known \subseteq Id
      BY DEF AcceptedInv, Known, ToSet
    <2>2. \A s \in Seq(Known) : s \in Seq(Id)
      BY <2>1, SeqMonotonic
    <2>3. slots \in Nat /\ parked \in Nat /\ wg \in Nat
      BY Accounts, Counted DEF IInv
    <2>4. slots \in 0..MaxInFlight /\ parked \in 0..MaxInFlight
      BY <2>3, DispatchAssumption DEF WithinCapacity
    <2>5. /\ sweep \in [Sweeper -> [at : {"due", "offering", "over"}, ids : Seq(Id)]]
          /\ queue \in Seq(Id)
      BY <2>2 DEF AcceptedInv, SweepAt
    <2>6. /\ loop \in [at : {"select", "marked", "full", "sweeping", "returned"},
                       id : Id \union {NoId}]
          /\ exec \in [Goroutine -> [at : ExecAt, id : Id \union {NoId}, wasParked : BOOLEAN]]
      BY <2>1 DEF AcceptedInv, LoopAt
    <2>7. QED
      BY <2>1, <2>3, <2>4, <2>5, <2>6 DEF AcceptedInv, TypeOK
  <1>2. QED
    BY <1>1, AcceptedInit, AcceptedStep, DispatchInductive, CapacityHolds, PTL DEF Spec

=============================================================================
