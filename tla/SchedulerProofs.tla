--------------------------- MODULE SchedulerProofs ---------------------------
(***************************************************************************)
(* The safety properties of the scheduler, and that it implements Actors,  *)
(* for every size of the process table, every number of generations and    *)
(* every bound of the model.                                               *)
(***************************************************************************)
EXTENDS SchedulerProperties, SchedulerRefinement, ListsProofs

(***************************************************************************)
(* Pids: the parts can be read back, and distinct slots and generations    *)
(* have distinct pids, for all widths.                                     *)
(***************************************************************************)

\* A quotient and a remainder are unique.
LEMMA DivModUnique ==
  ASSUME NEW b \in Nat \ {0}, NEW q \in Nat, NEW r \in 0 .. b - 1
  PROVE  (q * b + r) \div b = q /\ (q * b + r) % b = r
<1> DEFINE a == q * b + r
           d == a \div b
           m == a % b
<1>1. a \in Nat
  <2>1. q * b \in Nat
    OBVIOUS
  <2> QED BY <2>1
<1>2. d \in Int /\ m \in 0 .. b - 1 /\ a = b * d + m
  BY <1>1
<1> HIDE DEF d, m
<1>3. q * b + r = b * d + m
  BY <1>2
<1>4. ~(d >= q + 1)
  <2> SUFFICES ASSUME d >= q + 1 PROVE FALSE
    OBVIOUS
  <2>1. b * d >= b * (q + 1)
    BY <1>2
  <2>2. b * (q + 1) = q * b + b
    OBVIOUS
  <2> QED BY <1>2, <1>3, <2>1, <2>2
<1>5. ~(d + 1 <= q)
  <2> SUFFICES ASSUME d + 1 <= q PROVE FALSE
    OBVIOUS
  <2>1. b * (d + 1) <= b * q
    BY <1>2
  <2>2. b * (d + 1) = b * d + b
    BY <1>2
  <2> QED BY <1>2, <1>3, <2>1, <2>2
<1>6. d = q
  BY <1>2, <1>4, <1>5
<1>7. m = r
  BY <1>2, <1>3, <1>6
<1> QED BY <1>6, <1>7 DEF d, m

\* A remainder is below its modulus, and 0 or more.
LEMMA ModBounds ==
  ASSUME NEW a \in Nat, NEW b \in Nat \ {0}
  PROVE  a % b \in 0 .. b - 1
OBVIOUS

\* The index starts above the generation.
LEMMA IdxUnitPositive == IdxUnit \in Nat \ {0}
BY PidAssumption DEF IdxUnit

\* What a generation adds to a pid does not reach the index.
LEMMA GenBelowIdx ==
  ASSUME NEW g \in 0 .. NumGens - 1
  PROVE  g * PidUnit \in 0 .. IdxUnit - 1
<1>1. NumGens \in Nat /\ PidUnit \in Nat /\ PidUnit >= 1
  BY PidAssumption
<1>2. g \in Nat /\ g + 1 <= NumGens
  BY <1>1
<1>3. (g + 1) * PidUnit <= NumGens * PidUnit
  BY <1>1, <1>2
<1>4. (g + 1) * PidUnit = g * PidUnit + PidUnit
  BY <1>1, <1>2
<1>5. g * PidUnit \in Nat /\ NumGens * PidUnit \in Nat
  BY <1>1, <1>2
<1> QED BY <1>1, <1>3, <1>4, <1>5 DEF IdxUnit

\* The index and the generation of a pid are the ones it was made from.
THEOREM PidRoundTrip ==
  ASSUME NEW i \in Nat, NEW g \in 0 .. NumGens - 1
  PROVE  /\ apid_from(i, g) \in Nat
         /\ apid_idx(apid_from(i, g)) = i
         /\ apid_gen(apid_from(i, g)) = g
<1> DEFINE low == g * PidUnit
<1>1. low \in 0 .. IdxUnit - 1
  BY GenBelowIdx
<1>2. apid_from(i, g) = i * IdxUnit + low
  BY DEF apid_from
<1> HIDE DEF low
<1>3. /\ apid_idx(apid_from(i, g)) = i
      /\ apid_from(i, g) % IdxUnit = low
  BY <1>1, <1>2, DivModUnique, IdxUnitPositive DEF apid_idx
<1>4. i * IdxUnit \in Nat
  BY IdxUnitPositive
<1>5. apid_from(i, g) \in Nat
  BY <1>1, <1>2, <1>4, IdxUnitPositive
<1>6. g \in Nat /\ 0 \in 0 .. PidUnit - 1
  BY PidAssumption
<1>7. (g * PidUnit + 0) \div PidUnit = g
  BY <1>6, DivModUnique, PidAssumption
<1>8. g * PidUnit + 0 = low
  BY <1>1, <1>6, PidAssumption DEF low
<1>9. apid_gen(apid_from(i, g)) = g
  BY <1>3, <1>7, <1>8 DEF apid_gen
<1> QED BY <1>3, <1>5, <1>9

\* The generations of consecutive lives are consecutive, around the clock.
LEMMA ModSucc ==
  ASSUME NEW a \in Nat, NEW b \in Nat \ {0}
  PROVE  ((a % b) + 1) % b = (a + 1) % b
<1> DEFINE q == a \div b
           m == a % b
<1>1. q \in Nat /\ m \in 0 .. b - 1 /\ a = q * b + m
  OBVIOUS
<1> HIDE DEF q, m
<1>2. CASE m + 1 < b
  <2>1. m + 1 \in 0 .. b - 1
    BY <1>1, <1>2
  <2>2. (q * b + (m + 1)) % b = m + 1
    BY <1>1, <2>1, DivModUnique
  <2>3. (0 * b + (m + 1)) % b = m + 1
    BY <2>1, DivModUnique
  <2>4. q * b \in Nat
    BY <1>1
  <2>5. q * b + (m + 1) = a + 1 /\ 0 * b + (m + 1) = m + 1
    BY <1>1, <2>4
  <2> QED BY <2>2, <2>3, <2>5 DEF m
<1>3. CASE m + 1 = b
  <2>1. 0 \in 0 .. b - 1 /\ q + 1 \in Nat
    BY <1>1
  <2>2. ((q + 1) * b + 0) % b = 0
    BY <2>1, DivModUnique
  <2>3. (1 * b + 0) % b = 0
    BY <2>1, DivModUnique
  <2>4. q * b \in Nat /\ (q + 1) * b = q * b + b
    BY <1>1
  <2>5. (q + 1) * b + 0 = a + 1 /\ 1 * b + 0 = m + 1
    BY <1>1, <1>3, <2>4
  <2> QED BY <2>2, <2>3, <2>5 DEF m
<1> QED BY <1>1, <1>2, <1>3

\* Two lives of the same generation are the same, or a whole turn apart.
LEMMA SameGeneration ==
  ASSUME NEW a \in Nat, NEW c \in Nat, NEW b \in Nat \ {0},
         a <= c, a % b = c % b
  PROVE  a = c \/ c - a >= b
<1> DEFINE m == a % b
           q == a \div b
           r == c \div b
<1>1. q \in Nat /\ r \in Nat /\ m \in 0 .. b - 1
      /\ a = q * b + m /\ c = r * b + m
  OBVIOUS
<1> HIDE DEF q, m, r
<1>2. CASE r = q
  BY <1>1, <1>2
<1>3. CASE r >= q + 1
  <2>1. r * b >= (q + 1) * b
    BY <1>1, <1>3
  <2>2. (q + 1) * b = q * b + b /\ q * b \in Nat /\ r * b \in Nat
    BY <1>1
  <2> QED BY <1>1, <2>1, <2>2
<1>4. CASE r + 1 <= q
  <2>1. (r + 1) * b <= q * b
    BY <1>1, <1>4
  <2>2. (r + 1) * b = r * b + b /\ q * b \in Nat /\ r * b \in Nat
    BY <1>1
  <2> QED BY <1>1, <2>1, <2>2
<1> QED BY <1>1, <1>2, <1>3, <1>4

\* The pid 0 of a slot that was never used is of generation 0.
LEMMA ZeroGeneration == apid_gen(0) = 0 /\ 0 \in 0 .. NumGens - 1
<1>1. 0 \in 0 .. NumGens - 1
  BY PidAssumption
<1>2. apid_gen(apid_from(0, 0)) = 0
  BY <1>1, PidRoundTrip
<1>3. apid_from(0, 0) = 0
  BY PidAssumption, IdxUnitPositive DEF apid_from
<1> QED BY <1>1, <1>2, <1>3
-----------------------------------------------------------------------------
(***************************************************************************)
(* The scheduler.                                                          *)
(***************************************************************************)

\* The structure of the process table: the inductive invariant on which all
\* the others are built.  The type of cur rests on the lists (the next task
\* is read from the links), and the lists on the type of pc.
Struct == TypeOK /\ ListsPartitionProcesses
-----------------------------------------------------------------------------
(***************************************************************************)
(* Helpers of the actions.                                                 *)
(***************************************************************************)

\* The root task is no slot of the table.
LEMMA RootIsNoProcess == Root \notin Procs
BY DEF Root, Procs

\* The task a process switches to is the root or another runnable process.
LEMMA NextTaskProperties ==
  ASSUME runnings \in Seq(Procs), NoDup(runnings), NEW p \in Range(runnings)
  PROVE  NextTask(p) = Root \/ NextTask(p) \in Range(runnings) \ {p}
<1>1. Len(runnings) \in Nat /\ DOMAIN runnings = 1 .. Len(runnings)
  BY LenProperties
<1>2. \E i \in 1 .. Len(runnings) : runnings[i] = p
  BY <1>1 DEF Range
<1> DEFINE i == CHOOSE i \in 1 .. Len(runnings) : runnings[i] = p
<1>3. i \in 1 .. Len(runnings) /\ runnings[i] = p
  BY <1>2
<1>4. NextTask(p) = IF i < Len(runnings) THEN runnings[i + 1] ELSE Root
  BY DEF NextTask
<1> HIDE DEF i
<1>5. CASE i < Len(runnings)
  <2>1. i + 1 \in 1 .. Len(runnings) /\ i + 1 # i
    BY <1>1, <1>3, <1>5
  <2>2. runnings[i + 1] \in Range(runnings)
    BY <1>1, <2>1 DEF Range
  <2>3. runnings[i + 1] # p
    BY <1>3, <2>1 DEF NoDup
  <2> QED BY <1>4, <1>5, <2>2, <2>3
<1> QED BY <1>4, <1>5

\* A process leaves the list it is in and becomes the last runnable one.
LEMMA AddToRunnings ==
  ASSUME TypeOK, ListsPartitionProcesses, NEW p \in Procs, add_to_runnings(p)
  PROVE  /\ pendings' \in Seq(Procs) /\ NoDup(pendings')
         /\ runnings' \in Seq(Procs) /\ NoDup(runnings')
         /\ waitings' \in Seq(Procs) /\ NoDup(waitings')
         /\ Range(pendings') = Range(pendings) \ {p}
         /\ Range(runnings') = Range(runnings) \cup {p}
         /\ Range(waitings') = Range(waitings) \ {p}
<1>1. /\ pendings \in Seq(Procs) /\ NoDup(pendings)
      /\ runnings \in Seq(Procs) /\ NoDup(runnings)
      /\ waitings \in Seq(Procs) /\ NoDup(waitings)
  BY DEF TypeOK, TypeLists, TypeControl, ListsPartitionProcesses
<1>2. /\ Erase(pendings, p) \in Seq(Procs) /\ NoDup(Erase(pendings, p))
      /\ Range(Erase(pendings, p)) = Range(pendings) \ {p}
  BY <1>1, EraseProperties
<1>3. /\ Erase(waitings, p) \in Seq(Procs) /\ NoDup(Erase(waitings, p))
      /\ Range(Erase(waitings, p)) = Range(waitings) \ {p}
  BY <1>1, EraseProperties
<1>4. /\ Erase(runnings, p) \in Seq(Procs) /\ NoDup(Erase(runnings, p))
      /\ Range(Erase(runnings, p)) = Range(runnings) \ {p}
  BY <1>1, EraseProperties
<1>5. p \notin Range(Erase(runnings, p))
  BY <1>4
<1>6. /\ Append(Erase(runnings, p), p) \in Seq(Procs)
      /\ Range(Append(Erase(runnings, p), p)) = Range(Erase(runnings, p)) \cup {p}
      /\ NoDup(Append(Erase(runnings, p), p))
  BY <1>4, <1>5, AppendNoDup
<1> QED BY <1>2, <1>3, <1>4, <1>6 DEF add_to_runnings

\* The running process moves to the end of waitings.
LEMMA WaitForMoves ==
  ASSUME TypeOK, ListsPartitionProcesses, cur # Root,
         NEW usecs \in Int, NEW on_msg \in BOOLEAN,
         wait_for_(cur, usecs, on_msg)
  PROVE  /\ runnings' \in Seq(Procs) /\ NoDup(runnings')
         /\ waitings' \in Seq(Procs) /\ NoDup(waitings')
         /\ Range(runnings') = Range(runnings) \ {cur}
         /\ Range(waitings') = Range(waitings) \cup {cur}
         /\ cur \in Range(runnings)
         /\ cur' = Root \/ cur' \in Range(runnings')
<1>1. /\ runnings \in Seq(Procs) /\ NoDup(runnings)
      /\ waitings \in Seq(Procs) /\ NoDup(waitings)
      /\ cur \in Range(runnings) /\ cur \in Procs /\ cur \notin Range(waitings)
  BY DEF TypeOK, TypeLists, TypeControl, ListsPartitionProcesses
<1>2. /\ Erase(runnings, cur) \in Seq(Procs) /\ NoDup(Erase(runnings, cur))
      /\ Range(Erase(runnings, cur)) = Range(runnings) \ {cur}
  BY <1>1, EraseProperties
<1>3. /\ Append(waitings, cur) \in Seq(Procs)
      /\ Range(Append(waitings, cur)) = Range(waitings) \cup {cur}
      /\ NoDup(Append(waitings, cur))
  BY <1>1, AppendNoDup
<1>4. NextTask(cur) = Root \/ NextTask(cur) \in Range(runnings) \ {cur}
  BY <1>1, NextTaskProperties
<1> QED BY <1>1, <1>2, <1>3, <1>4 DEF wait_for_

\* A new process has a fresh pid, no period and no wish to be woken.
LEMMA AllocTypes ==
  ASSUME TypeOK, NEW p \in Procs, ascheduler_alloc(p)
  PROVE  /\ dead[p] /\ dead' = [dead EXCEPT ![p] = FALSE]
         /\ dead' \in [Procs -> BOOLEAN]
         /\ pid' \in [Procs -> Nat]
         /\ wait_for' \in [Procs -> Int]
         /\ wake_on_msg' \in [Procs -> BOOLEAN]
         /\ next_idx' \in Procs
         /\ num_procs' \in Int
         /\ lives' \in [Procs -> Nat]
         /\ nap' \in [Procs -> [usecs : Int, slept : Nat, credit : Nat]]
<1>1. pid[p] \in Nat /\ p \in Nat
  BY PidAssumption DEF TypeOK, TypeTable, Procs
<1>2. apid_gen(pid[p]) \in Nat
  <2>1. pid[p] % IdxUnit \in Nat
    BY <1>1, IdxUnitPositive, ModBounds
  <2> QED BY <2>1, PidAssumption DEF apid_gen
<1>3. (apid_gen(pid[p]) + 1) % NumGens \in 0 .. NumGens - 1
  <2>1. apid_gen(pid[p]) + 1 \in Nat
    BY <1>2
  <2> QED BY <2>1, PidAssumption, ModBounds
<1>4. apid_from(p, (apid_gen(pid[p]) + 1) % NumGens) \in Nat
  BY <1>1, <1>3, PidRoundTrip
<1>5. (p + 1) % NumProcs \in Procs
  <2>1. p + 1 \in Nat
    BY <1>1
  <2> QED BY <2>1, PidAssumption, ModBounds DEF Procs
<1>6. /\ dead[p] /\ dead' = [dead EXCEPT ![p] = FALSE]
      /\ pid' = [pid EXCEPT ![p] =
                    apid_from(p, (apid_gen(pid[p]) + 1) % NumGens)]
      /\ wait_for' = [wait_for EXCEPT ![p] = 0]
      /\ wake_on_msg' = [wake_on_msg EXCEPT ![p] = FALSE]
      /\ next_idx' = (p + 1) % NumProcs
      /\ num_procs' = num_procs + 1
      /\ lives' = [lives EXCEPT ![p] = @ + 1]
      /\ nap' = nap
  BY DEF ascheduler_alloc, NextGen
<1> HIDE DEF ascheduler_alloc
<1>7. dead' \in [Procs -> BOOLEAN] /\ wake_on_msg' \in [Procs -> BOOLEAN]
  BY <1>6 DEF TypeOK, TypeTable, TypeWaits
<1>8. pid' \in [Procs -> Nat]
  BY <1>4, <1>6 DEF TypeOK, TypeTable, TypeWaits
<1>9. /\ wait_for' \in [Procs -> Int] /\ lives' \in [Procs -> Nat]
      /\ next_idx' \in Procs /\ num_procs' \in Int
  <2>1. wait_for' \in [Procs -> Int]
    BY <1>6 DEF TypeOK, TypeTable, TypeWaits
  <2>2. lives' \in [Procs -> Nat]
    <3>1. lives \in [Procs -> Nat]
      BY DEF TypeOK, TypeTable, TypeWaits
    <3> QED BY <1>6, <3>1
  <2>3. next_idx' \in Procs
    BY <1>5, <1>6
  <2>4. num_procs' \in Int
    BY <1>6 DEF TypeOK, TypeTable, TypeWaits
  <2> QED BY <2>1, <2>2, <2>3, <2>4
<1>10. nap' \in [Procs -> [usecs : Int, slept : Nat, credit : Nat]]
  BY <1>6 DEF TypeOK, TypeTable, TypeWaits
<1> QED BY <1>6, <1>7, <1>8, <1>9, <1>10
-----------------------------------------------------------------------------
(***************************************************************************)
(* Type correctness and the lists, by one lemma for each group of actions. *)
(***************************************************************************)

\* The table is empty at first.
LEMMA InitStruct == Init => Struct
<1> SUFFICES ASSUME Init PROVE Struct
  OBVIOUS
<1>1. <<>> \in Seq(Procs) /\ <<>> \in Seq(Msgs)
      /\ Range(<<>>) = {} /\ NoDup(<<>>)
  BY DEF Range, NoDup
<1>2. 0 \in Procs
  BY PidAssumption DEF Procs
<1>3. TypeTable /\ TypeLists
  BY <1>1, <1>2 DEF Init, TypeTable, TypeLists
<1>4. TypeWaits
  BY DEF Init, TypeWaits, NoNap, AINFINITE
<1>5. TypeMail /\ TypeControl
  BY <1>1 DEF Init, TypeMail, TypeControl, Pcs
<1>6. ListsPartitionProcesses
  BY <1>1 DEF Init, ListsPartitionProcesses
<1> QED BY <1>3, <1>4, <1>5, <1>6 DEF Struct, TypeOK

\* The slot of a new process was dead, hence in no list.
LEMMA AllocatedIsUnlinked ==
  ASSUME Struct, NEW p \in Procs, ascheduler_alloc(p)
  PROVE  /\ p \notin Range(pendings)
         /\ p \notin Range(runnings)
         /\ p \notin Range(waitings)
         /\ dead[p] /\ pc[p] = "none" /\ cur # p
<1>1. dead[p]
  BY DEF ascheduler_alloc
<1>2. pc[p] = "none"
  BY <1>1 DEF Struct, ListsPartitionProcesses
<1>3. p \notin Range(pendings) /\ p \notin Range(runnings) \cup Range(waitings)
  BY <1>2 DEF Struct, ListsPartitionProcesses
<1>4. cur # p
  BY <1>3, RootIsNoProcess DEF Struct, ListsPartitionProcesses
<1> QED BY <1>1, <1>2, <1>3, <1>4

\* The types of what every creation writes.
LEMMA CreateTypes ==
  ASSUME Struct, NEW p \in Procs, ascheduler_alloc(p),
         UNCHANGED <<up, cur, time>>,
         aactor_init(p) \/ UNCHANGED mail,
         Issue(p) \/ UNCHANGED issued,
         UNCHANGED pc \/ \E s \in Pcs : pc' = [pc EXCEPT ![p] = s]
  PROVE  TypeTable' /\ TypeWaits' /\ TypeMail' /\ TypeControl'
<1>1. TypeOK
  BY DEF Struct
<1>2. /\ dead' \in [Procs -> BOOLEAN]
      /\ pid' \in [Procs -> Nat]
      /\ wait_for' \in [Procs -> Int]
      /\ wake_on_msg' \in [Procs -> BOOLEAN]
      /\ next_idx' \in Procs
      /\ num_procs' \in Int
      /\ lives' \in [Procs -> Nat]
      /\ nap' \in [Procs -> [usecs : Int, slept : Nat, credit : Nat]]
  BY <1>1, AllocTypes
<1>3. issued' \subseteq [pid : Nat, proc : Procs, life : Nat]
  <2>1. issued \subseteq [pid : Nat, proc : Procs, life : Nat]
    BY <1>1 DEF TypeOK, TypeTable
  <2>2. pid'[p] \in Nat /\ lives'[p] \in Nat
    BY <1>2
  <2> QED BY <2>1, <2>2 DEF Issue
<1>4. TypeTable'
  BY <1>2, <1>3 DEF TypeTable
<1>5. TypeWaits'
  BY <1>2 DEF TypeWaits
<1>6. TypeMail'
  <2>1. msbox \in [Procs -> Seq(Msgs)] /\ msg_pp \in [Procs -> Nat]
    BY <1>1 DEF TypeOK, TypeMail
  <2>2. <<>> \in Seq(Msgs) /\ Len(<<>>) = 0
    OBVIOUS
  <2>3. \A q \in Procs : msg_pp[q] <= Len(msbox[q])
    BY <1>1 DEF TypeOK, TypeMail
  <2>4. CASE aactor_init(p)
    BY <2>1, <2>2, <2>3, <2>4 DEF aactor_init, TypeMail
  <2>5. CASE UNCHANGED mail
    BY <2>1, <2>3, <2>5 DEF mail, TypeMail
  <2> QED BY <2>4, <2>5
<1>7. TypeControl'
  BY <1>1 DEF TypeOK, TypeControl, time
<1> QED BY <1>4, <1>5, <1>6, <1>7

\* Creating a process links it in one list at most.
LEMMA CreateStruct ==
  ASSUME Struct, Create
  PROVE  Struct'
<1>0. /\ TypeLists /\ pendings \in Seq(Procs) /\ runnings \in Seq(Procs)
      /\ ListsPartitionProcesses
      /\ pc \in [Procs -> Pcs] /\ dead \in [Procs -> BOOLEAN]
  BY DEF Struct, TypeOK, TypeLists, TypeControl, TypeTable
<1>1. CASE HostNewActor
  <2>1. PICK p \in Procs :
          /\ ascheduler_alloc(p)
          /\ aactor_init(p)
          /\ Issue(p)
          /\ pc' = [pc EXCEPT ![p] = "new"]
          /\ pendings' = Append(pendings, p)
    BY <1>1 DEF HostNewActor
  <2>2. UNCHANGED <<up, cur, runnings, waitings, time>>
    BY <1>1 DEF HostNewActor
  <2>3. TypeTable' /\ TypeWaits' /\ TypeMail' /\ TypeControl'
    BY <2>1, <2>2, CreateTypes DEF Pcs
  <2>4. /\ pendings' \in Seq(Procs) /\ Range(pendings') = Range(pendings) \cup {p}
        /\ NoDup(pendings')
    BY <1>0, <2>1, AppendNoDup, AllocatedIsUnlinked DEF ListsPartitionProcesses
  <2>5. TypeLists'
    BY <1>0, <2>2, <2>4 DEF TypeLists
  <2>6. ListsPartitionProcesses'
    BY <1>0, <2>1, <2>2, <2>4, AllocatedIsUnlinked
    DEF ListsPartitionProcesses, ascheduler_alloc
  <2> QED BY <2>3, <2>5, <2>6 DEF Struct, TypeOK
<1>2. CASE SpawnStarted
  <2>1. PICK p \in Procs :
          /\ ascheduler_alloc(p)
          /\ aactor_init(p)
          /\ Issue(p)
          /\ pc' = [pc EXCEPT ![p] = "run"]
          /\ runnings' = Append(runnings, p)
    BY <1>2 DEF SpawnStarted
  <2>2. UNCHANGED <<up, cur, pendings, waitings, time>>
    BY <1>2 DEF SpawnStarted
  <2>3. TypeTable' /\ TypeWaits' /\ TypeMail' /\ TypeControl'
    BY <2>1, <2>2, CreateTypes DEF Pcs
  <2>4. /\ runnings' \in Seq(Procs) /\ Range(runnings') = Range(runnings) \cup {p}
        /\ NoDup(runnings')
    BY <1>0, <2>1, AppendNoDup, AllocatedIsUnlinked DEF ListsPartitionProcesses
  <2>5. TypeLists'
    BY <1>0, <2>2, <2>4 DEF TypeLists
  <2>6. ListsPartitionProcesses'
    BY <1>0, <2>1, <2>2, <2>4, AllocatedIsUnlinked
    DEF ListsPartitionProcesses, ascheduler_alloc
  <2> QED BY <2>3, <2>5, <2>6 DEF Struct, TypeOK
<1>3. CASE SpawnStuck
  <2>1. PICK p \in Procs :
          /\ ascheduler_alloc(p)
          /\ aactor_init(p)
          /\ pc' = [pc EXCEPT ![p] = "stuck"]
          /\ pendings' = Append(pendings, p)
    BY <1>3 DEF SpawnStuck
  <2>2. UNCHANGED <<up, cur, runnings, waitings, issued, time>>
    BY <1>3 DEF SpawnStuck
  <2>3. TypeTable' /\ TypeWaits' /\ TypeMail' /\ TypeControl'
    BY <2>1, <2>2, CreateTypes DEF Pcs
  <2>4. /\ pendings' \in Seq(Procs) /\ Range(pendings') = Range(pendings) \cup {p}
        /\ NoDup(pendings')
    BY <1>0, <2>1, AppendNoDup, AllocatedIsUnlinked DEF ListsPartitionProcesses
  <2>5. TypeLists'
    BY <1>0, <2>2, <2>4 DEF TypeLists
  <2>6. ListsPartitionProcesses'
    BY <1>0, <2>1, <2>2, <2>4, AllocatedIsUnlinked
    DEF ListsPartitionProcesses, ascheduler_alloc
  <2> QED BY <2>3, <2>5, <2>6 DEF Struct, TypeOK
<1>4. CASE SpawnNoTask
  <2>1. PICK p \in Procs : ascheduler_alloc(p)
    BY <1>4 DEF SpawnNoTask
  <2>2. UNCHANGED <<up, cur, pc, lists, issued, mail, time>>
    BY <1>4 DEF SpawnNoTask
  <2>3. TypeTable' /\ TypeWaits' /\ TypeMail' /\ TypeControl'
    BY <2>1, <2>2, CreateTypes
  <2>5. TypeLists'
    BY <1>0, <2>2 DEF TypeLists, lists
  <2>6. ListsPartitionProcesses'
    BY <1>0, <2>1, <2>2, AllocatedIsUnlinked
    DEF ListsPartitionProcesses, ascheduler_alloc, lists
  <2> QED BY <2>3, <2>5, <2>6 DEF Struct, TypeOK
<1> QED BY <1>1, <1>2, <1>3, <1>4 DEF Create

\* A process is started.
LEMMA HostStartStruct ==
  ASSUME Struct, NEW p \in Procs, HostStart(p)
  PROVE  Struct'
<1>1. /\ pc[p] = "new" /\ pc' = [pc EXCEPT ![p] = "run"]
      /\ cur = Root
      /\ add_to_runnings(p)
      /\ UNCHANGED <<up, cur, table, waits, mail, time>>
  BY DEF HostStart, HostCalls
<1>2. /\ pendings' \in Seq(Procs) /\ NoDup(pendings')
      /\ runnings' \in Seq(Procs) /\ NoDup(runnings')
      /\ waitings' \in Seq(Procs) /\ NoDup(waitings')
      /\ Range(pendings') = Range(pendings) \ {p}
      /\ Range(runnings') = Range(runnings) \cup {p}
      /\ Range(waitings') = Range(waitings) \ {p}
  BY <1>1, AddToRunnings DEF Struct
<1>3. TypeTable' /\ TypeWaits' /\ TypeMail'
  BY <1>1 DEF Struct, TypeOK, TypeTable, TypeWaits, TypeMail, table, waits, mail
<1>4. TypeLists' /\ TypeControl'
  BY <1>1, <1>2 DEF Struct, TypeOK, TypeLists, TypeControl, Pcs, time
<1>5. ListsPartitionProcesses'
  BY <1>1, <1>2 DEF Struct, TypeOK, TypeControl, ListsPartitionProcesses, table
<1> QED BY <1>3, <1>4, <1>5 DEF Struct, TypeOK

\* Yielding and exiting leave all lists alone.
LEMMA YieldStruct ==
  ASSUME Struct, Yield \/ Exit
  PROVE  Struct'
<1>1. /\ cur # Root
      /\ cur' = NextTask(cur)
      /\ UNCHANGED <<up, table, lists, waits, mail, time>>
      /\ pc[cur] \in {"run", "done"}
      /\ pc' = pc \/ pc' = [pc EXCEPT ![cur] = "done"]
  BY DEF Yield, Exit, ActorCalls
<1>2. cur \in Range(runnings) /\ cur \in Procs /\ cur \notin Range(waitings)
  BY <1>1 DEF Struct, TypeOK, TypeControl, ListsPartitionProcesses
<1>3. cur' = Root \/ cur' \in Range(runnings)
  BY <1>1, <1>2, NextTaskProperties
  DEF Struct, TypeOK, TypeLists, ListsPartitionProcesses
<1>4. cur' \in Procs \cup {Root}
  <2>1. Range(runnings) \subseteq Procs
    BY LenProperties DEF Struct, TypeOK, TypeLists, Range
  <2> QED BY <1>3, <2>1
<1>5. TypeTable' /\ TypeWaits' /\ TypeMail' /\ TypeLists'
  BY <1>1 DEF Struct, TypeOK, TypeTable, TypeWaits, TypeMail, TypeLists,
              table, waits, mail, lists
<1>6. TypeControl'
  BY <1>1, <1>4 DEF Struct, TypeOK, TypeControl, Pcs, time
<1>7. ListsPartitionProcesses'
  BY <1>1, <1>2, <1>3
  DEF Struct, TypeOK, TypeControl, ListsPartitionProcesses, lists, table
<1> QED BY <1>5, <1>6, <1>7 DEF Struct, TypeOK

\* Sleeping, and receiving with nothing to receive.
LEMMA WaitStruct ==
  ASSUME Struct, NEW usecs \in Periods, Sleep(usecs) \/ RecvWait(usecs)
  PROVE  Struct'
<1>1. PICK on_msg \in BOOLEAN : wait_for_(cur, usecs, on_msg)
  BY DEF Sleep, RecvWait
<1>2. /\ cur # Root /\ pc[cur] = "run"
      /\ UNCHANGED <<up, pendings, table, mail, time>>
      /\ pc' = pc \/ pc' = [pc EXCEPT ![cur] = "recv"]
  BY DEF Sleep, RecvWait, ActorCalls
<1>3. usecs \in Int
  BY SchedulerAssumption
<1>4. /\ runnings' \in Seq(Procs) /\ NoDup(runnings')
      /\ waitings' \in Seq(Procs) /\ NoDup(waitings')
      /\ Range(runnings') = Range(runnings) \ {cur}
      /\ Range(waitings') = Range(waitings) \cup {cur}
      /\ cur \in Range(runnings)
      /\ cur' = Root \/ cur' \in Range(runnings')
  BY <1>1, <1>2, <1>3, WaitForMoves DEF Struct
<1>5. Range(runnings') \subseteq Procs
  BY <1>4, LenProperties DEF Range
<1>6. TypeTable' /\ TypeMail'
  BY <1>2 DEF Struct, TypeOK, TypeTable, TypeMail, table, mail
<1>7. TypeLists'
  BY <1>2, <1>4 DEF Struct, TypeOK, TypeLists
<1>8. TypeControl'
  BY <1>2, <1>4, <1>5 DEF Struct, TypeOK, TypeControl, Pcs, time
<1>9. TypeWaits'
  <2>1. /\ wait_for \in [Procs -> Int] /\ wake_on_msg \in [Procs -> BOOLEAN]
        /\ nap \in [Procs -> [usecs : Int, slept : Nat, credit : Nat]]
        /\ lag \in Nat
    BY DEF Struct, TypeOK, TypeWaits, TypeControl
  <2>2. wait_for' \in [Procs -> Int] /\ wake_on_msg' \in [Procs -> BOOLEAN]
    BY <1>1, <1>3, <2>1 DEF wait_for_
  <2>3. NoNap \in [usecs : Int, slept : Nat, credit : Nat]
    BY DEF NoNap, AINFINITE
  <2>4. [usecs |-> usecs, slept |-> 0, credit |-> lag]
          \in [usecs : Int, slept : Nat, credit : Nat]
    BY <1>3, <2>1
  <2>5. nap' \in [Procs -> [usecs : Int, slept : Nat, credit : Nat]]
    BY <1>1, <2>1, <2>3, <2>4 DEF wait_for_
  <2> QED BY <2>2, <2>5 DEF TypeWaits
<1>10. ListsPartitionProcesses'
  BY <1>2, <1>4
  DEF Struct, TypeOK, TypeControl, ListsPartitionProcesses, table
<1> QED BY <1>6, <1>7, <1>8, <1>9, <1>10 DEF Struct, TypeOK

\* Peeking, removing, rewinding and timing out change nothing but the
\* running actor's mailbox and what it is doing.
LEMMA MailboxStruct ==
  ASSUME Struct, Peek \/ RecvTimeout \/ Remove \/ Rewind
  PROVE  Struct'
<1>1. /\ cur # Root /\ pc[cur] \in {"run", "recv"}
      /\ UNCHANGED <<up, cur, table, lists, waits, time>>
      /\ pc' = pc \/ pc' = [pc EXCEPT ![cur] = "run"]
  BY DEF Peek, RecvTimeout, Remove, Rewind, ActorCalls, mail
<1>2. cur \in Procs /\ cur \in Range(runnings)
  BY <1>1 DEF Struct, TypeOK, TypeControl, ListsPartitionProcesses
<1>3. TypeTable' /\ TypeLists' /\ TypeWaits'
  BY <1>1 DEF Struct, TypeOK, TypeTable, TypeWaits, TypeLists,
              table, waits, lists
<1>4. TypeControl'
  BY <1>1 DEF Struct, TypeOK, TypeControl, Pcs, time
<1>5. TypeMail'
  <2>1. msbox \in [Procs -> Seq(Msgs)] /\ msg_pp \in [Procs -> Nat]
    BY DEF Struct, TypeOK, TypeMail
  <2>2. \A p \in Procs : msg_pp[p] <= Len(msbox[p])
    BY DEF Struct, TypeOK, TypeMail
  <2>3. CASE Peek
    <3>1. /\ msbox' = msbox
          /\ msg_pp' = [msg_pp EXCEPT ![cur] = msg_pp[cur] + 1]
          /\ msg_pp[cur] < Len(msbox[cur])
      BY <2>3 DEF Peek
    <3>2. msg_pp[cur] \in Nat /\ msbox[cur] \in Seq(Msgs)
          /\ Len(msbox[cur]) \in Nat
      BY <1>2, <2>1
    <3>3. msg_pp' \in [Procs -> Nat]
      <4>1. msg_pp[cur] + 1 \in Nat /\ msg_pp \in [Procs -> Nat]
        BY <2>1, <3>2
      <4> QED BY <3>1, <4>1
    <3>4. \A p \in Procs : msg_pp'[p] <= Len(msbox'[p])
      BY <2>1, <2>2, <3>1, <3>2
    <3> QED BY <2>1, <3>1, <3>3, <3>4 DEF TypeMail
  <2>4. CASE RecvTimeout
    BY <2>1, <2>2, <2>4 DEF RecvTimeout, TypeMail, mail
  <2>5. CASE Remove
    <3> DEFINE m == msg_pp[cur]
               n == Len(msbox[cur])
               rest == SubSeq(msbox[cur], 1, m - 1) \o SubSeq(msbox[cur], m + 1, n)
    <3>1. msbox[cur] \in Seq(Msgs) /\ m \in 1 .. n
      BY <1>2, <2>1, <2>2, <2>5 DEF Remove
    <3>2. SubSeq(msbox[cur], 1, m - 1) \in Seq(Msgs)
      BY <3>1
    <3>3. SubSeq(msbox[cur], m + 1, n) \in Seq(Msgs)
      BY <3>1
    <3>4. rest \in Seq(Msgs) /\ 0 <= Len(rest)
      BY <3>2, <3>3
    <3>5. /\ msbox' = [msbox EXCEPT ![cur] = rest]
          /\ msg_pp' = [msg_pp EXCEPT ![cur] = 0]
      BY <2>5 DEF Remove
    <3> HIDE DEF rest
    <3> QED BY <2>1, <2>2, <3>4, <3>5 DEF TypeMail
  <2>6. CASE Rewind
    <3>1. msbox' = msbox /\ msg_pp' = [msg_pp EXCEPT ![cur] = 0]
      BY <2>6 DEF Rewind
    <3>2. \A p \in Procs : 0 <= Len(msbox[p])
      BY <2>1
    <3> QED BY <2>1, <2>2, <3>1, <3>2 DEF TypeMail
  <2> QED BY <2>3, <2>4, <2>5, <2>6
<1>6. ListsPartitionProcesses'
  BY <1>1, <1>2
  DEF Struct, TypeOK, TypeControl, ListsPartitionProcesses, lists, table
<1> QED BY <1>3, <1>4, <1>5, <1>6 DEF Struct, TypeOK

\* A message arrives; a receiver waiting for it moves to runnings.
LEMMA SendStruct ==
  ASSUME Struct, OnlyWaitersWait, NEW q, NEW m \in Msgs, Send(q, m)
  PROVE  Struct'
<1>1. PICK p \in ascheduler_actor(q) :
        /\ msbox' = [msbox EXCEPT ![p] = Append(@, m)]
        /\ got_new_message(p)
  BY DEF Send
<1>2. p \in Procs /\ ~dead[p]
  BY DEF ascheduler_actor
<1>3. cur # Root /\ UNCHANGED <<up, cur, pc, table, msg_pp, time>>
  BY DEF Send, ActorCalls
<1>4. TypeTable' /\ TypeControl'
  BY <1>3 DEF Struct, TypeOK, TypeTable, TypeControl, table, time
<1>5. TypeMail'
  <2>1. /\ msbox \in [Procs -> Seq(Msgs)] /\ msg_pp \in [Procs -> Nat]
        /\ \A r \in Procs : msg_pp[r] <= Len(msbox[r])
    BY DEF Struct, TypeOK, TypeMail
  <2>2. /\ Append(msbox[p], m) \in Seq(Msgs)
        /\ Len(Append(msbox[p], m)) = Len(msbox[p]) + 1
        /\ Len(msbox[p]) \in Nat
    BY <1>2, <2>1, AppendProperties, LenProperties
  <2>3. msbox' \in [Procs -> Seq(Msgs)]
    BY <1>1, <2>1, <2>2
  <2>4. ASSUME NEW r \in Procs PROVE msg_pp'[r] <= Len(msbox'[r])
    <3>1. msg_pp[r] \in Nat /\ msg_pp'[r] = msg_pp[r]
      BY <1>3, <2>1
    <3>2. CASE r = p
      BY <1>1, <1>2, <2>1, <2>2, <3>1, <3>2
    <3>3. CASE r # p
      BY <1>1, <1>2, <2>1, <3>1, <3>3
    <3> QED BY <3>2, <3>3
  <2> QED BY <1>3, <2>1, <2>3, <2>4 DEF TypeMail
<1>6. CASE wake_on_msg[p]
  <2>1. /\ wait_for' = [wait_for EXCEPT ![p] = 0]
        /\ wake_on_msg' = [wake_on_msg EXCEPT ![p] = FALSE]
        /\ nap' = [nap EXCEPT ![p] = NoNap]
        /\ add_to_runnings(p)
    BY <1>1, <1>6 DEF got_new_message
  <2>2. /\ pendings' \in Seq(Procs) /\ NoDup(pendings')
        /\ runnings' \in Seq(Procs) /\ NoDup(runnings')
        /\ waitings' \in Seq(Procs) /\ NoDup(waitings')
        /\ Range(pendings') = Range(pendings) \ {p}
        /\ Range(runnings') = Range(runnings) \cup {p}
        /\ Range(waitings') = Range(waitings) \ {p}
    BY <1>2, <2>1, AddToRunnings DEF Struct
  <2>3. TypeWaits'
    <3>1. /\ wait_for \in [Procs -> Int] /\ wake_on_msg \in [Procs -> BOOLEAN]
          /\ nap \in [Procs -> [usecs : Int, slept : Nat, credit : Nat]]
      BY DEF Struct, TypeOK, TypeWaits
    <3>2. NoNap \in [usecs : Int, slept : Nat, credit : Nat]
      BY DEF NoNap, AINFINITE
    <3>3. wait_for' \in [Procs -> Int]
      BY <1>2, <2>1, <3>1
    <3>5. wake_on_msg' \in [Procs -> BOOLEAN]
      BY <1>2, <2>1, <3>1
    <3>4. nap' \in [Procs -> [usecs : Int, slept : Nat, credit : Nat]]
      BY <2>1, <3>1, <3>2
    <3> QED BY <3>3, <3>4, <3>5 DEF TypeWaits
  <2>4. TypeLists'
    BY <2>2 DEF TypeLists
  <2>5. p \in Range(waitings)
    BY <1>2, <1>6 DEF OnlyWaitersWait
  <2>6. ListsPartitionProcesses'
    BY <1>3, <2>2, <2>5 DEF Struct, ListsPartitionProcesses, table
  <2> QED BY <1>4, <1>5, <2>3, <2>4, <2>6 DEF Struct, TypeOK
<1>7. CASE ~wake_on_msg[p]
  <2>1. UNCHANGED <<waits, lists>>
    BY <1>1, <1>7 DEF got_new_message
  <2>2. TypeWaits' /\ TypeLists'
    BY <2>1 DEF Struct, TypeOK, TypeWaits, TypeLists, waits, lists
  <2>3. ListsPartitionProcesses'
    BY <1>3, <2>1 DEF Struct, ListsPartitionProcesses, lists, table
  <2> QED BY <1>4, <1>5, <2>2, <2>3 DEF Struct, TypeOK
<1> QED BY <1>6, <1>7

\* What a pass does to the lists: exited processes leave runnings, woken ones
\* join it, and the head of runnings gets the thread.
LEMMA RunOnceLists ==
  ASSUME TypeOK, ListsPartitionProcesses, RunOnce
  PROVE  /\ runnings' \in Seq(Procs) /\ NoDup(runnings')
         /\ waitings' \in Seq(Procs) /\ NoDup(waitings')
         /\ Range(runnings') = (Range(runnings) \ Exited) \cup Woken
         /\ Range(waitings') = Range(waitings) \ Woken
         /\ Woken \subseteq Range(waitings)
         /\ cur' = Root \/ cur' \in Range(runnings')
<1>1. /\ runnings \in Seq(Procs) /\ NoDup(runnings)
      /\ waitings \in Seq(Procs) /\ NoDup(waitings)
      /\ Range(runnings) \cap Range(waitings) = {}
  BY DEF TypeOK, TypeLists, ListsPartitionProcesses
<1>2. Range(runnings) \subseteq Procs /\ Range(waitings) \subseteq Procs
  BY <1>1, LenProperties DEF Range
<1>3. Woken \subseteq Range(waitings)
  BY DEF Woken
<1> DEFINE R == Filter(runnings, Procs \ Exited)
           W == Filter(waitings, Woken)
           V == Filter(waitings, Procs \ Woken)
<1>4. R \in Seq(Procs) /\ NoDup(R) /\ Range(R) = Range(runnings) \ Exited
  BY <1>1, <1>2, FilterProperties
<1>5. W \in Seq(Procs) /\ NoDup(W) /\ Range(W) = Woken
  <2>1. W \in Seq(Procs) /\ NoDup(W) /\ Range(W) = Range(waitings) \cap Woken
    BY <1>1, FilterProperties
  <2>2. Range(waitings) \cap Woken = Woken
    BY <1>3
  <2> QED BY <2>1, <2>2
<1>6. V \in Seq(Procs) /\ NoDup(V) /\ Range(V) = Range(waitings) \ Woken
  BY <1>1, <1>2, FilterProperties
<1>7. /\ runnings' = R \o W
      /\ waitings' = V
      /\ cur' = IF runnings' = <<>> THEN Root ELSE Head(runnings')
  BY DEF RunOnce
<1> HIDE DEF R, W, V
<1>8. Range(R) \cap Range(W) = {}
  BY <1>1, <1>3, <1>4, <1>5
<1>9. /\ R \o W \in Seq(Procs) /\ NoDup(R \o W)
      /\ Range(R \o W) = Range(R) \cup Range(W)
  BY <1>4, <1>5, <1>8, ConcatNoDup
<1>10. runnings' # <<>> => Head(runnings') \in Range(runnings')
  <2> SUFFICES ASSUME runnings' # <<>> PROVE Head(runnings') \in Range(runnings')
    OBVIOUS
  <2>1. runnings' \in Seq(Procs)
    BY <1>7, <1>9
  <2>2. Len(runnings') \in Nat \ {0} /\ DOMAIN runnings' = 1 .. Len(runnings')
    BY <2>1, EmptySeq, LenProperties
  <2>3. 1 \in DOMAIN runnings'
    BY <2>2
  <2>4. Head(runnings') = runnings'[1]
    BY <2>1
  <2> QED BY <2>3, <2>4 DEF Range
<1> QED BY <1>3, <1>4, <1>5, <1>6, <1>7, <1>9, <1>10

\* The types of what freeing processes writes.
LEMMA FreeAllTypes ==
  ASSUME TypeOK, NEW G, G \subseteq Procs, free_all(G)
  PROVE  TypeTable' /\ TypeMail' /\ pc' \in [Procs -> Pcs]
<1>1. IsFiniteSet(G) /\ Cardinality(G) \in Nat
  <2>1. IsFiniteSet(Procs)
    BY PidAssumption, FS_Interval DEF Procs
  <2> QED BY <2>1, FS_Subset, FS_CardinalityType
<1>2. num_procs' \in Int
  <2>1. num_procs \in Int /\ num_procs' = num_procs - Cardinality(G)
    BY DEF TypeOK, TypeTable, free_all, CountWithout
  <2> QED BY <1>1, <2>1
<1>3. dead' \in [Procs -> BOOLEAN]
  <2>1. dead \in [Procs -> BOOLEAN]
    BY DEF TypeOK, TypeTable
  <2>2. dead' = [p \in Procs |-> dead[p] \/ p \in G]
    BY DEF free_all
  <2> QED BY <2>1, <2>2, Zenon
<1>4. TypeTable'
  BY <1>2, <1>3 DEF TypeOK, TypeTable, free_all
<1>5. pc' \in [Procs -> Pcs]
  BY DEF free_all, Pcs, TypeOK, TypeControl
<1>6. TypeMail'
  <2>1. /\ msbox \in [Procs -> Seq(Msgs)] /\ msg_pp \in [Procs -> Nat]
        /\ \A p \in Procs : msg_pp[p] <= Len(msbox[p])
    BY DEF TypeOK, TypeMail
  <2>2. /\ msbox' = [p \in Procs |-> IF p \in G THEN <<>> ELSE msbox[p]]
        /\ msg_pp' = [p \in Procs |-> IF p \in G THEN 0 ELSE msg_pp[p]]
    BY DEF free_all
  <2>3. <<>> \in Seq(Msgs) /\ Len(<<>>) = 0
    OBVIOUS
  <2>4. msbox' \in [Procs -> Seq(Msgs)] /\ msg_pp' \in [Procs -> Nat]
    BY <2>1, <2>2, <2>3
  <2>5. \A p \in Procs : msg_pp'[p] <= Len(msbox'[p])
    BY <2>1, <2>2, <2>3
  <2> QED BY <2>4, <2>5 DEF TypeMail
<1> QED BY <1>4, <1>5, <1>6

\* A pass begins.
LEMMA RunOnceStruct ==
  ASSUME Struct, RunOnce
  PROVE  Struct'
<1>1. /\ TypeOK /\ ListsPartitionProcesses
      /\ Range(runnings) \subseteq Procs /\ Exited \subseteq Procs
  <2>1. TypeOK /\ ListsPartitionProcesses
    BY DEF Struct
  <2>2. Range(runnings) \subseteq Procs
    BY <2>1, LenProperties DEF TypeOK, TypeLists, Range
  <2> QED BY <2>1, <2>2 DEF Exited
<1>2. /\ up' = up /\ pendings' = pendings /\ first_run' = FALSE /\ lag' = 0
      /\ free_all(Exited)
  BY DEF RunOnce
<1>3. /\ runnings' \in Seq(Procs) /\ NoDup(runnings')
      /\ waitings' \in Seq(Procs) /\ NoDup(waitings')
      /\ Range(runnings') = (Range(runnings) \ Exited) \cup Woken
      /\ Range(waitings') = Range(waitings) \ Woken
      /\ Woken \subseteq Range(waitings)
      /\ cur' = Root \/ cur' \in Range(runnings')
  BY <1>1, RunOnceLists DEF Struct
<1>4. TypeTable' /\ TypeMail' /\ pc' \in [Procs -> Pcs]
  BY <1>1, <1>2, FreeAllTypes
<1>5. TypeLists'
  BY <1>1, <1>2, <1>3 DEF TypeOK, TypeLists
<1>6. TypeControl'
  <2>1. Range(runnings') \subseteq Procs
    BY <1>3, LenProperties DEF Range
  <2> QED BY <1>1, <1>2, <1>3, <1>4, <2>1 DEF TypeOK, TypeControl
<1>7. TypeWaits'
  <2>1. /\ wait_for \in [Procs -> Int] /\ wake_on_msg \in [Procs -> BOOLEAN]
        /\ nap \in [Procs -> [usecs : Int, slept : Nat, credit : Nat]]
    BY <1>1 DEF TypeOK, TypeWaits
  <2>2. Delta \in Int
    BY <1>1 DEF Delta, TypeOK, TypeControl
  <2>3. wait_for' \in [Procs -> Int]
    <3>1. wait_for' = [p \in Procs |->
             CASE p \in Woken -> 0
               [] p \in Range(waitings) \ Woken /\ wait_for[p] >= 0
                    -> wait_for[p] - Delta
               [] OTHER -> wait_for[p]]
      BY DEF RunOnce
    <3>2. ASSUME NEW p \in Procs PROVE wait_for'[p] \in Int
      BY <2>1, <2>2, <3>1
    <3> QED BY <3>1, <3>2
  <2>4. wake_on_msg' \in [Procs -> BOOLEAN]
    <3>1. wake_on_msg' = [p \in Procs |-> wake_on_msg[p] /\ p \notin Woken]
      BY DEF RunOnce
    <3> QED BY <2>1, <3>1, Zenon
  <2>5. nap' \in [Procs -> [usecs : Int, slept : Nat, credit : Nat]]
    <3>1. nap' = [p \in Procs |-> IF p \in Woken THEN NoNap ELSE nap[p]]
      BY DEF RunOnce
    <3>2. NoNap \in [usecs : Int, slept : Nat, credit : Nat]
      BY DEF NoNap, AINFINITE
    <3> QED BY <2>1, <3>1, <3>2
  <2> QED BY <2>3, <2>4, <2>5 DEF TypeWaits
<1>8. ListsPartitionProcesses'
  <2>1. /\ pc \in [Procs -> Pcs]
        /\ pc' = [p \in Procs |-> IF p \in Exited THEN "none" ELSE pc[p]]
        /\ dead' = [p \in Procs |-> dead[p] \/ p \in Exited]
    BY <1>1, <1>2 DEF free_all, TypeOK, TypeControl
  <2>2. \A p \in Exited : p \in Range(runnings) /\ pc[p] = "done"
    BY DEF Exited
  <2>3. \A p \in Range(runnings) : pc[p] = "done" => p \in Exited
    BY DEF Exited
  <2>4. Range(runnings') \cap Range(waitings') = {}
    BY <1>1, <1>3 DEF ListsPartitionProcesses
  <2>5. ASSUME NEW p \in Procs
        PROVE  /\ p \in Range(pendings') <=> pc'[p] \in {"new", "stuck"}
               /\ p \in Range(runnings') \cup Range(waitings')
                    <=> pc'[p] \in {"run", "recv", "done"}
               /\ p \in Range(waitings') => pc'[p] # "done"
               /\ dead'[p] => pc'[p] = "none"
    BY <1>1, <1>2, <1>3, <2>1, <2>2, <2>3 DEF ListsPartitionProcesses
  <2> QED BY <1>1, <1>2, <1>3, <2>4, <2>5 DEF ListsPartitionProcesses
<1> QED BY <1>4, <1>5, <1>6, <1>7, <1>8 DEF Struct, TypeOK

\* ascheduler_cleanup empties the lists and frees what was in them.
LEMMA ShutdownStruct ==
  ASSUME Struct, Shutdown
  PROVE  Struct'
<1> DEFINE G == Range(pendings) \cup Range(runnings) \cup Range(waitings)
<1>1. TypeOK /\ ListsPartitionProcesses /\ G \subseteq Procs
  <2>1. TypeOK /\ ListsPartitionProcesses
    BY DEF Struct
  <2> QED BY <2>1, LenProperties DEF TypeOK, TypeLists, Range
<1>2. /\ up' = FALSE /\ cur = Root /\ free_all(G)
      /\ pendings' = <<>> /\ runnings' = <<>> /\ waitings' = <<>>
      /\ UNCHANGED <<cur, waits, time>>
  BY DEF Shutdown, HostCalls
<1>3. TypeTable' /\ TypeMail' /\ pc' \in [Procs -> Pcs]
  BY <1>1, <1>2, FreeAllTypes
<1>4. TypeLists' /\ TypeControl' /\ TypeWaits'
  <2>1. TypeLists'
    BY <1>2 DEF TypeLists
  <2>2. TypeControl'
    BY <1>1, <1>2, <1>3 DEF TypeOK, TypeControl, time
  <2>3. TypeWaits'
    BY <1>1, <1>2 DEF TypeOK, TypeWaits, waits
  <2> QED BY <2>1, <2>2, <2>3
<1>5. ListsPartitionProcesses'
  <2>1. /\ pc \in [Procs -> Pcs]
        /\ pc' = [p \in Procs |-> IF p \in G THEN "none" ELSE pc[p]]
        /\ dead' = [p \in Procs |-> dead[p] \/ p \in G]
    BY <1>1, <1>2 DEF free_all, TypeOK, TypeControl
  <2>2. Range(<<>>) = {} /\ NoDup(<<>>)
    BY DEF Range, NoDup
  <2>3. ASSUME NEW p \in Procs PROVE pc'[p] = "none"
    <3>1. CASE p \in G
      BY <2>1, <3>1
    <3>2. CASE p \notin G
      <4>1. pc[p] \in Pcs /\ pc'[p] = pc[p]
        BY <2>1, <3>2
      <4>2. pc[p] \notin {"new", "stuck"} /\ pc[p] \notin {"run", "recv", "done"}
        BY <1>1, <3>2 DEF ListsPartitionProcesses
      <4> QED BY <4>1, <4>2 DEF Pcs
    <3> QED BY <3>1, <3>2
  <2> QED BY <1>2, <2>2, <2>3 DEF ListsPartitionProcesses
<1> QED BY <1>3, <1>4, <1>5 DEF Struct, TypeOK

\* The clock moves on.
LEMMA TickStruct ==
  ASSUME Struct, Tick
  PROVE  Struct'
<1>1. /\ UNCHANGED <<up, cur, pc, table, lists, wait_for, wake_on_msg, mail,
                     first_run>>
      /\ lag' = lag + 1
  BY DEF Tick
<1>2. TypeTable' /\ TypeLists' /\ TypeMail'
  BY <1>1 DEF Struct, TypeOK, TypeTable, TypeLists, TypeMail, table, lists, mail
<1>3. TypeControl'
  <2>1. up \in BOOLEAN /\ cur \in Procs \cup {Root} /\ pc \in [Procs -> Pcs]
        /\ first_run \in BOOLEAN /\ lag \in Nat
    BY DEF Struct, TypeOK, TypeControl
  <2> QED BY <1>1, <2>1 DEF TypeControl
<1>4. TypeWaits'
  <2>1. /\ wait_for \in [Procs -> Int] /\ wake_on_msg \in [Procs -> BOOLEAN]
        /\ nap \in [Procs -> [usecs : Int, slept : Nat, credit : Nat]]
    BY DEF Struct, TypeOK, TypeWaits
  <2>2. ASSUME NEW p \in Procs
        PROVE  [nap[p] EXCEPT !.slept = @ + 1]
                 \in [usecs : Int, slept : Nat, credit : Nat]
    <3>1. nap[p] \in [usecs : Int, slept : Nat, credit : Nat]
      BY <2>1
    <3> QED BY <3>1
  <2>3. nap' \in [Procs -> [usecs : Int, slept : Nat, credit : Nat]]
    <3>1. nap' = [p \in Procs |->
             IF p \in Range(waitings) /\ wait_for[p] >= 0
             THEN [nap[p] EXCEPT !.slept = @ + 1] ELSE nap[p]]
      BY DEF Tick
    <3> QED BY <2>1, <2>2, <3>1
  <2> QED BY <1>1, <2>1, <2>3 DEF TypeWaits
<1>5. ListsPartitionProcesses'
  BY <1>1 DEF Struct, ListsPartitionProcesses, lists, table
<1> QED BY <1>2, <1>3, <1>4, <1>5 DEF Struct, TypeOK

\* Nothing at all happens.
LEMMA StutterStruct ==
  ASSUME Struct, UNCHANGED vars
  PROVE  Struct'
<1>1. TypeOK'
  BY DEF Struct, TypeOK, TypeTable, TypeLists, TypeWaits, TypeMail, TypeControl,
         vars, table, lists, waits, mail, time
<1>2. ListsPartitionProcesses'
  BY DEF Struct, ListsPartitionProcesses, vars, table, lists
<1> QED BY <1>1, <1>2 DEF Struct

\* The steps of the specification, one by one.
LEMMA NextCases ==
  ASSUME [Next]_vars
  PROVE  \/ Create
         \/ \E p \in Procs : HostStart(p)
         \/ Yield \/ Exit
         \/ Peek \/ RecvTimeout \/ Remove \/ Rewind
         \/ \E usecs \in Periods : Sleep(usecs) \/ RecvWait(usecs)
         \/ \E q \in Pids, m \in Msgs : Send(q, m)
         \/ RunOnce
         \/ Shutdown
         \/ Tick
         \/ UNCHANGED vars
BY DEF Next, ActorStep, Receive, SendDropped

\* Every step keeps the structure.
LEMMA StructStep ==
  ASSUME Struct, OnlyWaitersWait, [Next]_vars
  PROVE  Struct'
<1>1. CASE Create
  BY <1>1, CreateStruct
<1>2. CASE \E p \in Procs : HostStart(p)
  BY <1>2, HostStartStruct
<1>3. CASE Yield \/ Exit
  BY <1>3, YieldStruct
<1>4. CASE Peek \/ RecvTimeout \/ Remove \/ Rewind
  BY <1>4, MailboxStruct
<1>5. CASE \E usecs \in Periods : Sleep(usecs) \/ RecvWait(usecs)
  BY <1>5, WaitStruct
<1>6. CASE \E q \in Pids, m \in Msgs : Send(q, m)
  BY <1>6, SendStruct
<1>7. CASE RunOnce
  BY <1>7, RunOnceStruct
<1>8. CASE Shutdown
  BY <1>8, ShutdownStruct
<1>9. CASE Tick
  BY <1>9, TickStruct
<1>10. CASE UNCHANGED vars
  BY <1>10, StutterStruct
<1> QED BY <1>1, <1>2, <1>3, <1>4, <1>5, <1>6, <1>7, <1>8, <1>9, <1>10, NextCases
-----------------------------------------------------------------------------
(***************************************************************************)
(* Who waits, who is woken, what a pid finds, what the timer counts.       *)
(***************************************************************************)

\* The inductive invariant: the structure of the table and the lists, and
\* that only linked waiters have something to wait for.  Neither is inductive
\* alone: got_new_message relinks whoever has wake_on_msg set.
IInv == Struct /\ OnlyWaitersWait
-----------------------------------------------------------------------------
(***************************************************************************)
(* Only waiters wait.                                                      *)
(***************************************************************************)

\* Nobody waits at first.
LEMMA InitWaiters == Init => OnlyWaitersWait
BY DEF Init, OnlyWaitersWait

\* Periods and wishes stay with the waiting processes.
LEMMA WaitersStep ==
  ASSUME Struct, OnlyWaitersWait, [Next]_vars
  PROVE  OnlyWaitersWait'
<1>0. /\ wait_for \in [Procs -> Int] /\ wake_on_msg \in [Procs -> BOOLEAN]
      /\ TypeOK /\ ListsPartitionProcesses
  BY DEF Struct, TypeOK, TypeWaits
<1>1. CASE Create
  <2>1. PICK p \in Procs : ascheduler_alloc(p)
    BY <1>1 DEF Create, HostNewActor, SpawnStarted, SpawnStuck, SpawnNoTask
  <2>2. waitings' = waitings
    BY <1>1 DEF Create, HostNewActor, SpawnStarted, SpawnStuck, SpawnNoTask, lists
  <2>3. /\ dead' = [dead EXCEPT ![p] = FALSE]
        /\ wait_for' = [wait_for EXCEPT ![p] = 0]
        /\ wake_on_msg' = [wake_on_msg EXCEPT ![p] = FALSE]
    BY <2>1 DEF ascheduler_alloc
  <2>4. dead \in [Procs -> BOOLEAN]
    BY <1>0 DEF TypeOK, TypeTable
  <2> QED BY <1>0, <2>2, <2>3, <2>4 DEF OnlyWaitersWait
<1>2. CASE \E p \in Procs : HostStart(p)
  <2>1. PICK p \in Procs : HostStart(p)
    BY <1>2
  <2>2. UNCHANGED <<dead, wait_for, wake_on_msg>> /\ add_to_runnings(p)
        /\ pc[p] = "new"
    BY <2>1 DEF HostStart, table, waits
  <2>3. Range(waitings') = Range(waitings) \ {p}
    BY <1>0, <2>2, AddToRunnings
  <2>4. p \notin Range(waitings)
    BY <1>0, <2>2 DEF ListsPartitionProcesses
  <2> QED BY <2>2, <2>3, <2>4 DEF OnlyWaitersWait
<1>3. CASE Yield \/ Exit \/ Peek \/ RecvTimeout \/ Remove \/ Rewind
  BY <1>3 DEF Yield, Exit, Peek, RecvTimeout, Remove, Rewind, OnlyWaitersWait,
              table, waits, lists
<1>4. CASE \E usecs \in Periods : Sleep(usecs) \/ RecvWait(usecs)
  <2>1. PICK usecs \in Periods, on_msg \in BOOLEAN : wait_for_(cur, usecs, on_msg)
    BY <1>4 DEF Sleep, RecvWait
  <2>2. cur # Root /\ UNCHANGED dead
    BY <1>4 DEF Sleep, RecvWait, ActorCalls, table
  <2>3. Range(waitings') = Range(waitings) \cup {cur}
    BY <1>0, <2>1, <2>2, SchedulerAssumption, WaitForMoves
  <2>4. \A p \in Procs : p # cur =>
          wait_for'[p] = wait_for[p] /\ wake_on_msg'[p] = wake_on_msg[p]
    BY <1>0, <2>1 DEF wait_for_
  <2> QED BY <2>2, <2>3, <2>4 DEF OnlyWaitersWait
<1>5. CASE \E q \in Pids, m \in Msgs : Send(q, m)
  <2>1. PICK p \in Procs : got_new_message(p)
    BY <1>5 DEF Send, ascheduler_actor
  <2>2. UNCHANGED dead
    BY <1>5 DEF Send, table
  <2>3. CASE wake_on_msg[p]
    <3>1. /\ wait_for' = [wait_for EXCEPT ![p] = 0]
          /\ wake_on_msg' = [wake_on_msg EXCEPT ![p] = FALSE]
          /\ add_to_runnings(p)
      BY <2>1, <2>3 DEF got_new_message
    <3>2. Range(waitings') = Range(waitings) \ {p}
      BY <1>0, <3>1, AddToRunnings
    <3> QED BY <1>0, <2>2, <3>1, <3>2 DEF OnlyWaitersWait
  <2>4. CASE ~wake_on_msg[p]
    BY <2>1, <2>2, <2>4 DEF got_new_message, OnlyWaitersWait, waits, lists
  <2> QED BY <2>3, <2>4
<1>6. CASE RunOnce
  <2>1. Range(waitings') = Range(waitings) \ Woken
    BY <1>0, <1>6, RunOnceLists
  <2>2. \A p \in Procs : ~dead'[p] => ~dead[p]
    BY <1>6 DEF RunOnce, free_all
  <2>3. wait_for' = [p \in Procs |->
           CASE p \in Woken -> 0
             [] p \in Range(waitings) \ Woken /\ wait_for[p] >= 0
                  -> wait_for[p] - Delta
             [] OTHER -> wait_for[p]]
    BY <1>6 DEF RunOnce
  <2>4. wake_on_msg' = [p \in Procs |-> wake_on_msg[p] /\ p \notin Woken]
    BY <1>6 DEF RunOnce
  <2>5. ASSUME NEW p \in Procs, ~dead'[p], p \notin Range(waitings')
        PROVE  wait_for'[p] = 0 /\ ~wake_on_msg'[p]
    <3>1. CASE p \in Woken
      BY <2>3, <2>4, <3>1
    <3>2. CASE p \notin Woken
      <4>1. p \notin Range(waitings) /\ ~dead[p]
        BY <2>1, <2>2, <2>5, <3>2
      <4>2. wait_for[p] = 0 /\ ~wake_on_msg[p]
        BY <4>1 DEF OnlyWaitersWait
      <4> QED BY <2>3, <2>4, <3>2, <4>1, <4>2
    <3> QED BY <3>1, <3>2
  <2> QED BY <2>5 DEF OnlyWaitersWait
<1>7. CASE Shutdown
  <2>1. /\ UNCHANGED <<wait_for, wake_on_msg>>
        /\ \A p \in Procs : ~dead'[p] => ~dead[p] /\ p \notin Range(waitings)
    BY <1>7 DEF Shutdown, free_all, waits
  <2> QED BY <2>1 DEF OnlyWaitersWait
<1>8. CASE Tick
  BY <1>8 DEF Tick, OnlyWaitersWait, table, lists
<1>9. CASE UNCHANGED vars
  BY <1>9 DEF vars, OnlyWaitersWait, table, lists, waits
<1> QED BY <1>1, <1>2, <1>3, <1>4, <1>5, <1>6, <1>7, <1>8, <1>9, NextCases

\* The structure and the waiters hold in every reachable state.
THEOREM IInvHolds == Spec => []IInv
<1>1. Init => IInv
  BY InitStruct, InitWaiters DEF IInv
<1>2. IInv /\ [Next]_vars => IInv'
  BY StructStep, WaitersStep DEF IInv
<1> QED BY <1>1, <1>2, PTL DEF Spec

\* Every variable of the scheduler keeps its type; in particular the next
\* task is always a process or the root and the mailbox pointer is in range.
THEOREM TypeCorrect == Spec => []TypeOK
<1>1. IInv => TypeOK
  BY DEF IInv, Struct
<1> QED BY <1>1, IInvHolds, PTL

\* Every process with a C stack is linked exactly once, for any number of
\* slots and any interleaving of calls.
THEOREM ListsCorrect == Spec => []ListsPartitionProcesses
<1>1. IInv => ListsPartitionProcesses
  BY DEF IInv, Struct
<1> QED BY <1>1, IInvHolds, PTL

\* The assertion in wait_for never fails, and messages move waiters only.
THEOREM WaitersCorrect == Spec => []OnlyWaitersWait
<1>1. IInv => OnlyWaitersWait
  BY DEF IInv
<1> QED BY <1>1, IInvHolds, PTL
-----------------------------------------------------------------------------
(***************************************************************************)
(* No message is slept through.                                            *)
(***************************************************************************)

\* No message is there at first.
LEMMA InitWakeup == Init => NoLostWakeup
BY DEF Init, NoLostWakeup

\* A message and the wait for it meet in every step.
LEMMA WakeupStep ==
  ASSUME IInv, NoLostWakeup, [Next]_vars
  PROVE  NoLostWakeup'
<1>0. /\ wake_on_msg \in [Procs -> BOOLEAN] /\ dead \in [Procs -> BOOLEAN]
      /\ msbox \in [Procs -> Seq(Msgs)] /\ msg_pp \in [Procs -> Nat]
      /\ pc \in [Procs -> Pcs]
      /\ TypeOK /\ ListsPartitionProcesses /\ Struct
  BY DEF IInv, Struct, TypeOK, TypeWaits, TypeTable, TypeMail, TypeControl
\* The running process has not asked to be woken.
<1>a. cur # Root => /\ cur \in Procs /\ cur \in Range(runnings)
                    /\ cur \notin Range(waitings) /\ ~dead[cur]
                    /\ ~wake_on_msg[cur]
  <2> SUFFICES ASSUME cur # Root
               PROVE  /\ cur \in Procs /\ cur \in Range(runnings)
                      /\ cur \notin Range(waitings) /\ ~dead[cur]
                      /\ ~wake_on_msg[cur]
    OBVIOUS
  <2>1. cur \in Procs
    BY <1>0 DEF TypeOK, TypeControl
  <2>2. cur \in Range(runnings) /\ cur \notin Range(waitings)
    BY <1>0 DEF ListsPartitionProcesses
  <2>3. ~dead[cur]
    BY <1>0, <2>1, <2>2 DEF ListsPartitionProcesses
  <2> QED BY <2>1, <2>2, <2>3 DEF IInv, OnlyWaitersWait
<1>1. CASE Create
  <2>1. PICK p \in Procs :
          /\ ascheduler_alloc(p)
          /\ aactor_init(p) \/ UNCHANGED mail
          /\ UNCHANGED pc \/ \E s \in Pcs : pc' = [pc EXCEPT ![p] = s]
    BY <1>1 DEF Create, HostNewActor, SpawnStarted, SpawnStuck, SpawnNoTask, Pcs
  <2>2. waitings' = waitings
    BY <1>1 DEF Create, HostNewActor, SpawnStarted, SpawnStuck, SpawnNoTask, lists
  <2>3. /\ dead' = [dead EXCEPT ![p] = FALSE]
        /\ wake_on_msg' = [wake_on_msg EXCEPT ![p] = FALSE]
    BY <2>1 DEF ascheduler_alloc
  <2>4. \A q \in Procs : q # p =>
          pc'[q] = pc[q] /\ msg_pp'[q] = msg_pp[q] /\ msbox'[q] = msbox[q]
    BY <1>0, <2>1 DEF aactor_init, mail
  <2>5. ASSUME NEW q \in Procs, ~dead'[q], wake_on_msg'[q]
        PROVE  /\ pc'[q] = "recv" /\ q \in Range(waitings')
               /\ msg_pp'[q] = Len(msbox'[q])
    <3>1. q # p
      BY <1>0, <2>3, <2>5
    <3>2. ~dead[q] /\ wake_on_msg[q]
      BY <1>0, <2>3, <2>5, <3>1
    <3>3. pc[q] = "recv" /\ q \in Range(waitings) /\ msg_pp[q] = Len(msbox[q])
      BY <3>2 DEF NoLostWakeup
    <3> QED BY <2>2, <2>4, <3>1, <3>3
  <2> QED BY <2>5 DEF NoLostWakeup
<1>2. CASE \E p \in Procs : HostStart(p)
  <2>1. PICK p \in Procs : HostStart(p)
    BY <1>2
  <2>2. /\ UNCHANGED <<dead, wake_on_msg, msbox, msg_pp>> /\ add_to_runnings(p)
        /\ pc[p] = "new" /\ pc' = [pc EXCEPT ![p] = "run"]
    BY <2>1 DEF HostStart, table, waits, mail
  <2>3. Range(waitings') = Range(waitings) \ {p}
    BY <1>0, <2>2, AddToRunnings
  <2> QED BY <1>0, <2>2, <2>3 DEF NoLostWakeup
<1>3. CASE Yield \/ Exit \/ Peek \/ RecvTimeout \/ Remove \/ Rewind
  <2>1. /\ cur # Root /\ UNCHANGED <<dead, wake_on_msg, waitings>>
        /\ \A p \in Procs : p # cur =>
             pc'[p] = pc[p] /\ msg_pp'[p] = msg_pp[p] /\ msbox'[p] = msbox[p]
    BY <1>0, <1>3
    DEF Yield, Exit, Peek, RecvTimeout, Remove, Rewind, ActorCalls,
        table, waits, lists, mail
  <2> QED BY <1>a, <2>1 DEF NoLostWakeup
<1>4. CASE \E usecs \in Periods : Sleep(usecs)
  <2>1. PICK usecs \in Periods : wait_for_(cur, usecs, FALSE)
    BY <1>4 DEF Sleep
  <2>2. cur # Root /\ UNCHANGED <<dead, pc, msbox, msg_pp>>
    BY <1>4 DEF Sleep, ActorCalls, table, mail
  <2>3. Range(waitings') = Range(waitings) \cup {cur}
    BY <1>0, <2>1, <2>2, SchedulerAssumption, WaitForMoves
  <2>4. wake_on_msg' = [wake_on_msg EXCEPT ![cur] = FALSE]
    BY <2>1 DEF wait_for_
  <2> QED BY <1>0, <1>a, <2>2, <2>3, <2>4 DEF NoLostWakeup
<1>5. CASE \E usecs \in Periods : RecvWait(usecs)
  <2>1. PICK usecs \in Periods : wait_for_(cur, usecs, TRUE)
    BY <1>5 DEF RecvWait
  <2>2. /\ cur # Root /\ UNCHANGED <<dead, msbox, msg_pp>>
        /\ pc' = [pc EXCEPT ![cur] = "recv"]
        /\ msg_pp[cur] >= Len(msbox[cur])
    BY <1>5 DEF RecvWait, ActorCalls, table, mail
  <2>3. Range(waitings') = Range(waitings) \cup {cur}
    BY <1>0, <2>1, <2>2, SchedulerAssumption, WaitForMoves
  <2>4. wake_on_msg' = [wake_on_msg EXCEPT ![cur] = TRUE]
    BY <2>1 DEF wait_for_
  <2>5. msg_pp[cur] = Len(msbox[cur])
    <3>1. msg_pp[cur] <= Len(msbox[cur])
      BY <1>0, <1>a, <2>2 DEF TypeOK, TypeMail
    <3>2. msg_pp[cur] \in Nat /\ Len(msbox[cur]) \in Nat
      BY <1>0, <1>a, <2>2
    <3> QED BY <2>2, <3>1, <3>2
  <2> QED BY <1>0, <1>a, <2>2, <2>3, <2>4, <2>5 DEF NoLostWakeup
<1>6. CASE \E q \in Pids, m \in Msgs : Send(q, m)
  <2>1. PICK p \in Procs, m \in Msgs :
          ~dead[p] /\ got_new_message(p) /\ msbox' = [msbox EXCEPT ![p] = Append(@, m)]
    BY <1>6 DEF Send, ascheduler_actor
  <2>2. UNCHANGED <<dead, pc, msg_pp>>
    BY <1>6 DEF Send, table
  <2>3. ~wake_on_msg'[p] /\ \A r \in Procs : r # p =>
          /\ wake_on_msg'[r] = wake_on_msg[r]
          /\ r \in Range(waitings) => r \in Range(waitings')
    <3>1. CASE wake_on_msg[p]
      <4>1. wake_on_msg' = [wake_on_msg EXCEPT ![p] = FALSE] /\ add_to_runnings(p)
        BY <2>1, <3>1 DEF got_new_message
      <4>2. Range(waitings') = Range(waitings) \ {p}
        BY <1>0, <4>1, AddToRunnings
      <4> QED BY <1>0, <4>1, <4>2
    <3>2. CASE ~wake_on_msg[p]
      BY <2>1, <3>2 DEF got_new_message, waits, lists
    <3> QED BY <3>1, <3>2
  <2> QED BY <1>0, <2>1, <2>2, <2>3 DEF NoLostWakeup
<1>7. CASE RunOnce
  <2>1. Range(waitings') = Range(waitings) \ Woken
    BY <1>0, <1>7, RunOnceLists
  <2>2. /\ wake_on_msg' = [p \in Procs |-> wake_on_msg[p] /\ p \notin Woken]
        /\ dead' = [p \in Procs |-> dead[p] \/ p \in Exited]
        /\ pc' = [p \in Procs |-> IF p \in Exited THEN "none" ELSE pc[p]]
        /\ msbox' = [p \in Procs |-> IF p \in Exited THEN <<>> ELSE msbox[p]]
        /\ msg_pp' = [p \in Procs |-> IF p \in Exited THEN 0 ELSE msg_pp[p]]
    BY <1>7 DEF RunOnce, free_all
  <2>3. ASSUME NEW p \in Procs, ~dead'[p], wake_on_msg'[p]
        PROVE  /\ pc'[p] = "recv" /\ p \in Range(waitings')
               /\ msg_pp'[p] = Len(msbox'[p])
    <3>1. ~dead[p] /\ p \notin Exited /\ p \notin Woken /\ wake_on_msg[p]
      BY <2>2, <2>3
    <3>2. pc[p] = "recv" /\ p \in Range(waitings) /\ msg_pp[p] = Len(msbox[p])
      BY <3>1 DEF NoLostWakeup
    <3> QED BY <2>1, <2>2, <3>1, <3>2
  <2> QED BY <2>3 DEF NoLostWakeup
<1>8. CASE Shutdown
  <2>1. \A p \in Procs : ~dead'[p] => ~dead[p] /\ p \notin Range(waitings)
    BY <1>8 DEF Shutdown, free_all
  <2>2. wake_on_msg' = wake_on_msg
    BY <1>8 DEF Shutdown, waits
  <2> QED BY <2>1, <2>2 DEF NoLostWakeup
<1>9. CASE Tick
  BY <1>9 DEF Tick, NoLostWakeup, table, lists, mail
<1>10. CASE UNCHANGED vars
  BY <1>10 DEF vars, NoLostWakeup, table, lists, waits, mail
<1> QED BY <1>1, <1>2, <1>3, <1>4, <1>5, <1>6, <1>7, <1>8, <1>9, <1>10, NextCases

\* A process that waits for a message has seen all of its mailbox: whoever
\* sends first, whoever waits first, no message is slept through.
THEOREM NoWakeupIsLost == Spec => []NoLostWakeup
<1>1. IInv /\ NoLostWakeup /\ [Next]_vars => NoLostWakeup'
  BY WakeupStep
<1> QED BY <1>1, InitWakeup, IInvHolds, PTL DEF Spec
-----------------------------------------------------------------------------
(***************************************************************************)
(* The number of slots taken.                                              *)
(***************************************************************************)
Alive == {p \in Procs : ~dead[p]}

\* Sets of processes can be counted.
LEMMA ProcsFinite == ASSUME NEW S \in SUBSET Procs
                     PROVE  IsFiniteSet(S) /\ Cardinality(S) \in Nat
<1>1. IsFiniteSet(Procs)
  BY PidAssumption, FS_Interval DEF Procs
<1> QED BY <1>1, FS_Subset, FS_CardinalityType

\* No slot is taken at first.
LEMMA InitCount == Init => CountsTakenSlots
<1> SUFFICES ASSUME Init PROVE CountsTakenSlots
  OBVIOUS
<1>1. {p \in Procs : ~dead[p]} = {}
  BY DEF Init
<1> QED BY <1>1, FS_EmptySet DEF Init, CountsTakenSlots

\* Freeing live processes takes exactly them off the count.
LEMMA FreeAllCounts ==
  ASSUME TypeOK, CountsTakenSlots, NEW G, G \subseteq Alive, free_all(G)
  PROVE  CountsTakenSlots'
<1>1. Alive' = Alive \ G
  BY DEF Alive, free_all
<1>2. Cardinality(Alive \ G) = Cardinality(Alive) - Cardinality(Alive \cap G)
  <2>1. IsFiniteSet(Alive)
    BY ProcsFinite DEF Alive
  <2> QED BY <2>1, FS_Difference
<1>3. Alive \cap G = G
  OBVIOUS
<1>4. num_procs' = num_procs - Cardinality(G)
  BY DEF free_all, CountWithout
<1> QED BY <1>1, <1>2, <1>3, <1>4 DEF CountsTakenSlots, Alive

\* Every step counts the slots it takes or frees.
LEMMA CountStep ==
  ASSUME IInv, CountsTakenSlots, [Next]_vars
  PROVE  CountsTakenSlots'
<1>0. TypeOK /\ ListsPartitionProcesses
  BY DEF IInv, Struct
<1>1. CASE Create
  <2>1. PICK p \in Procs : ascheduler_alloc(p)
    BY <1>1 DEF Create, HostNewActor, SpawnStarted, SpawnStuck, SpawnNoTask
  <2>2. dead[p] /\ dead' = [dead EXCEPT ![p] = FALSE] /\ num_procs' = num_procs + 1
    BY <2>1 DEF ascheduler_alloc
  <2>3. Alive' = Alive \cup {p} /\ p \notin Alive
    BY <1>0, <2>2 DEF Alive, TypeOK, TypeTable
  <2>4. Cardinality(Alive \cup {p}) = Cardinality(Alive) + 1
    <3>1. IsFiniteSet(Alive)
      BY ProcsFinite DEF Alive
    <3> QED BY <2>3, <3>1, FS_AddElement
  <2> QED BY <2>2, <2>3, <2>4 DEF CountsTakenSlots, Alive
<1>2. CASE RunOnce
  <2>1. Exited \subseteq Alive
    <3>1. Exited \subseteq Procs
      BY <1>0, LenProperties DEF TypeOK, TypeLists, Exited, Range
    <3>2. \A p \in Exited : pc[p] = "done"
      BY DEF Exited
    <3> QED BY <1>0, <3>1, <3>2 DEF ListsPartitionProcesses, Alive
  <2> QED BY <1>0, <1>2, <2>1, FreeAllCounts DEF RunOnce
<1>3. CASE Shutdown
  <2> DEFINE G == Range(pendings) \cup Range(runnings) \cup Range(waitings)
  <2>1. G \subseteq Procs
    BY <1>0, LenProperties DEF TypeOK, TypeLists, Range
  <2>2. G \subseteq Alive
    BY <1>0, <2>1 DEF ListsPartitionProcesses, Alive
  <2> QED BY <1>0, <1>3, <2>2, FreeAllCounts DEF Shutdown
<1>4. CASE UNCHANGED table
  BY <1>4 DEF table, CountsTakenSlots
<1> QED
  BY <1>1, <1>2, <1>3, <1>4, NextCases
  DEF HostStart, Yield, Exit, Peek, RecvTimeout, Remove, Rewind, Sleep, RecvWait,
      Send, Tick, vars

\* num_procs is the number of slots taken, whatever was created, failed to be
\* created, exited or shut down.
THEOREM CountCorrect == Spec => []CountsTakenSlots
<1>1. IInv /\ CountsTakenSlots /\ [Next]_vars => CountsTakenSlots'
  BY CountStep
<1> QED BY <1>1, InitCount, IInvHolds, PTL DEF Spec
-----------------------------------------------------------------------------
(***************************************************************************)
(* What a pid finds.                                                       *)
(***************************************************************************)

\* The strengthening: the generation in a slot's pid counts its lives, and a
\* pid that was handed out is the one of the life it was handed out for.
PidsCountLives ==
  /\ \A p \in Procs :
       IF lives[p] = 0 THEN dead[p] /\ pid[p] = 0
       ELSE pid[p] = apid_from(p, lives[p] % NumGens)
  /\ \A r \in issued :
       /\ r.life <= lives[r.proc]
       /\ r.pid = apid_from(r.proc, r.life % NumGens)

\* No pid was handed out at first.
LEMMA InitPids == Init => PidsCountLives
BY DEF Init, PidsCountLives

\* A step hands out pids of the life it begins only.
LEMMA PidsStep ==
  ASSUME IInv, PidsCountLives, [Next]_vars
  PROVE  PidsCountLives'
<1>0. /\ lives \in [Procs -> Nat] /\ pid \in [Procs -> Nat]
      /\ dead \in [Procs -> BOOLEAN]
      /\ issued \subseteq [pid : Nat, proc : Procs, life : Nat]
  BY DEF IInv, Struct, TypeOK, TypeTable
<1>1. CASE Create
  <2>1. PICK p \in Procs : ascheduler_alloc(p) /\ (Issue(p) \/ UNCHANGED issued)
    BY <1>1 DEF Create, HostNewActor, SpawnStarted, SpawnStuck, SpawnNoTask
  <2>2. /\ pid' = [pid EXCEPT ![p] =
                      apid_from(p, (apid_gen(pid[p]) + 1) % NumGens)]
        /\ dead' = [dead EXCEPT ![p] = FALSE]
        /\ lives' = [lives EXCEPT ![p] = @ + 1]
    BY <2>1 DEF ascheduler_alloc, NextGen
  <2>3. lives[p] \in Nat /\ p \in Nat
    BY <1>0, PidAssumption DEF Procs
  <2>4. apid_gen(pid[p]) = lives[p] % NumGens
    <3>1. CASE lives[p] = 0
      <4>1. pid[p] = 0
        BY <3>1 DEF PidsCountLives
      <4>2. 0 * NumGens + 0 = 0 /\ (0 * NumGens + 0) % NumGens = 0
        BY ZeroGeneration, PidAssumption, DivModUnique
      <4> QED BY <3>1, <4>1, <4>2, ZeroGeneration
    <3>2. CASE lives[p] # 0
      <4>1. pid[p] = apid_from(p, lives[p] % NumGens)
        BY <3>2 DEF PidsCountLives
      <4>2. lives[p] % NumGens \in 0 .. NumGens - 1
        BY <2>3, PidAssumption, ModBounds
      <4> QED BY <2>3, <4>1, <4>2, PidRoundTrip
    <3> QED BY <3>1, <3>2
  <2>5. (apid_gen(pid[p]) + 1) % NumGens = (lives[p] + 1) % NumGens
    BY <2>3, <2>4, PidAssumption, ModSucc
  <2>6. lives'[p] = lives[p] + 1 /\ lives'[p] # 0
        /\ pid'[p] = apid_from(p, lives'[p] % NumGens)
    BY <1>0, <2>2, <2>3, <2>5
  <2>7. ASSUME NEW q \in Procs
        PROVE  IF lives'[q] = 0 THEN dead'[q] /\ pid'[q] = 0
               ELSE pid'[q] = apid_from(q, lives'[q] % NumGens)
    <3>1. CASE q = p
      BY <2>6, <3>1
    <3>2. CASE q # p
      <4>1. lives'[q] = lives[q] /\ pid'[q] = pid[q] /\ dead'[q] = dead[q]
        BY <1>0, <2>2, <3>2
      <4> QED BY <4>1 DEF PidsCountLives
    <3> QED BY <3>1, <3>2
  <2>8. ASSUME NEW r \in issued'
        PROVE  /\ r.life <= lives'[r.proc]
               /\ r.pid = apid_from(r.proc, r.life % NumGens)
    <3>1. CASE r \in issued
      <4>1. r.proc \in Procs /\ r.life \in Nat
        BY <1>0, <3>1
      <4>2. r.life <= lives[r.proc] /\ r.pid = apid_from(r.proc, r.life % NumGens)
        BY <3>1 DEF PidsCountLives
      <4>3. lives[r.proc] <= lives'[r.proc] /\ lives'[r.proc] \in Nat
            /\ lives[r.proc] \in Nat
        <5>1. CASE r.proc = p
          BY <2>3, <2>6, <5>1
        <5>2. CASE r.proc # p
          <6>1. lives'[r.proc] = lives[r.proc] /\ lives[r.proc] \in Nat
            BY <1>0, <2>2, <4>1, <5>2
          <6> QED BY <6>1
        <5> QED BY <5>1, <5>2
      <4> QED BY <4>1, <4>2, <4>3
    <3>2. CASE r \notin issued
      <4>1. r = [pid |-> pid'[p], proc |-> p, life |-> lives'[p]]
        BY <2>1, <2>8, <3>2 DEF Issue
      <4>2. r.pid = pid'[p] /\ r.proc = p /\ r.life = lives'[p]
        BY <4>1
      <4> QED BY <2>3, <2>6, <4>2
    <3> QED BY <3>1, <3>2
  <2> QED BY <2>7, <2>8 DEF PidsCountLives
<1>2. CASE /\ UNCHANGED <<pid, lives, issued>>
           /\ \A p \in Procs : dead[p] => dead'[p]
  BY <1>2 DEF PidsCountLives
<1>3. CASE RunOnce \/ Shutdown
  <2>1. UNCHANGED <<pid, lives, issued>>
    BY <1>3 DEF RunOnce, Shutdown, free_all
  <2>2. \A p \in Procs : dead[p] => dead'[p]
    BY <1>3 DEF RunOnce, Shutdown, free_all
  <2> QED BY <1>2, <2>1, <2>2
<1>4. CASE UNCHANGED table
  BY <1>2, <1>4 DEF table
<1> QED
  BY <1>1, <1>3, <1>4, NextCases
  DEF HostStart, Yield, Exit, Peek, RecvTimeout, Remove, Rewind, Sleep, RecvWait,
      Send, Tick, vars

\* ascheduler_actor on any pid that was ever handed out.
LEMMA PidsFind == IInv /\ PidsCountLives => StalePidFindsNobodyElse
<1> SUFFICES ASSUME IInv, PidsCountLives,
                    NEW r \in issued, NEW p \in ascheduler_actor(r.pid)
             PROVE  p = r.proc /\ (r.life = lives[p] \/ lives[p] - r.life >= NumGens)
  BY DEF StalePidFindsNobodyElse
<1>1. /\ r.proc \in Procs /\ r.life \in Nat
      /\ r.life <= lives[r.proc]
      /\ r.pid = apid_from(r.proc, r.life % NumGens)
  BY DEF IInv, Struct, TypeOK, TypeTable, PidsCountLives
<1>2. p \in Procs /\ p = apid_idx(r.pid) /\ pid[p] = r.pid /\ ~dead[p]
  BY DEF ascheduler_actor
<1>3. r.proc \in Nat /\ r.life % NumGens \in 0 .. NumGens - 1
  <2>1. r.proc \in Nat
    BY <1>1, PidAssumption DEF Procs
  <2>2. r.life % NumGens \in 0 .. NumGens - 1
    BY <1>1, PidAssumption, ModBounds
  <2> QED BY <2>1, <2>2
<1>4. p = r.proc
  BY <1>1, <1>2, <1>3, PidRoundTrip
<1>5. lives[p] \in Nat /\ pid[p] = apid_from(p, lives[p] % NumGens)
  BY <1>2 DEF IInv, Struct, TypeOK, TypeTable, PidsCountLives
<1>6. lives[p] % NumGens \in 0 .. NumGens - 1
  BY <1>5, PidAssumption, ModBounds
<1>7. lives[p] % NumGens = r.life % NumGens
  <2>1. apid_gen(r.pid) = r.life % NumGens
    BY <1>1, <1>3, PidRoundTrip
  <2>2. apid_gen(pid[p]) = lives[p] % NumGens
    BY <1>3, <1>4, <1>5, <1>6, PidRoundTrip
  <2> QED BY <1>2, <2>1, <2>2
<1>8. r.life = lives[p] \/ lives[p] - r.life >= NumGens
  BY <1>1, <1>4, <1>5, <1>7, PidAssumption, SameGeneration
<1> QED BY <1>4, <1>8

\* A pid finds the process it was issued for, nobody, or a process whole
\* turns of the generation later, for all widths of its parts.
THEOREM PidsCorrect == Spec => []StalePidFindsNobodyElse
<1>1. IInv /\ PidsCountLives /\ [Next]_vars => PidsCountLives'
  BY PidsStep
<1> QED BY <1>1, InitPids, IInvHolds, PidsFind, PTL DEF Spec
-----------------------------------------------------------------------------
(***************************************************************************)
(* The timer.                                                              *)
(***************************************************************************)

\* Before the first pass nobody has run, hence nobody waits.  The first pass
\* sets the timer without looking at waitings, which is sound only for that
\* reason.
FirstPass == first_run => cur = Root /\ waitings = <<>>

TimerInv == FirstPass /\ TimerAccountsForEveryTick

\* Nothing was waited for at first.
LEMMA InitTimer == Init => TimerInv
<1> SUFFICES ASSUME Init PROVE TimerInv
  OBVIOUS
<1>1. Range(<<>>) = {}
  BY DEF Range
<1> QED BY <1>1 DEF Init, TimerInv, FirstPass, TimerAccountsForEveryTick

\* Every step settles the accounts of those who wait.
LEMMA TimerStep ==
  ASSUME IInv, TimerInv, [Next]_vars
  PROVE  TimerInv'
<1>0. /\ TypeOK /\ ListsPartitionProcesses /\ Range(<<>>) = {}
      /\ wait_for \in [Procs -> Int] /\ lag \in Nat
      /\ nap \in [Procs -> [usecs : Int, slept : Nat, credit : Nat]]
  BY DEF IInv, Struct, TypeOK, TypeWaits, TypeControl, Range
<1>b. Range(waitings) \subseteq Procs
  BY <1>0, LenProperties DEF TypeOK, TypeLists, Range
\* A process that keeps its period and its place keeps its account.
<1>c. ASSUME lag' = lag, NEW p \in Procs, p \in Range(waitings),
             wait_for'[p] = wait_for[p], nap'[p] = nap[p],
             wait_for'[p] >= 0, nap'[p].usecs >= 0
      PROVE  wait_for'[p] = nap'[p].usecs - (nap'[p].slept + nap'[p].credit - lag')
  BY <1>c DEF TimerInv, TimerAccountsForEveryTick
<1>1. CASE Create
  <2>1. PICK p \in Procs : ascheduler_alloc(p)
    BY <1>1 DEF Create, HostNewActor, SpawnStarted, SpawnStuck, SpawnNoTask
  <2>2. UNCHANGED <<cur, waitings, lag, first_run>>
    BY <1>1 DEF Create, HostNewActor, SpawnStarted, SpawnStuck, SpawnNoTask,
                lists, time
  <2>3. nap' = nap /\ wait_for' = [wait_for EXCEPT ![p] = 0]
    BY <2>1 DEF ascheduler_alloc
  <2>4. p \notin Range(waitings)
    BY <2>1, AllocatedIsUnlinked DEF IInv
  <2>5. TimerAccountsForEveryTick'
    BY <1>0, <1>b, <2>2, <2>3, <2>4 DEF TimerInv, TimerAccountsForEveryTick
  <2> QED BY <2>2, <2>5 DEF TimerInv, FirstPass
<1>2. CASE \E p \in Procs : HostStart(p)
  <2>1. PICK p \in Procs : HostStart(p)
    BY <1>2
  <2>2. /\ UNCHANGED <<cur, lag, first_run, wait_for, nap>> /\ add_to_runnings(p)
        /\ pc[p] = "new"
    BY <2>1 DEF HostStart, time, waits
  <2>3. Range(waitings') = Range(waitings) \ {p} /\ waitings' \in Seq(Procs)
    BY <1>0, <2>2, AddToRunnings
  <2>4. TimerAccountsForEveryTick'
    BY <2>2, <2>3 DEF TimerInv, TimerAccountsForEveryTick
  <2>5. waitings = <<>> => waitings' = <<>>
    <3> SUFFICES ASSUME waitings = <<>>, waitings' # <<>> PROVE FALSE
      OBVIOUS
    <3>1. Range(waitings') = {}
      BY <1>0, <2>3
    <3>2. 1 \in DOMAIN waitings'
      BY <2>3, EmptySeq, LenProperties
    <3> QED BY <3>1, <3>2 DEF Range
  <2> QED BY <2>2, <2>4, <2>5 DEF TimerInv, FirstPass
<1>3. CASE Yield \/ Exit \/ Peek \/ RecvTimeout \/ Remove \/ Rewind
  <2>1. UNCHANGED <<waits, waitings, lag, first_run>> /\ cur # Root
    BY <1>3 DEF Yield, Exit, Peek, RecvTimeout, Remove, Rewind, ActorCalls,
                lists, time
  <2> QED BY <2>1 DEF waits, TimerInv, FirstPass, TimerAccountsForEveryTick
<1>4. CASE \E usecs \in Periods : Sleep(usecs) \/ RecvWait(usecs)
  <2>1. PICK usecs \in Periods, on_msg \in BOOLEAN : wait_for_(cur, usecs, on_msg)
    BY <1>4 DEF Sleep, RecvWait
  <2>2. cur # Root /\ UNCHANGED <<lag, first_run>> /\ usecs \in Int
    BY <1>4, SchedulerAssumption DEF Sleep, RecvWait, ActorCalls, time
  <2>3. Range(waitings') = Range(waitings) \cup {cur} /\ cur \in Procs
    BY <1>0, <2>1, <2>2, WaitForMoves DEF TypeOK, TypeControl
  <2>4. /\ wait_for' = [wait_for EXCEPT ![cur] = usecs]
        /\ nap' = [nap EXCEPT ![cur] =
             IF usecs < 0 THEN NoNap
             ELSE [usecs |-> usecs, slept |-> 0, credit |-> lag]]
    BY <2>1 DEF wait_for_
  <2>5. ASSUME NEW p \in Range(waitings'), wait_for'[p] >= 0, nap'[p].usecs >= 0
        PROVE  wait_for'[p] = nap'[p].usecs - (nap'[p].slept + nap'[p].credit - lag')
    <3>1. CASE p = cur
      <4>1. wait_for'[p] = usecs /\ usecs >= 0
        BY <1>0, <2>3, <2>4, <2>5, <3>1
      <4>2. nap'[p] = [usecs |-> usecs, slept |-> 0, credit |-> lag]
        BY <1>0, <2>2, <2>3, <2>4, <3>1, <4>1
      <4>3. nap'[p].usecs = usecs /\ nap'[p].slept = 0 /\ nap'[p].credit = lag
        BY <4>2
      <4> QED BY <1>0, <2>2, <4>1, <4>3
    <3>2. CASE p # cur
      <4>1. p \in Range(waitings) /\ p \in Procs
        BY <1>b, <2>3, <2>5, <3>2
      <4>2. wait_for'[p] = wait_for[p] /\ nap'[p] = nap[p]
        BY <1>0, <2>4, <3>2, <4>1
      <4> QED BY <1>c, <2>2, <2>5, <4>1, <4>2
    <3> QED BY <3>1, <3>2
  <2> QED BY <2>2, <2>5 DEF TimerInv, FirstPass, TimerAccountsForEveryTick
<1>5. CASE \E q \in Pids, m \in Msgs : Send(q, m)
  <2>1. PICK p \in Procs : got_new_message(p)
    BY <1>5 DEF Send, ascheduler_actor
  <2>2. UNCHANGED <<cur, lag, first_run>> /\ cur # Root
    BY <1>5 DEF Send, ActorCalls, time
  <2>3. CASE wake_on_msg[p]
    <3>1. /\ wait_for' = [wait_for EXCEPT ![p] = 0]
          /\ nap' = [nap EXCEPT ![p] = NoNap]
          /\ add_to_runnings(p)
      BY <2>1, <2>3 DEF got_new_message
    <3>2. Range(waitings') = Range(waitings) \ {p}
      BY <1>0, <3>1, AddToRunnings
    <3>3. TimerAccountsForEveryTick'
      BY <1>0, <1>b, <1>c, <2>2, <3>1, <3>2 DEF TimerAccountsForEveryTick
    <3> QED BY <2>2, <3>3 DEF TimerInv, FirstPass
  <2>4. CASE ~wake_on_msg[p]
    <3>1. UNCHANGED <<waits, lists>>
      BY <2>1, <2>4 DEF got_new_message
    <3> QED BY <2>2, <3>1 DEF waits, lists, TimerInv, FirstPass,
                              TimerAccountsForEveryTick
  <2> QED BY <2>3, <2>4
<1>6. CASE RunOnce
  <2>1. Range(waitings') = Range(waitings) \ Woken
    BY <1>0, <1>6, RunOnceLists
  <2>2. /\ first_run' = FALSE /\ lag' = 0
        /\ wait_for' = [p \in Procs |->
             CASE p \in Woken -> 0
               [] p \in Range(waitings) \ Woken /\ wait_for[p] >= 0
                    -> wait_for[p] - Delta
               [] OTHER -> wait_for[p]]
        /\ nap' = [p \in Procs |-> IF p \in Woken THEN NoNap ELSE nap[p]]
    BY <1>6 DEF RunOnce
  <2>3. ASSUME NEW p \in Range(waitings'), wait_for'[p] >= 0, nap'[p].usecs >= 0
        PROVE  wait_for'[p] = nap'[p].usecs - (nap'[p].slept + nap'[p].credit - lag')
    <3>1. p \in Range(waitings) /\ p \in Procs /\ p \notin Woken
      BY <1>b, <2>1
    <3>2. Delta = lag
      BY <1>0, <3>1 DEF TimerInv, FirstPass, Delta
    <3>3. nap'[p] = nap[p] /\ wait_for[p] \in Int
      BY <1>0, <2>2, <3>1
    <3>4. wait_for[p] >= 0 /\ wait_for'[p] = wait_for[p] - lag
      <4>1. CASE wait_for[p] >= 0
        BY <2>2, <3>1, <3>2, <4>1
      <4>2. CASE ~(wait_for[p] >= 0)
        BY <2>2, <2>3, <3>1, <4>2
      <4> QED BY <4>1, <4>2
    <3>5. wait_for[p] = nap[p].usecs - (nap[p].slept + nap[p].credit - lag)
      BY <2>3, <3>1, <3>3, <3>4 DEF TimerInv, TimerAccountsForEveryTick
    <3>6. nap[p].usecs \in Int /\ nap[p].slept \in Nat /\ nap[p].credit \in Nat
      BY <1>0, <3>1
    <3> QED BY <1>0, <2>2, <3>3, <3>4, <3>5, <3>6
  <2> QED BY <2>2, <2>3 DEF TimerInv, FirstPass, TimerAccountsForEveryTick
<1>7. CASE Shutdown
  <2>1. waitings' = <<>> /\ cur' = Root
    BY <1>7 DEF Shutdown, HostCalls
  <2> QED BY <1>0, <2>1 DEF TimerInv, FirstPass, TimerAccountsForEveryTick
<1>8. CASE Tick
  <2>1. /\ UNCHANGED <<cur, waitings, first_run, wait_for>> /\ lag' = lag + 1
        /\ nap' = [p \in Procs |->
             IF p \in Range(waitings) /\ wait_for[p] >= 0
             THEN [nap[p] EXCEPT !.slept = @ + 1] ELSE nap[p]]
    BY <1>8 DEF Tick, lists
  <2>2. ASSUME NEW p \in Range(waitings'), wait_for'[p] >= 0, nap'[p].usecs >= 0
        PROVE  wait_for'[p] = nap'[p].usecs - (nap'[p].slept + nap'[p].credit - lag')
    <3>1. p \in Procs /\ p \in Range(waitings) /\ wait_for[p] >= 0
      BY <1>b, <2>1, <2>2
    <3>2. nap[p] \in [usecs : Int, slept : Nat, credit : Nat]
      BY <1>0, <3>1
    <3>3. nap'[p] = [nap[p] EXCEPT !.slept = nap[p].slept + 1]
      BY <2>1, <3>1
    <3>4. /\ nap'[p].usecs = nap[p].usecs /\ nap'[p].slept = nap[p].slept + 1
          /\ nap'[p].credit = nap[p].credit
      BY <3>2, <3>3
    <3>5. wait_for[p] = nap[p].usecs - (nap[p].slept + nap[p].credit - lag)
      BY <2>2, <3>1, <3>4 DEF TimerInv, TimerAccountsForEveryTick
    <3>6. nap[p].usecs \in Int /\ nap[p].slept \in Nat /\ nap[p].credit \in Nat
      BY <3>2
    <3>7. wait_for'[p] = wait_for[p] /\ lag' = lag + 1 /\ lag \in Nat
      BY <1>0, <2>1
    <3> QED BY <3>4, <3>5, <3>6, <3>7
  <2> QED BY <2>1, <2>2 DEF TimerInv, FirstPass, TimerAccountsForEveryTick
<1>9. CASE UNCHANGED vars
  BY <1>9 DEF vars, lists, waits, time, TimerInv, FirstPass,
              TimerAccountsForEveryTick
<1> QED BY <1>1, <1>2, <1>3, <1>4, <1>5, <1>6, <1>7, <1>8, <1>9, NextCases

\* What is left of a wait is always the period less the time waited, up to
\* how late the timer was at its start and is now: check_waitings counts no
\* tick twice and forgets none.
THEOREM TimerCorrect == Spec => []TimerAccountsForEveryTick
<1>1. IInv /\ TimerInv /\ [Next]_vars => TimerInv'
  BY TimerStep
<1>2. TimerInv => TimerAccountsForEveryTick
  BY DEF TimerInv
<1> QED BY <1>1, <1>2, InitTimer, IInvHolds, PTL DEF Spec
-----------------------------------------------------------------------------
(***************************************************************************)
(* The scheduler implements Actors: every step is one of Actors, or none.  *)
(***************************************************************************)

\* The next task is the first of those behind.
LEMMA NextTaskBehind ==
  ASSUME runnings \in Seq(Procs), NoDup(runnings), NEW p \in Range(runnings)
  PROVE  /\ NextTask(p) = Root => \A q : ~Before(runnings, p, q)
         /\ NextTask(p) # Root =>
              /\ Before(runnings, p, NextTask(p))
              /\ \A q : Before(runnings, NextTask(p), q) <=> Before(runnings, p, q) /\ q # NextTask(p)
<1>1. Len(runnings) \in Nat /\ DOMAIN runnings = 1 .. Len(runnings) /\ \A k \in 1 .. Len(runnings) : runnings[k] \in Procs
  BY LenProperties
<1>2. \E i \in 1 .. Len(runnings) : runnings[i] = p
  BY <1>1 DEF Range
<1> DEFINE i == CHOOSE i \in 1 .. Len(runnings) : runnings[i] = p
<1>3. i \in 1 .. Len(runnings) /\ runnings[i] = p
  BY <1>2
<1>4. NextTask(p) = IF i < Len(runnings) THEN runnings[i + 1] ELSE Root
  BY DEF NextTask
<1> HIDE DEF i
<1>5. \A k \in 1 .. Len(runnings) : runnings[k] = p => k = i
  BY <1>3 DEF NoDup
<1>6. CASE ~(i < Len(runnings))
  <2>1. NextTask(p) = Root
    BY <1>4, <1>6
  <2>2. \A q : ~Before(runnings, p, q)
    BY <1>1, <1>3, <1>5, <1>6 DEF Before
  <2> QED BY <2>1, <2>2
<1>7. CASE i < Len(runnings)
  <2>1. i + 1 \in 1 .. Len(runnings) /\ NextTask(p) = runnings[i + 1] /\ NextTask(p) # Root
    BY <1>1, <1>3, <1>4, <1>7, RootIsNoProcess
  <2>2. Before(runnings, p, NextTask(p))
    BY <1>3, <2>1 DEF Before
  <2>3. \A k \in 1 .. Len(runnings) : runnings[k] = NextTask(p) => k = i + 1
    BY <2>1 DEF NoDup
  <2>4. ASSUME NEW q, Before(runnings, NextTask(p), q)
        PROVE  Before(runnings, p, q) /\ q # NextTask(p)
    <3>1. PICK k, l \in 1 .. Len(runnings) : k < l /\ runnings[k] = NextTask(p) /\ runnings[l] = q
      BY <2>4 DEF Before
    <3>2. k = i + 1 /\ i < l /\ l # i + 1
      BY <1>3, <2>3, <3>1
    <3> QED BY <1>3, <2>3, <3>1, <3>2 DEF Before
  <2>5. ASSUME NEW q, Before(runnings, p, q), q # NextTask(p)
        PROVE  Before(runnings, NextTask(p), q)
    <3>1. PICK k, l \in 1 .. Len(runnings) : k < l /\ runnings[k] = p /\ runnings[l] = q
      BY <2>5 DEF Before
    <3>2. k = i /\ l # i + 1
      BY <1>5, <2>1, <2>5, <3>1
    <3>3. i + 1 < l
      BY <1>3, <3>1, <3>2
    <3> QED BY <2>1, <3>1, <3>3 DEF Before
  <2> QED BY <2>1, <2>2, <2>4, <2>5
<1> QED BY <1>6, <1>7

\* A dead slot keeps no message, even for a process that failed to start.
DeadMail == \A p \in Procs : dead[p] => msbox[p] = <<>> /\ msg_pp[p] = 0

\* All mailboxes are empty at first.
LEMMA InitDeadMail == Init => DeadMail
BY DEF Init, DeadMail

\* Only live processes get messages.
LEMMA DeadMailStep ==
  ASSUME IInv, DeadMail, [Next]_vars
  PROVE  DeadMail'
<1>0. /\ dead \in [Procs -> BOOLEAN] /\ msg_pp \in [Procs -> Nat]
      /\ msbox \in [Procs -> Seq(Msgs)] /\ pc \in [Procs -> Pcs] /\ cur \in Procs \cup {Root}
      /\ \A p \in Procs : dead[p] => pc[p] = "none"
  BY DEF IInv, Struct, TypeOK, TypeTable, TypeMail, TypeControl, ListsPartitionProcesses
<1>1. CASE UNCHANGED <<dead, mail>>
  BY <1>1 DEF DeadMail, mail
<1>2. CASE Create
  <2>1. PICK p \in Procs : ascheduler_alloc(p) /\ (aactor_init(p) \/ UNCHANGED mail)
    BY <1>2 DEF Create, HostNewActor, SpawnStarted, SpawnStuck, SpawnNoTask
  <2>2. \A q \in Procs : dead'[q] => dead[q] /\ q # p
    BY <1>0, <2>1 DEF ascheduler_alloc
  <2>3. \A q \in Procs : q # p => msbox'[q] = msbox[q] /\ msg_pp'[q] = msg_pp[q]
    BY <1>0, <2>1 DEF aactor_init, mail
  <2> QED BY <2>2, <2>3 DEF DeadMail
<1>3. CASE Peek \/ Remove \/ Rewind
  <2>1. /\ UNCHANGED dead /\ cur \in Procs /\ pc[cur] # "none"
        /\ \A q \in Procs : q # cur => msbox'[q] = msbox[q] /\ msg_pp'[q] = msg_pp[q]
    BY <1>0, <1>3 DEF Peek, Remove, Rewind, ActorCalls, table
  <2> QED BY <1>0, <2>1 DEF DeadMail
<1>4. CASE \E q \in Pids, m \in Msgs : Send(q, m)
  <2>1. PICK p \in Procs : ~dead[p] /\ UNCHANGED <<dead, msg_pp>> /\ \A q \in Procs : q # p => msbox'[q] = msbox[q]
    BY <1>0, <1>4 DEF Send, ascheduler_actor, table
  <2> QED BY <2>1 DEF DeadMail
<1>5. CASE RunOnce \/ Shutdown
  <2>1. PICK G : free_all(G)
    BY <1>5 DEF RunOnce, Shutdown
  <2> QED BY <2>1 DEF DeadMail, free_all
<1>6. \/ UNCHANGED <<dead, mail>> \/ Create \/ Peek \/ Remove \/ Rewind
      \/ \E q \in Pids, m \in Msgs : Send(q, m)
      \/ RunOnce \/ Shutdown
  BY NextCases DEF HostStart, Yield, Exit, RecvTimeout, RecvWait, Sleep, Tick, SendDropped, vars, table
<1> QED BY <1>1, <1>2, <1>3, <1>4, <1>5, <1>6

\* What the mapping rests on.
Good == IInv /\ NoLostWakeup /\ DeadMail

\* The mapping may rest on that in every state.
LEMMA GoodHolds == Spec => []Good
<1>1. Init => DeadMail
  BY InitDeadMail
<1>2. IInv /\ DeadMail /\ [Next]_vars => DeadMail'
  BY DeadMailStep
<1> QED BY <1>1, <1>2, IInvHolds, NoWakeupIsLost, PTL DEF Spec, Good

\* The status of an actor by the lists and flags.
StatusFacts ==
  /\ Status \in [Procs -> {"free", "lost", "idle", "done", "receiving", "asleep", "ready"}]
  /\ \A p \in Procs :
       /\ Status[p] = "free" <=> dead[p]
       /\ Status[p] = "lost" <=> ~dead[p] /\ pc[p] = "none"
       /\ Status[p] = "idle" <=> pc[p] \in {"new", "stuck"}
       /\ Status[p] = "done" <=> pc[p] = "done"
       /\ Status[p] = "receiving" <=> ~dead[p] /\ wake_on_msg[p]
       /\ Status[p] = "asleep" <=> p \in Range(waitings) /\ ~wake_on_msg[p]
       /\ Status[p] = "ready" <=> p \in Range(runnings) /\ pc[p] # "done"

\* The cases exclude each other.
StatusIsThat(st, d, c, w, r, k) ==
  /\ st \in {"free", "lost", "idle", "done", "receiving", "asleep", "ready"}
  /\ st = "free" <=> d
  /\ st = "lost" <=> ~d /\ c = "none"
  /\ st = "idle" <=> c \in {"new", "stuck"}
  /\ st = "done" <=> c = "done"
  /\ st = "receiving" <=> ~d /\ k
  /\ st = "asleep" <=> w /\ ~k
  /\ st = "ready" <=> r /\ c # "done"

\* A status by the cases that define it.
LEMMA StatusCases ==
  ASSUME NEW st, NEW d \in BOOLEAN, NEW c \in {"none", "new", "stuck", "run", "recv", "done"},
         NEW w \in BOOLEAN, NEW r \in BOOLEAN, NEW k \in BOOLEAN,
         r \/ w <=> c \in {"run", "recv", "done"},
         w => c # "done", ~(r /\ w), d => c = "none", ~d /\ k => c = "recv" /\ w,
         st = CASE d -> "free"
                [] ~d /\ c = "none" -> "lost"
                [] c \in {"new", "stuck"} -> "idle"
                [] c = "done" -> "done"
                [] w /\ k /\ ~d -> "receiving"
                [] w /\ ~k /\ ~d -> "asleep"
                [] OTHER -> "ready"
  PROVE  StatusIsThat(st, d, c, w, r, k)
<1>1. CASE d
  BY <1>1 DEF StatusIsThat
<1>2. CASE ~d /\ c = "none"
  BY <1>2 DEF StatusIsThat
<1>3. CASE ~d /\ c \in {"new", "stuck"}
  BY <1>3 DEF StatusIsThat
<1>4. CASE ~d /\ c = "done"
  BY <1>4 DEF StatusIsThat
<1>5. CASE ~d /\ c \in {"run", "recv"} /\ w /\ k
  BY <1>5 DEF StatusIsThat
<1>6. CASE ~d /\ c \in {"run", "recv"} /\ w /\ ~k
  BY <1>6 DEF StatusIsThat
<1>7. CASE ~d /\ c \in {"run", "recv"} /\ ~w
  BY <1>7 DEF StatusIsThat
<1> QED BY <1>1, <1>2, <1>3, <1>4, <1>5, <1>6, <1>7

\* The mapped status says where the process is linked.
LEMMA StatusIs == Good => StatusFacts
<1> SUFFICES ASSUME Good PROVE StatusFacts
  OBVIOUS
<1>1. /\ pc \in [Procs -> Pcs] /\ dead \in [Procs -> BOOLEAN] /\ wake_on_msg \in [Procs -> BOOLEAN]
  BY DEF Good, IInv, Struct, TypeOK, TypeTable, TypeWaits, TypeControl
<1>2. \A p \in Procs :
       /\ p \in Range(pendings) <=> pc[p] \in {"new", "stuck"}
       /\ p \in Range(runnings) \cup Range(waitings)
            <=> pc[p] \in {"run", "recv", "done"}
       /\ p \in Range(waitings) => pc[p] # "done"
       /\ dead[p] => pc[p] = "none"
       /\ ~(p \in Range(runnings) /\ p \in Range(waitings))
  BY DEF Good, IInv, Struct, ListsPartitionProcesses
<1>3. \A p \in Procs : ~dead[p] /\ wake_on_msg[p] => pc[p] = "recv" /\ p \in Range(waitings)
  BY DEF Good, NoLostWakeup
<1>4. \A p \in Procs : pc[p] \in {"none", "new", "stuck", "run", "recv", "done"}
  BY <1>1 DEF Pcs
<1>5. ASSUME NEW p \in Procs
      PROVE  /\ StatusOf(p) \in {"free", "lost", "idle", "done", "receiving", "asleep", "ready"}
             /\ StatusOf(p) = "free" <=> dead[p]
             /\ StatusOf(p) = "lost" <=> ~dead[p] /\ pc[p] = "none"
             /\ StatusOf(p) = "idle" <=> pc[p] \in {"new", "stuck"}
             /\ StatusOf(p) = "done" <=> pc[p] = "done"
             /\ StatusOf(p) = "receiving" <=> ~dead[p] /\ wake_on_msg[p]
             /\ StatusOf(p) = "asleep" <=> p \in Range(waitings) /\ ~wake_on_msg[p]
             /\ StatusOf(p) = "ready" <=> p \in Range(runnings) /\ pc[p] # "done"
  <2> DEFINE w == p \in Range(waitings)
             r == p \in Range(runnings)
  <2>1. /\ r \/ w <=> pc[p] \in {"run", "recv", "done"}
        /\ w => pc[p] # "done"
        /\ ~(r /\ w)
        /\ dead[p] => pc[p] = "none"
        /\ ~dead[p] /\ wake_on_msg[p] => pc[p] = "recv" /\ w
        /\ pc[p] \in {"none", "new", "stuck", "run", "recv", "done"}
        /\ dead[p] \in BOOLEAN /\ wake_on_msg[p] \in BOOLEAN /\ w \in BOOLEAN /\ r \in BOOLEAN
    BY <1>1, <1>2, <1>3, <1>4
  <2>2. StatusOf(p) =
          CASE dead[p] -> "free"
            [] ~dead[p] /\ pc[p] = "none" -> "lost"
            [] pc[p] \in {"new", "stuck"} -> "idle"
            [] pc[p] = "done" -> "done"
            [] w /\ wake_on_msg[p] /\ ~dead[p] -> "receiving"
            [] w /\ ~wake_on_msg[p] /\ ~dead[p] -> "asleep"
            [] OTHER -> "ready"
    BY DEF StatusOf
  <2>3. StatusIsThat(StatusOf(p), dead[p], pc[p], w, r, wake_on_msg[p])
    <3> HIDE DEF w, r
    <3> QED BY <2>1, <2>2, StatusCases
  <2> QED BY <2>3 DEF StatusIsThat
<1> QED BY <1>5 DEF StatusFacts, Status

\* So it does after the step.
LEMMA StatusNext == Good' => StatusFacts'
BY StatusIs, PTL

\* Somebody is behind the running process only while there is one.
LEMMA BehindIs ==
  /\ Behind = {p \in Procs : Before(runnings, cur, p)}
  /\ runnings \in Seq(Procs) /\ cur = Root => Behind = {}
<1>1. Behind = {p \in Procs : Before(runnings, cur, p)}
  BY DEF Behind, Before
<1>2. ASSUME runnings \in Seq(Procs), cur = Root PROVE \A p : ~Before(runnings, cur, p)
  BY <1>2, RootIsNoProcess, ElementOfSeq DEF Before
<1> QED BY <1>1, <1>2

\* The processes behind the running one, after a step.
LEMMA BehindNext == (Behind = {p \in Procs : Before(runnings, cur, p)})'
BY BehindIs, PTL

\* Nobody is behind the host, after a step.
LEMMA BehindNextIsNone == (runnings \in Seq(Procs) /\ cur = Root => Behind = {})'
BY BehindIs, PTL

\* What the mapped steps read of a good state.
GoodShape ==
  /\ dead \in [Procs -> BOOLEAN] /\ wake_on_msg \in [Procs -> BOOLEAN]
  /\ pc \in [Procs -> Pcs]
  /\ msbox \in [Procs -> Seq(Msgs)] /\ msg_pp \in [Procs -> Nat]
  /\ \A p \in Procs : msg_pp[p] <= Len(msbox[p])
  /\ runnings \in Seq(Procs) /\ NoDup(runnings)
  /\ waitings \in Seq(Procs) /\ NoDup(waitings)
  /\ Range(runnings) \cap Range(waitings) = {}
  /\ cur \in Procs \cup {Root} /\ up \in BOOLEAN
  /\ cur # Root => /\ cur \in Range(runnings) /\ cur \notin Range(waitings)
                   /\ ~dead[cur] /\ ~wake_on_msg[cur]
                   /\ pc[cur] \in {"run", "recv", "done"}
  /\ \A p \in Procs : dead[p] => pc[p] = "none"

\* A good state has that shape.
LEMMA GoodHasShape == Good => GoodShape
<1> SUFFICES ASSUME Good PROVE GoodShape
  OBVIOUS
<1>1. /\ dead \in [Procs -> BOOLEAN] /\ wake_on_msg \in [Procs -> BOOLEAN]
      /\ pc \in [Procs -> Pcs]
      /\ msbox \in [Procs -> Seq(Msgs)] /\ msg_pp \in [Procs -> Nat]
      /\ \A p \in Procs : msg_pp[p] <= Len(msbox[p])
      /\ runnings \in Seq(Procs) /\ waitings \in Seq(Procs)
      /\ cur \in Procs \cup {Root} /\ up \in BOOLEAN
  BY DEF Good, IInv, Struct, TypeOK, TypeTable, TypeLists, TypeWaits, TypeMail, TypeControl
<1>2. /\ NoDup(runnings) /\ NoDup(waitings)
      /\ Range(runnings) \cap Range(waitings) = {}
      /\ cur # Root => cur \in Range(runnings)
      /\ \A p \in Procs : p \in Range(runnings) \cup Range(waitings)
            <=> pc[p] \in {"run", "recv", "done"}
      /\ \A p \in Procs : dead[p] => pc[p] = "none"
  BY DEF Good, IInv, Struct, ListsPartitionProcesses
<1>3. ASSUME cur # Root
      PROVE  /\ cur \in Range(runnings) /\ cur \notin Range(waitings)
             /\ ~dead[cur] /\ ~wake_on_msg[cur]
             /\ pc[cur] \in {"run", "recv", "done"}
  <2>1. cur \in Procs /\ cur \in Range(runnings) /\ cur \notin Range(waitings)
    BY <1>1, <1>2, <1>3
  <2>2. pc[cur] \in {"run", "recv", "done"} /\ ~dead[cur]
    BY <1>2, <2>1
  <2>3. ~wake_on_msg[cur]
    BY <2>1, <2>2 DEF Good, IInv, OnlyWaitersWait
  <2> QED BY <2>1, <2>2, <2>3
<1> QED BY <1>1, <1>2, <1>3 DEF GoodShape

\* A process that stays where it is keeps its status.
LEMMA StatusStays ==
  ASSUME StatusFacts, StatusFacts', NEW p \in Procs,
         dead'[p] = dead[p], wake_on_msg'[p] = wake_on_msg[p],
         pc'[p] = pc[p] \/ (pc[p] \in {"run", "recv"} /\ pc'[p] \in {"run", "recv"}),
         p \in Range(waitings') <=> p \in Range(waitings),
         p \in Range(runnings') <=> p \in Range(runnings)
  PROVE  Status'[p] = Status[p]
<1>1. /\ Status[p] \in {"free", "lost", "idle", "done", "receiving", "asleep", "ready"}
      /\ Status'[p] \in {"free", "lost", "idle", "done", "receiving", "asleep", "ready"}
  BY DEF StatusFacts
<1>2. /\ Status[p] = "free" <=> Status'[p] = "free"
      /\ Status[p] = "lost" <=> Status'[p] = "lost"
      /\ Status[p] = "idle" <=> Status'[p] = "idle"
      /\ Status[p] = "done" <=> Status'[p] = "done"
      /\ Status[p] = "receiving" <=> Status'[p] = "receiving"
      /\ Status[p] = "asleep" <=> Status'[p] = "asleep"
      /\ Status[p] = "ready" <=> Status'[p] = "ready"
  BY DEF StatusFacts
<1> QED BY <1>1, <1>2

\* Status changes for one process only.
LEMMA StatusOne ==
  ASSUME StatusFacts, StatusFacts', NEW p \in Procs, NEW s, Status'[p] = s,
         \A q \in Procs : q # p => Status'[q] = Status[q]
  PROVE  Status' = [Status EXCEPT ![p] = s]
<1>1. DOMAIN Status = Procs /\ DOMAIN Status' = Procs
      /\ Status \in [Procs -> {"free", "lost", "idle", "done", "receiving", "asleep", "ready"}]
      /\ Status' \in [Procs -> {"free", "lost", "idle", "done", "receiving", "asleep", "ready"}]
  BY DEF StatusFacts
<1> QED BY <1>1

\* No status changes.
LEMMA StatusSame ==
  ASSUME StatusFacts, StatusFacts', \A q \in Procs : Status'[q] = Status[q]
  PROVE  Status' = Status
<1>1. /\ Status \in [Procs -> {"free", "lost", "idle", "done", "receiving", "asleep", "ready"}]
      /\ Status' \in [Procs -> {"free", "lost", "idle", "done", "receiving", "asleep", "ready"}]
  BY DEF StatusFacts
<1> QED BY <1>1

\* The initial state is one of Actors.
LEMMA InitMap == Init => Promise!AInit
<1> SUFFICES ASSUME Init PROVE Promise!AInit
  OBVIOUS
<1>1. Status = [p \in Procs |-> "free"]
  BY DEF Init, Status, StatusOf
<1>2. Active = Root
  BY DEF Init, Active
<1>3. Behind = {}
  <2>1. runnings \in Seq(Procs) /\ cur = Root
    BY DEF Init
  <2> QED BY <2>1, BehindIs
<1>4. Seen = [p \in Procs |-> <<>>]
  <2>1. \A p \in Procs : SubSeq(msbox[p], 1, msg_pp[p]) = <<>>
    BY DEF Init
  <2> QED BY <2>1 DEF Seen
<1>5. Unseen = [p \in Procs |-> <<>>]
  <2>1. \A p \in Procs : msbox[p] = <<>> /\ msg_pp[p] = 0 /\ SubSeq(<<>>, 1, 0) = <<>>
    BY DEF Init
  <2>2. \A p \in Procs : SubSeq(msbox[p], msg_pp[p] + 1, Len(msbox[p])) = <<>>
    BY <2>1
  <2> QED BY <2>2 DEF Unseen
<1> QED BY <1>1, <1>2, <1>3, <1>4, <1>5 DEF Promise!AInit

\* A process is created.
LEMMA CreateMap ==
  ASSUME Good, Good', Create
  PROVE  Promise!ANext
<1>1. GoodShape /\ StatusFacts /\ StatusFacts' /\ DeadMail
  BY GoodHasShape, StatusIs, StatusNext DEF Good
<1>2. PICK p \in Procs :
        /\ ascheduler_alloc(p)
        /\ aactor_init(p) \/ UNCHANGED mail
        /\ \/ up /\ cur = Root
           \/ up /\ cur # Root
        /\ UNCHANGED <<up, cur, waitings>>
        /\ \/ pc' = [pc EXCEPT ![p] = "new"] /\ UNCHANGED runnings
           \/ pc' = [pc EXCEPT ![p] = "stuck"] /\ UNCHANGED runnings
           \/ pc' = pc /\ UNCHANGED runnings
           \/ /\ pc' = [pc EXCEPT ![p] = "run"] /\ runnings' = Append(runnings, p)
              /\ cur # Root
  <2>1. CASE HostNewActor
    BY <2>1 DEF HostNewActor, HostCalls
  <2>2. CASE SpawnStarted
    BY <2>2 DEF SpawnStarted, ActorCalls
  <2>3. CASE SpawnStuck
    BY <2>3 DEF SpawnStuck, HostCalls, ActorCalls
  <2>4. CASE SpawnNoTask
    BY <2>4 DEF SpawnNoTask, HostCalls, ActorCalls, lists
  <2> QED BY <2>1, <2>2, <2>3, <2>4 DEF Create
<1>3. /\ dead[p] /\ pc[p] = "none" /\ msbox[p] = <<>> /\ msg_pp[p] = 0
      /\ dead' = [dead EXCEPT ![p] = FALSE]
      /\ wake_on_msg' = [wake_on_msg EXCEPT ![p] = FALSE]
      /\ p # cur /\ p \notin Range(waitings)
  <2>1. dead[p] /\ dead' = [dead EXCEPT ![p] = FALSE]
        /\ wake_on_msg' = [wake_on_msg EXCEPT ![p] = FALSE]
    BY <1>2 DEF ascheduler_alloc
  <2>2. p \notin Range(waitings)
    BY <1>2, AllocatedIsUnlinked DEF Good, IInv
  <2> QED BY <1>1, <2>1, <2>2, RootIsNoProcess DEF GoodShape, DeadMail
<1>4. Seen' = Seen /\ Unseen' = Unseen
  <2>1. msbox' = msbox /\ msg_pp' = msg_pp
    BY <1>1, <1>2, <1>3 DEF aactor_init, mail, GoodShape
  <2> QED BY <2>1 DEF Seen, Unseen
<1>5. Active' = Active /\ Active # -2
  BY <1>1, <1>2 DEF Active, GoodShape, Procs, Root
<1>6. Status[p] = "free"
  BY <1>1, <1>3 DEF StatusFacts
<1>7. ASSUME UNCHANGED runnings PROVE Behind' = Behind
  BY <1>2, <1>7 DEF Behind
<1>8. ASSUME NEW s, Status'[p] = s PROVE Status' = [Status EXCEPT ![p] = s]
  <2>1. ASSUME NEW q \in Procs, q # p PROVE Status'[q] = Status[q]
    <3>1. /\ dead'[q] = dead[q] /\ wake_on_msg'[q] = wake_on_msg[q] /\ pc'[q] = pc[q]
          /\ q \in Range(waitings') <=> q \in Range(waitings)
      BY <1>1, <1>2, <1>3, <2>1 DEF GoodShape
    <3>2. Range(Append(runnings, p)) = Range(runnings) \cup {p}
      BY <1>1, AppendNoDup DEF GoodShape
    <3>3. runnings' = runnings \/ runnings' = Append(runnings, p)
      BY <1>2
    <3>4. q \in Range(runnings') <=> q \in Range(runnings)
      BY <2>1, <3>2, <3>3
    <3> QED BY <1>1, <3>1, <3>4, StatusStays
  <2> QED BY <1>1, <1>8, <2>1, StatusOne
<1>9. CASE pc' = [pc EXCEPT ![p] = "new"] /\ UNCHANGED runnings
  <2>1. Status'[p] = "idle"
    BY <1>1, <1>3, <1>9 DEF StatusFacts, GoodShape
  <2>2. Promise!Create(p, "idle")
    BY <1>4, <1>5, <1>6, <1>7, <1>8, <1>9, <2>1 DEF Promise!Create
  <2> QED BY <2>2 DEF Promise!ANext
<1>10. CASE pc' = [pc EXCEPT ![p] = "stuck"] /\ UNCHANGED runnings
  <2>1. Status'[p] = "idle"
    BY <1>1, <1>3, <1>10 DEF StatusFacts, GoodShape
  <2>2. Promise!Create(p, "idle")
    BY <1>4, <1>5, <1>6, <1>7, <1>8, <1>10, <2>1 DEF Promise!Create
  <2> QED BY <2>2 DEF Promise!ANext
<1>11. CASE pc' = pc /\ UNCHANGED runnings
  <2>1. Status'[p] = "lost"
    BY <1>1, <1>3, <1>11 DEF StatusFacts, GoodShape
  <2>2. Promise!Create(p, "lost")
    BY <1>4, <1>5, <1>6, <1>7, <1>8, <1>11, <2>1 DEF Promise!Create
  <2> QED BY <2>2 DEF Promise!ANext
<1>12. CASE pc' = [pc EXCEPT ![p] = "run"] /\ runnings' = Append(runnings, p) /\ cur # Root
  <2>1. Range(runnings') = Range(runnings) \cup {p} /\ cur \in Range(runnings)
    BY <1>1, <1>12, AppendNoDup DEF GoodShape
  <2>2. Status'[p] = "ready"
    BY <1>1, <1>3, <1>12, <2>1 DEF StatusFacts, GoodShape
  <2>3. \A q : Before(runnings', cur, q) <=> Before(runnings, cur, q) \/ q = p
    BY <1>1, <1>12, <2>1, BeforeAppend DEF GoodShape
  <2>4. Behind' = Behind \cup {p}
    BY <1>2, <2>3, BehindIs, BehindNext
  <2>5. Active # Root
    BY <1>2, <1>12 DEF Active
  <2>6. Promise!Create(p, "ready")
    BY <1>4, <1>5, <1>6, <1>8, <2>2, <2>4, <2>5 DEF Promise!Create
  <2> QED BY <2>6 DEF Promise!ANext
<1> QED BY <1>2, <1>9, <1>10, <1>11, <1>12

\* The host starts a process.
LEMMA HostStartMap ==
  ASSUME Good, Good', NEW p \in Procs, HostStart(p)
  PROVE  Promise!ANext
<1>1. GoodShape /\ StatusFacts /\ StatusFacts'
  BY GoodHasShape, StatusIs, StatusNext DEF Good
<1>2. /\ up /\ cur = Root /\ UNCHANGED <<up, cur, dead, wake_on_msg, msbox, msg_pp>>
      /\ pc[p] = "new" /\ pc' = [pc EXCEPT ![p] = "run"] /\ add_to_runnings(p)
  BY DEF HostStart, HostCalls, table, waits, mail
<1>3. /\ Range(runnings') = Range(runnings) \cup {p}
      /\ Range(waitings') = Range(waitings) \ {p}
      /\ runnings' \in Seq(Procs)
  BY <1>2, AddToRunnings DEF Good, IInv, Struct
<1>4. Active = Root /\ Active' = Active
  BY <1>2 DEF Active
<1>5. Behind = {} /\ Behind' = {}
  BY <1>1, <1>2, <1>3, BehindIs, BehindNextIsNone DEF GoodShape
<1>6. Seen' = Seen /\ Unseen' = Unseen
  BY <1>2 DEF Seen, Unseen
<1>7. Status[p] = "idle" /\ Status'[p] = "ready"
  BY <1>1, <1>2, <1>3 DEF StatusFacts, GoodShape
<1>8. ASSUME NEW q \in Procs, q # p PROVE Status'[q] = Status[q]
  BY <1>1, <1>2, <1>3, <1>8, StatusStays DEF GoodShape
<1>9. Status' = [Status EXCEPT ![p] = "ready"]
  BY <1>1, <1>7, <1>8, StatusOne
<1>10. Promise!Start(p)
  BY <1>4, <1>5, <1>6, <1>7, <1>9 DEF Promise!Start
<1> QED BY <1>10 DEF Promise!ANext

\* The thread passes to the first of those behind.  The process that gives it
\* up may leave the list.
LEMMA PassOnMap ==
  ASSUME GoodShape, up, up' = up, cur # Root, cur' = NextTask(cur),
         runnings' = runnings \/ runnings' = Erase(runnings, cur)
  PROVE  Promise!PassOn(Behind)
<1>1. runnings \in Seq(Procs) /\ NoDup(runnings) /\ cur \in Range(runnings) /\ cur \in Procs
  BY DEF GoodShape
<1>2. Behind = {q \in Procs : Before(runnings, cur, q)}
      /\ Behind' = {q \in Procs : Before(runnings', cur', q)}
  BY BehindIs, BehindNext
<1>3. \A a, b : Before(runnings', a, b) =>
        Before(runnings, a, b)
  BY <1>1, BeforeErase
<1>4. \A q : ~Before(runnings, q, q)
  BY <1>1, LenProperties DEF Before, NoDup
<1>5. CASE NextTask(cur) = Root
  <2>1. Behind = {} /\ Active' = Root
    BY <1>1, <1>2, <1>5, NextTaskBehind DEF Active
  <2>2. \A q : ~Before(runnings, Root, q)
    BY <1>1, BeforeMembers, RootIsNoProcess, RangeOfSeq
  <2>3. Behind' = {}
    BY <1>2, <1>3, <1>5, <2>2
  <2> QED BY <2>1, <2>3 DEF Promise!PassOn
<1>6. CASE NextTask(cur) # Root
  <2> DEFINE a == NextTask(cur)
  <2>1. /\ Before(runnings, cur, a)
        /\ \A q : Before(runnings, a, q) <=> Before(runnings, cur, q) /\ q # a
    BY <1>1, <1>6, NextTaskBehind
  <2>2. a \in Range(runnings) \ {cur} /\ a \in Procs
    BY <1>1, <1>6, NextTaskProperties, RangeOfSeq
  <2>3. ~Before(runnings, a, cur)
    BY <1>4, <2>1
  <2>4. \A q : Before(runnings', a, q) <=> Before(runnings, a, q)
    BY <1>1, <2>2, <2>3, BeforeErase
  <2> HIDE DEF a
  <2>5. a \in Behind
    BY <1>2, <2>1, <2>2
  <2>6. Behind' = Behind \ {a}
    BY <1>2, <2>1, <2>4 DEF a
  <2>7. Active' = a
    BY DEF Active, a
  <2> QED BY <2>5, <2>6, <2>7 DEF Promise!PassOn
<1> QED BY <1>5, <1>6

\* The running process yields, exits, sleeps or waits for a message.
LEMMA YieldMap ==
  ASSUME Good, Good', Yield \/ Exit
  PROVE  Promise!ANext
<1>1. GoodShape /\ StatusFacts /\ StatusFacts'
  BY GoodHasShape, StatusIs, StatusNext DEF Good
<1>2. /\ up /\ up' = up /\ cur # Root /\ cur' = NextTask(cur)
      /\ UNCHANGED <<runnings, waitings, dead, wake_on_msg, msbox, msg_pp>>
      /\ pc' = pc \/ pc' = [pc EXCEPT ![cur] = "done"]
  BY DEF Yield, Exit, ActorCalls, table, waits, lists, mail
<1>3. Promise!PassOn(Behind)
  BY <1>1, <1>2, PassOnMap
<1>4. Seen' = Seen /\ Unseen' = Unseen
  BY <1>2 DEF Seen, Unseen
<1>5. cur \in Procs /\ Active = cur
  BY <1>1, <1>2 DEF GoodShape, Active
<1>6. Status'[cur] = "ready" \/ Status'[cur] = "done"
  <2>1. pc'[cur] \in {"run", "recv", "done"} /\ cur \in Range(runnings') /\ cur \in Procs
    BY <1>1, <1>2, <1>5 DEF GoodShape
  <2> QED BY <1>1, <2>1 DEF StatusFacts
<1>7. ASSUME NEW q \in Procs, q # cur PROVE Status'[q] = Status[q]
  BY <1>1, <1>2, <1>7, StatusStays DEF GoodShape
<1>8. Status' = [Status EXCEPT ![cur] = Status'[cur]]
  BY <1>1, <1>5, <1>7, StatusOne
<1>9. ASSUME NEW s \in {"ready", "done"}, Status'[cur] = s
      PROVE  Promise!GiveUp(s)
  BY <1>3, <1>4, <1>5, <1>8, <1>9 DEF Promise!GiveUp
<1> QED BY <1>6, <1>9 DEF Promise!ANext

\* The running process sleeps or waits for a message.
LEMMA WaitMap ==
  ASSUME Good, Good', NEW usecs \in Periods, Sleep(usecs) \/ RecvWait(usecs)
  PROVE  Promise!ANext
<1>1. GoodShape /\ StatusFacts /\ StatusFacts'
  BY GoodHasShape, StatusIs, StatusNext DEF Good
<1>2. PICK on_msg \in BOOLEAN :
        /\ up /\ up' = up /\ cur # Root
        /\ wait_for_(cur, usecs, on_msg)
        /\ UNCHANGED <<dead, msbox, msg_pp>>
        /\ pc[cur] = "run" /\ (pc' = pc \/ pc' = [pc EXCEPT ![cur] = "recv"])
        /\ on_msg => msg_pp[cur] >= Len(msbox[cur])
  <2>1. CASE Sleep(usecs)
    BY <2>1 DEF Sleep, ActorCalls, table, mail
  <2>2. CASE RecvWait(usecs)
    BY <2>2 DEF RecvWait, ActorCalls, table, mail
  <2> QED BY <2>1, <2>2
<1>3. cur \in Procs /\ Active = cur
  BY <1>1, <1>2 DEF GoodShape, Active
<1>4. /\ cur' = NextTask(cur) /\ runnings' = Erase(runnings, cur)
      /\ wake_on_msg' = [wake_on_msg EXCEPT ![cur] = on_msg]
      /\ Range(runnings') = Range(runnings) \ {cur}
      /\ Range(waitings') = Range(waitings) \cup {cur}
  <2>1. usecs \in Int
    BY SchedulerAssumption
  <2> QED BY <1>2, <2>1, WaitForMoves DEF Good, IInv, Struct, wait_for_
<1>5. Promise!PassOn(Behind)
  BY <1>1, <1>2, <1>4, PassOnMap
<1>6. Seen' = Seen /\ Unseen' = Unseen
  BY <1>2 DEF Seen, Unseen
<1>7. Status'[cur] = IF on_msg THEN "receiving" ELSE "asleep"
  BY <1>1, <1>2, <1>3, <1>4 DEF StatusFacts, GoodShape
<1>8. ASSUME NEW q \in Procs, q # cur PROVE Status'[q] = Status[q]
  BY <1>1, <1>2, <1>3, <1>4, <1>8, StatusStays DEF GoodShape
<1>9. Status' = [Status EXCEPT ![cur] = Status'[cur]]
  BY <1>1, <1>3, <1>8, StatusOne
<1>10. on_msg => Unseen[cur] = <<>>
  <2>1. msg_pp[cur] \in Nat /\ Len(msbox[cur]) \in Nat /\ msbox[cur] \in Seq(Msgs)
    BY <1>1, <1>3, LenProperties DEF GoodShape
  <2>2. ASSUME on_msg PROVE SubSeq(msbox[cur], msg_pp[cur] + 1, Len(msbox[cur])) = <<>>
    BY <1>2, <2>1, <2>2, SubSeqProperties, EmptySeq
  <2> QED BY <1>3, <2>2 DEF Unseen
<1>11. ASSUME NEW s \in {"receiving", "asleep"}, Status'[cur] = s, s = "receiving" => on_msg
      PROVE  Promise!GiveUp(s)
  BY <1>3, <1>5, <1>6, <1>9, <1>10, <1>11 DEF Promise!GiveUp
<1>12. Promise!GiveUp(IF on_msg THEN "receiving" ELSE "asleep")
  BY <1>7, <1>11
<1> QED BY <1>12 DEF Promise!ANext

\* The mailbox of one process changes.
LEMMA MailOne ==
  ASSUME GoodShape, NEW p \in Procs,
         msbox' \in [Procs -> Seq(Msgs)], msg_pp' \in [Procs -> Nat],
         \A q \in Procs : q # p => msbox'[q] = msbox[q] /\ msg_pp'[q] = msg_pp[q]
  PROVE  /\ Seen' = [Seen EXCEPT ![p] = SubSeq(msbox'[p], 1, msg_pp'[p])]
         /\ Unseen' = [Unseen EXCEPT ![p] =
              SubSeq(msbox'[p], msg_pp'[p] + 1, Len(msbox'[p]))]
BY DEF Seen, Unseen

\* What every step inside a receive has in common.
LEMMA MailboxStays ==
  ASSUME Good, Good', up, up' = up, cur # Root,
         UNCHANGED <<cur, table, lists, waits>>,
         pc' = pc \/ (pc[cur] \in {"run", "recv"} /\ pc' = [pc EXCEPT ![cur] = "run"])
  PROVE  /\ Status' = Status /\ Active' = Active /\ Behind' = Behind
         /\ Active = cur /\ cur \in Procs
<1>1. GoodShape /\ StatusFacts /\ StatusFacts'
  BY GoodHasShape, StatusIs, StatusNext DEF Good
<1>2. UNCHANGED <<runnings, waitings, dead, wake_on_msg>>
  BY DEF table, lists, waits
<1>3. cur \in Procs
  BY <1>1 DEF GoodShape
<1>4. Active = cur /\ Active' = Active /\ Behind' = Behind
  BY <1>2 DEF Active, Behind
<1>5. ASSUME NEW q \in Procs PROVE Status'[q] = Status[q]
  <2>1. pc'[q] = pc[q] \/ (pc[q] \in {"run", "recv"} /\ pc'[q] \in {"run", "recv"})
    BY <1>1, <1>3 DEF GoodShape
  <2> QED BY <1>1, <1>2, <2>1, StatusStays
<1> QED BY <1>1, <1>3, <1>4, <1>5, StatusSame

\* A receive sees the oldest unseen message.
LEMMA PeekMap ==
  ASSUME Good, Good', Peek
  PROVE  Promise!ANext
<1>1. GoodShape /\ GoodShape'
  BY GoodHasShape, PTL
<1>2. /\ up /\ up' = up /\ cur # Root /\ UNCHANGED <<cur, table, lists, waits, msbox>>
      /\ msg_pp[cur] < Len(msbox[cur]) /\ msg_pp' = [msg_pp EXCEPT ![cur] = @ + 1]
      /\ pc[cur] \in {"run", "recv"} /\ pc' = [pc EXCEPT ![cur] = "run"]
  BY DEF Peek
<1>3. /\ Status' = Status /\ Active' = Active /\ Behind' = Behind
      /\ Active = cur /\ cur \in Procs
  BY <1>2, MailboxStays
<1> DEFINE s == msbox[cur]
           n == msg_pp[cur]
<1>4. /\ s \in Seq(Msgs) /\ n \in Nat /\ Len(s) \in Nat /\ n < Len(s)
      /\ msbox'[cur] = s /\ msg_pp'[cur] = n + 1
  BY <1>1, <1>2, <1>3, LenProperties DEF GoodShape
<1>5. /\ msbox' \in [Procs -> Seq(Msgs)] /\ msg_pp' \in [Procs -> Nat]
      /\ \A q \in Procs : q # cur => msbox'[q] = msbox[q] /\ msg_pp'[q] = msg_pp[q]
  BY <1>1, <1>2, <1>3 DEF GoodShape
<1>6. Seen[cur] = SubSeq(s, 1, n) /\ Unseen[cur] = SubSeq(s, n + 1, Len(s))
  BY <1>3 DEF Seen, Unseen
<1> HIDE DEF s, n
<1>7. /\ Unseen[cur] # <<>>
      /\ Head(Unseen[cur]) = s[n + 1] /\ Tail(Unseen[cur]) = SubSeq(s, n + 2, Len(s))
      /\ SubSeq(s, 1, n + 1) = Append(Seen[cur], s[n + 1])
  BY <1>4, <1>6, SplitNext
<1>8. (n + 1) + 1 = n + 2
  BY <1>4
<1>9. /\ Seen' = [Seen EXCEPT ![cur] = SubSeq(msbox'[cur], 1, msg_pp'[cur])]
      /\ Unseen' = [Unseen EXCEPT ![cur] =
           SubSeq(msbox'[cur], msg_pp'[cur] + 1, Len(msbox'[cur]))]
  BY <1>1, <1>3, <1>5, MailOne
<1>10. /\ Seen' = [Seen EXCEPT ![cur] = Append(Seen[cur], Head(Unseen[cur]))]
       /\ Unseen' = [Unseen EXCEPT ![cur] = Tail(Unseen[cur])]
  BY <1>4, <1>7, <1>8, <1>9
<1>11. Promise!See
  BY <1>3, <1>7, <1>10 DEF Promise!See
<1> QED BY <1>11 DEF Promise!ANext

\* The receiver goes back to the front.
LEMMA RewindMap ==
  ASSUME Good, Good', Rewind
  PROVE  Promise!ANext
<1>1. GoodShape
  BY GoodHasShape
<1>2. /\ up /\ up' = up /\ cur # Root /\ UNCHANGED <<cur, pc, table, lists, waits, msbox>>
      /\ msg_pp' = [msg_pp EXCEPT ![cur] = 0]
  BY DEF Rewind, ActorCalls
<1>3. /\ Status' = Status /\ Active' = Active /\ Behind' = Behind
      /\ Active = cur /\ cur \in Procs
  BY <1>2, MailboxStays
<1> DEFINE s == msbox[cur]
           n == msg_pp[cur]
<1>4. /\ s \in Seq(Msgs) /\ n \in Nat /\ Len(s) \in Nat /\ n <= Len(s)
      /\ msbox'[cur] = s /\ msg_pp'[cur] = 0
  BY <1>1, <1>2, <1>3, LenProperties DEF GoodShape
<1>5. /\ msbox' \in [Procs -> Seq(Msgs)] /\ msg_pp' \in [Procs -> Nat]
      /\ \A q \in Procs : q # cur => msbox'[q] = msbox[q] /\ msg_pp'[q] = msg_pp[q]
  BY <1>1, <1>2, <1>3 DEF GoodShape
<1>6. Seen[cur] = SubSeq(s, 1, n) /\ Unseen[cur] = SubSeq(s, n + 1, Len(s))
  BY <1>3 DEF Seen, Unseen
<1> HIDE DEF s, n
<1>7. SubSeq(s, 1, 0) = <<>> /\ SubSeq(s, 0 + 1, Len(s)) = s
  BY <1>4, SubSeqEmpty, SubSeqFull
<1>8. Seen[cur] \o Unseen[cur] = s
  <2>1. n \in 0 .. Len(s)
    BY <1>4
  <2>2. SubSeq(s, 1, n) \o SubSeq(s, n + 1, Len(s)) = s
    BY <1>4, <2>1, SplitWhole
  <2> QED BY <1>6, <2>2
<1>9. /\ Seen' = [Seen EXCEPT ![cur] = SubSeq(msbox'[cur], 1, msg_pp'[cur])]
      /\ Unseen' = [Unseen EXCEPT ![cur] =
           SubSeq(msbox'[cur], msg_pp'[cur] + 1, Len(msbox'[cur]))]
  BY <1>1, <1>3, <1>5, MailOne
<1>11. /\ Seen' = [Seen EXCEPT ![cur] = <<>>]
       /\ Unseen' = [Unseen EXCEPT ![cur] = Seen[cur] \o Unseen[cur]]
  BY <1>4, <1>7, <1>8, <1>9
<1>10. Promise!SeeAgain
  BY <1>3, <1>11 DEF Promise!SeeAgain
<1> QED BY <1>10 DEF Promise!ANext

\* The message last seen is removed.
LEMMA RemoveMap ==
  ASSUME Good, Good', Remove
  PROVE  Promise!ANext
<1>1. GoodShape /\ GoodShape'
  BY GoodHasShape, PTL
<1> DEFINE s == msbox[cur]
           n == msg_pp[cur]
           t == SubSeq(s, 1, n - 1) \o SubSeq(s, n + 1, Len(s))
<1>2. /\ up /\ up' = up /\ cur # Root /\ UNCHANGED <<cur, pc, table, lists, waits>>
      /\ n > 0 /\ msg_pp' = [msg_pp EXCEPT ![cur] = 0]
      /\ msbox' = [msbox EXCEPT ![cur] = t]
  BY DEF Remove, ActorCalls
<1>3. /\ Status' = Status /\ Active' = Active /\ Behind' = Behind
      /\ Active = cur /\ cur \in Procs
  BY <1>2, MailboxStays
<1>4. /\ s \in Seq(Msgs) /\ n \in Nat /\ Len(s) \in Nat /\ n <= Len(s) /\ n \in 1 .. Len(s)
      /\ msbox'[cur] = t /\ msg_pp'[cur] = 0
  <2>1. s \in Seq(Msgs) /\ n \in Nat /\ Len(s) \in Nat /\ n <= Len(s)
    BY <1>1, <1>3, LenProperties DEF GoodShape
  <2>2. msbox'[cur] = t /\ msg_pp'[cur] = 0
    BY <1>1, <1>2, <1>3 DEF GoodShape
  <2> HIDE DEF t, s, n
  <2>3. n \in 1 .. Len(s)
    BY <1>2, <2>1
  <2> QED BY <2>1, <2>2, <2>3
<1>5. /\ msbox' \in [Procs -> Seq(Msgs)] /\ msg_pp' \in [Procs -> Nat]
      /\ \A q \in Procs : q # cur => msbox'[q] = msbox[q] /\ msg_pp'[q] = msg_pp[q]
  BY <1>1, <1>2, <1>3 DEF GoodShape
<1>6. Seen[cur] = SubSeq(s, 1, n) /\ Unseen[cur] = SubSeq(s, n + 1, Len(s))
  BY <1>3 DEF Seen, Unseen
<1> HIDE DEF s, n
<1>7. /\ Len(Seen[cur]) = n /\ Seen[cur] # <<>>
      /\ SubSeq(Seen[cur], 1, n - 1) = SubSeq(s, 1, n - 1)
  BY <1>4, <1>6, SplitDrop
<1> DEFINE b == msbox'[cur]
<1>8. b \in Seq(Msgs)
  BY <1>3, <1>5
<1>9. SubSeq(b, 1, 0) = <<>> /\ SubSeq(b, 0 + 1, Len(b)) = b
  BY <1>8, SubSeqEmpty, SubSeqFull
<1>10. b = SubSeq(Seen[cur], 1, Len(Seen[cur]) - 1) \o Unseen[cur]
  BY <1>4, <1>6, <1>7
<1> HIDE DEF t
<1>11. /\ Seen' = [Seen EXCEPT ![cur] = SubSeq(b, 1, msg_pp'[cur])]
       /\ Unseen' = [Unseen EXCEPT ![cur] = SubSeq(b, msg_pp'[cur] + 1, Len(b))]
  BY <1>1, <1>3, <1>5, MailOne
<1> HIDE DEF b
<1>13. Seen' = [Seen EXCEPT ![cur] = <<>>] /\ Unseen' = [Unseen EXCEPT ![cur] = b]
  BY <1>4, <1>9, <1>11
<1>12. Promise!Drop
  BY <1>3, <1>7, <1>10, <1>13 DEF Promise!Drop
<1> QED BY <1>12 DEF Promise!ANext

\* Nothing that Actors sees: a timeout, a tick, a message that is dropped.
LEMMA NothingMap ==
  ASSUME Good, Good', RecvTimeout \/ Tick \/ UNCHANGED vars
  PROVE  UNCHANGED Promise!avars
<1>1. GoodShape /\ StatusFacts /\ StatusFacts'
  BY GoodHasShape, StatusIs, StatusNext DEF Good
<1>2. /\ UNCHANGED <<up, cur, runnings, waitings, dead, wake_on_msg, msbox, msg_pp>>
      /\ pc' = pc \/ (cur \in Procs /\ pc[cur] = "recv" /\ pc' = [pc EXCEPT ![cur] = "run"])
  <2>1. CASE RecvTimeout
    BY <1>1, <2>1 DEF RecvTimeout, table, lists, waits, mail, GoodShape
  <2>2. CASE Tick
    BY <2>2 DEF Tick, table, lists, mail
  <2>3. CASE UNCHANGED vars
    BY <2>3 DEF vars, table, lists, waits, mail
  <2> QED BY <2>1, <2>2, <2>3
<1>3. ASSUME NEW q \in Procs PROVE Status'[q] = Status[q]
  <2>1. pc'[q] = pc[q] \/ (pc[q] \in {"run", "recv"} /\ pc'[q] \in {"run", "recv"})
    BY <1>1, <1>2 DEF GoodShape
  <2> QED BY <1>1, <1>2, <2>1, StatusStays
<1>4. Status' = Status
  BY <1>1, <1>3, StatusSame
<1>5. Active' = Active /\ Behind' = Behind /\ Seen' = Seen /\ Unseen' = Unseen
  BY <1>2 DEF Active, Behind, Seen, Unseen
<1> QED BY <1>4, <1>5 DEF Promise!avars

\* A message is sent.
LEMMA SendMap ==
  ASSUME Good, Good', NEW q \in Pids, NEW m \in Msgs, Send(q, m)
  PROVE  Promise!ANext
<1>1. GoodShape /\ StatusFacts /\ StatusFacts' /\ GoodShape'
  BY GoodHasShape, StatusIs, StatusNext, PTL DEF Good
<1>2. PICK p \in Procs :
        /\ ~dead[p] /\ up /\ cur # Root
        /\ msbox' = [msbox EXCEPT ![p] = Append(@, m)]
        /\ got_new_message(p)
        /\ UNCHANGED <<up, cur, pc, dead, msg_pp>>
  BY DEF Send, ActorCalls, ascheduler_actor, table
<1>3. Active = cur /\ Active' = Active /\ cur \in Procs /\ cur \in Range(runnings)
  BY <1>1, <1>2 DEF Active, GoodShape
<1>4. Status[p] # "free"
  BY <1>1, <1>2 DEF StatusFacts
<1> DEFINE s == msbox[p]
           n == msg_pp[p]
<1>5. /\ s \in Seq(Msgs) /\ Len(s) \in Nat /\ n \in 0 .. Len(s)
      /\ msbox'[p] = Append(s, m) /\ msg_pp'[p] = n /\ Len(Append(s, m)) = Len(s) + 1
  BY <1>1, <1>2, LenProperties, AppendProperties DEF GoodShape
<1>6. /\ msbox' \in [Procs -> Seq(Msgs)] /\ msg_pp' \in [Procs -> Nat]
      /\ \A r \in Procs : r # p => msbox'[r] = msbox[r] /\ msg_pp'[r] = msg_pp[r]
  BY <1>1, <1>2 DEF GoodShape
<1>7. Seen[p] = SubSeq(s, 1, n) /\ Unseen[p] = SubSeq(s, n + 1, Len(s))
  BY DEF Seen, Unseen
<1> HIDE DEF s, n
<1>8. /\ SubSeq(Append(s, m), 1, n) = Seen[p]
      /\ SubSeq(Append(s, m), n + 1, Len(s) + 1) = Append(Unseen[p], m)
  BY <1>5, <1>7, SubSeqAppend
<1>9. /\ Seen' = [Seen EXCEPT ![p] = SubSeq(msbox'[p], 1, msg_pp'[p])]
      /\ Unseen' = [Unseen EXCEPT ![p] =
           SubSeq(msbox'[p], msg_pp'[p] + 1, Len(msbox'[p]))]
  BY <1>1, <1>6, MailOne
<1>10. /\ Seen' = [Seen EXCEPT ![p] = Seen[p]]
       /\ Unseen' = [Unseen EXCEPT ![p] = Append(Unseen[p], m)]
  BY <1>5, <1>8, <1>9
<1>11. Seen' = Seen
  BY <1>10 DEF Seen
<1>12. CASE ~wake_on_msg[p]
  <2>1. UNCHANGED <<runnings, waitings, wake_on_msg>>
    BY <1>2, <1>12 DEF got_new_message, lists, waits
  <2>2. \A r \in Procs : Status'[r] = Status[r]
    BY <1>1, <1>2, <2>1, StatusStays
  <2>3. Status' = Status /\ Behind' = Behind
    BY <1>1, <1>2, <2>1, <2>2, StatusSame DEF Behind
  <2>4. Status[p] # "receiving"
    BY <1>1, <1>12 DEF StatusFacts
  <2>5. Promise!Deliver(p, m)
    BY <1>3, <1>4, <1>10, <1>11, <2>3, <2>4 DEF Promise!Deliver
  <2> QED BY <2>5 DEF Promise!ANext
<1>13. CASE wake_on_msg[p]
  <2>1. /\ wake_on_msg' = [wake_on_msg EXCEPT ![p] = FALSE] /\ add_to_runnings(p)
        /\ pc[p] = "recv" /\ p \in Range(waitings) /\ p \notin Range(runnings)
    BY <1>1, <1>2, <1>13 DEF got_new_message, Good, NoLostWakeup, GoodShape
  <2>2. /\ Range(runnings') = Range(runnings) \cup {p}
        /\ Range(waitings') = Range(waitings) \ {p}
        /\ runnings' = Append(Erase(runnings, p), p)
    BY <2>1, AddToRunnings DEF Good, IInv, Struct, add_to_runnings
  <2>3. Status[p] = "receiving" /\ Status'[p] = "ready"
    BY <1>1, <1>2, <1>13, <2>1, <2>2 DEF StatusFacts, GoodShape
  <2>4. ASSUME NEW r \in Procs, r # p PROVE Status'[r] = Status[r]
    BY <1>1, <1>2, <2>1, <2>2, <2>4, StatusStays DEF GoodShape
  <2>5. Status' = [Status EXCEPT ![p] = "ready"]
    BY <1>1, <2>3, <2>4, StatusOne
  <2>6. Erase(runnings, p) \in Seq(Procs) /\ Range(Erase(runnings, p)) = Range(runnings) \ {p}
    BY <1>1, FilterProperties DEF GoodShape, Erase
  <2>7. \A r : Before(runnings', cur, r) <=> Before(runnings, cur, r) \/ r = p
    <3>1. \A r : Before(runnings', cur, r) <=>
            Before(Erase(runnings, p), cur, r) \/ (cur \in Range(Erase(runnings, p)) /\ r = p)
      BY <2>2, <2>6, BeforeAppend
    <3>2. \A r : Before(Erase(runnings, p), cur, r) <=> Before(runnings, cur, r) /\ cur # p /\ r # p
      BY <1>1, BeforeErase DEF GoodShape
    <3>3. cur # p /\ cur \in Range(Erase(runnings, p))
      BY <1>3, <2>1, <2>6
    <3>4. \A r : Before(runnings, cur, r) => r # p
      BY <1>1, <2>1, BeforeMembers DEF GoodShape
    <3> QED BY <3>1, <3>2, <3>3, <3>4
  <2>8. Behind' = Behind \cup {p}
    BY <1>2, <2>7, BehindIs, BehindNext
  <2>9. Promise!Deliver(p, m)
    BY <1>3, <1>4, <1>10, <1>11, <2>3, <2>5, <2>8 DEF Promise!Deliver
  <2> QED BY <2>9 DEF Promise!ANext
<1> QED BY <1>12, <1>13

\* The host starts a pass.
LEMMA RunOnceMap ==
  ASSUME Good, Good', RunOnce
  PROVE  Promise!ANext
<1>1. GoodShape /\ StatusFacts /\ StatusFacts' /\ GoodShape'
  BY GoodHasShape, StatusIs, StatusNext, PTL DEF Good
<1>2. /\ up /\ up' = up /\ cur = Root /\ free_all(Exited)
      /\ wake_on_msg' = [p \in Procs |-> wake_on_msg[p] /\ p \notin Woken]
      /\ cur' = IF runnings' = <<>> THEN Root ELSE Head(runnings')
  BY DEF RunOnce, HostCalls
<1>3. /\ runnings' \in Seq(Procs) /\ NoDup(runnings')
      /\ Range(runnings') = (Range(runnings) \ Exited) \cup Woken
      /\ Range(waitings') = Range(waitings) \ Woken
      /\ Woken \subseteq Range(waitings) /\ Range(waitings) \subseteq Procs
  BY <1>1, RunOnceLists, RangeOfSeq DEF Good, IInv, Struct, GoodShape
<1>4. /\ dead' = [p \in Procs |-> dead[p] \/ p \in Exited]
      /\ pc' = [p \in Procs |-> IF p \in Exited THEN "none" ELSE pc[p]]
      /\ msbox' = [p \in Procs |-> IF p \in Exited THEN <<>> ELSE msbox[p]]
      /\ msg_pp' = [p \in Procs |-> IF p \in Exited THEN 0 ELSE msg_pp[p]]
  BY <1>2 DEF free_all
<1>5. /\ \A p \in Procs : p \in Exited <=> pc[p] = "done"
      /\ Exited \subseteq Procs
      /\ \A p \in Range(waitings) : pc[p] # "done" /\ ~dead[p]
      /\ \A p \in Procs : p \in Range(runnings) \cup Range(waitings)
            <=> pc[p] \in {"run", "recv", "done"}
      /\ Range(runnings) \cap Range(waitings) = {}
  <2>1. /\ \A p \in Procs : p \in Range(runnings) \cup Range(waitings)
            <=> pc[p] \in {"run", "recv", "done"}
        /\ \A p \in Procs : p \in Range(waitings) => pc[p] # "done"
        /\ \A p \in Procs : dead[p] => pc[p] = "none"
        /\ Range(runnings) \cap Range(waitings) = {}
    BY DEF Good, IInv, Struct, ListsPartitionProcesses
  <2>2. Range(runnings) \subseteq Procs /\ Range(waitings) \subseteq Procs
    BY <1>1, RangeOfSeq DEF GoodShape
  <2>3. ASSUME NEW p \in Range(waitings) PROVE pc[p] # "done" /\ ~dead[p]
    <3>1. p \in Procs /\ pc[p] \in {"run", "recv", "done"}
      BY <2>1, <2>2
    <3> QED BY <2>1, <3>1
  <2> QED BY <2>1, <2>2, <2>3 DEF Exited
<1>6. \A p \in Procs : Status[p] = "done" <=> p \in Exited
  BY <1>1, <1>5 DEF StatusFacts
<1>7. \A p \in Woken : Status[p] \in {"asleep", "receiving"}
  BY <1>1, <1>3, <1>5 DEF StatusFacts
<1>8. ASSUME NEW p \in Procs
      PROVE  Status'[p] = IF p \in Exited THEN "free"
                          ELSE IF p \in Woken THEN "ready" ELSE Status[p]
  <2>1. CASE p \in Exited
    BY <1>1, <1>4, <2>1 DEF StatusFacts
  <2>2. CASE p \notin Exited /\ p \in Woken
    <3>1. p \in Range(runnings') /\ pc'[p] # "done"
      BY <1>3, <1>4, <1>5, <2>2
    <3> QED BY <1>1, <2>2, <3>1 DEF StatusFacts
  <2>3. CASE p \notin Exited /\ p \notin Woken
    <3>1. /\ dead'[p] = dead[p] /\ wake_on_msg'[p] = wake_on_msg[p] /\ pc'[p] = pc[p]
          /\ p \in Range(waitings') <=> p \in Range(waitings)
          /\ p \in Range(runnings') <=> p \in Range(runnings)
      BY <1>1, <1>2, <1>3, <1>4, <2>3 DEF GoodShape
    <3> QED BY <1>1, <2>3, <3>1, StatusStays
  <2> QED BY <2>1, <2>2, <2>3
<1> DEFINE gone == {a \in Procs : Status[a] = "done"}
<1>9. gone = Exited
  BY <1>5, <1>6
<1>10. Status' = [a \in Procs |-> CASE a \in gone -> "free" [] a \in Woken -> "ready"
                                   [] OTHER -> Status[a]]
  <2>1. Status' \in [Procs -> {"free", "lost", "idle", "done", "receiving", "asleep", "ready"}]
    BY <1>1 DEF StatusFacts
  <2>2. \A a \in Procs : Status'[a] = CASE a \in gone -> "free" [] a \in Woken -> "ready"
                                       [] OTHER -> Status[a]
    <3>1. \A a \in Procs : ~(a \in gone /\ a \in Woken)
      BY <1>7, <1>9, <1>6
    <3> HIDE DEF gone
    <3> QED BY <1>8, <1>9, <3>1
  <2> HIDE DEF gone
  <2> QED BY <2>1, <2>2
<1>11. {a \in Procs : Status'[a] = "ready"} = Range(runnings')
  <2>1. \A a \in Procs : pc'[a] # "done"
    BY <1>4, <1>5
  <2>2. Range(runnings') \subseteq Procs
    BY <1>3, RangeOfSeq
  <2> QED BY <1>1, <2>1, <2>2 DEF StatusFacts
<1>12. Promise!PassOn(Range(runnings'))
  <2>1. Behind' = {p \in Procs : Before(runnings', cur', p)} /\ Active' = cur'
    BY <1>2, BehindNext DEF Active
  <2>2. CASE runnings' = <<>>
    <3>1. Range(runnings') = {}
      BY <2>2 DEF Range
    <3>2. Behind' = {} /\ Active' = Root
      BY <1>2, <1>3, <2>1, <2>2, BehindNextIsNone
    <3> QED BY <3>1, <3>2 DEF Promise!PassOn
  <2>3. CASE runnings' # <<>>
    <3>1. cur' = Head(runnings') /\ cur' \in Range(runnings')
      BY <1>2, <1>3, <2>3, HeadInRange
    <3>2. Range(runnings') \subseteq Procs
      BY <1>3, RangeOfSeq
    <3>3. \A b : Before(runnings', Head(runnings'), b) <=> b \in Range(runnings') \ {Head(runnings')}
      BY <1>3, <2>3, BeforeHead
    <3>4. Behind' = Range(runnings') \ {cur'}
      BY <2>1, <3>1, <3>2, <3>3
    <3> QED BY <2>1, <3>1, <3>4 DEF Promise!PassOn
  <2> QED BY <2>2, <2>3
<1>13. Promise!Free(gone)
  <2>1. \A p \in Procs : p \notin Exited => msbox'[p] = msbox[p] /\ msg_pp'[p] = msg_pp[p]
    BY <1>4
  <2>2. \A p \in Exited : msbox'[p] = <<>> /\ msg_pp'[p] = 0
    BY <1>4, <1>5
  <2>3. SubSeq(<<>>, 1, 0) = <<>> /\ SubSeq(<<>>, 0 + 1, Len(<<>>)) = <<>>
    OBVIOUS
  <2>4. \A p \in Procs : /\ Seen'[p] = IF p \in Exited THEN <<>> ELSE Seen[p]
                         /\ Unseen'[p] = IF p \in Exited THEN <<>> ELSE Unseen[p]
    BY <2>1, <2>2, <2>3 DEF Seen, Unseen
  <2>5. /\ Seen' = [p \in Procs |-> IF p \in Exited THEN <<>> ELSE Seen[p]]
        /\ Unseen' = [p \in Procs |-> IF p \in Exited THEN <<>> ELSE Unseen[p]]
    BY <2>4 DEF Seen, Unseen
  <2> QED BY <1>9, <2>5 DEF Promise!Free
<1>14. Active = Root /\ Woken \in SUBSET {a \in Procs : Status[a] \in {"asleep", "receiving"}}
  BY <1>2, <1>3, <1>7 DEF Active
<1>15. Promise!HostPass
  <2> HIDE DEF gone
  <2>1. Promise!PassOn({a \in Procs : Status'[a] = "ready"})
    BY <1>11, <1>12
  <2> QED BY <1>10, <1>13, <1>14, <2>1 DEF Promise!HostPass, gone
<1> QED BY <1>15 DEF Promise!ANext

\* The host shuts the system down.
LEMMA ShutdownMap ==
  ASSUME Good, Good', Shutdown
  PROVE  Promise!ANext
<1>1. GoodShape /\ StatusFacts /\ StatusFacts' /\ DeadMail
  BY GoodHasShape, StatusIs, StatusNext DEF Good
<1> DEFINE G == Range(pendings) \cup Range(runnings) \cup Range(waitings)
<1>2. /\ up /\ up' = FALSE /\ cur = Root /\ cur' = cur /\ free_all(G)
      /\ runnings' = <<>> /\ waitings' = <<>> /\ UNCHANGED wake_on_msg
  BY DEF Shutdown, HostCalls, waits
<1>3. /\ dead' = [p \in Procs |-> dead[p] \/ p \in G]
      /\ pc' = [p \in Procs |-> IF p \in G THEN "none" ELSE pc[p]]
      /\ msbox' = [p \in Procs |-> IF p \in G THEN <<>> ELSE msbox[p]]
      /\ msg_pp' = [p \in Procs |-> IF p \in G THEN 0 ELSE msg_pp[p]]
  BY <1>2 DEF free_all
<1>4. \A p \in Procs : p \in G <=> pc[p] # "none"
  BY <1>1 DEF Good, IInv, Struct, ListsPartitionProcesses, GoodShape, Pcs
<1> HIDE DEF G
<1>5. \A p \in Procs : Status[p] = "lost" <=> ~dead[p] /\ p \notin G
  BY <1>1, <1>4 DEF StatusFacts
<1>6. ASSUME NEW p \in Procs PROVE Status'[p] = IF Status[p] = "lost" THEN "lost" ELSE "free"
  <2>1. CASE Status[p] = "lost"
    BY <1>1, <1>3, <1>4, <1>5, <2>1 DEF StatusFacts
  <2>2. CASE Status[p] # "lost"
    BY <1>1, <1>3, <1>5, <2>2 DEF StatusFacts
  <2> QED BY <2>1, <2>2
<1>7. Status' = [a \in Procs |-> IF Status[a] = "lost" THEN "lost" ELSE "free"]
  <2>1. Status' \in [Procs -> {"free", "lost", "idle", "done", "receiving", "asleep", "ready"}]
    BY <1>1 DEF StatusFacts
  <2> QED BY <1>6, <2>1
<1>8. Active = Root /\ Active' = -2
  BY <1>2 DEF Active
<1>9. Behind = {} /\ Behind' = {}
  <2>1. runnings' \in Seq(Procs)
    BY <1>2
  <2> QED BY <1>1, <1>2, <2>1, BehindIs, BehindNextIsNone DEF GoodShape
<1> DEFINE F == {a \in Procs : Status[a] # "lost"}
<1>10. Promise!Free(F)
  <2>1. \A p \in Procs : p \notin F => msbox'[p] = msbox[p] /\ msg_pp'[p] = msg_pp[p]
    BY <1>3, <1>5
  <2>2. \A p \in F : msbox'[p] = <<>> /\ msg_pp'[p] = 0
    BY <1>1, <1>3, <1>5 DEF DeadMail
  <2>3. SubSeq(<<>>, 1, 0) = <<>> /\ SubSeq(<<>>, 0 + 1, Len(<<>>)) = <<>>
    OBVIOUS
  <2>4. F \subseteq Procs
    OBVIOUS
  <2> HIDE DEF F
  <2>5. \A p \in Procs : /\ Seen'[p] = IF p \in F THEN <<>> ELSE Seen[p]
                         /\ Unseen'[p] = IF p \in F THEN <<>> ELSE Unseen[p]
    BY <2>1, <2>2, <2>3 DEF Seen, Unseen
  <2>6. /\ Seen' = [p \in Procs |-> IF p \in F THEN <<>> ELSE Seen[p]]
        /\ Unseen' = [p \in Procs |-> IF p \in F THEN <<>> ELSE Unseen[p]]
    BY <2>5 DEF Seen, Unseen
  <2> QED BY <2>6 DEF Promise!Free
<1>11. Promise!Stop
  BY <1>7, <1>8, <1>9, <1>10 DEF Promise!Stop
<1> QED BY <1>11 DEF Promise!ANext

\* Every step is one of Actors or leaves all that Actors sees alone.
LEMMA StepMap ==
  ASSUME Good, Good', [Next]_vars
  PROVE  Promise!ANext \/ UNCHANGED Promise!avars
BY NextCases, CreateMap, HostStartMap, YieldMap, WaitMap, PeekMap, RewindMap, RemoveMap,
   NothingMap, SendMap, RunOnceMap, ShutdownMap

\* The scheduler implements Actors, for any number of slots, any messages and
\* any periods: every ready process gets the thread exactly once in a pass, in
\* which a message makes its receiver ready at once; selective receive neither
\* loses nor reorders messages; and only exited processes are freed before
\* ascheduler_cleanup.
THEOREM ImplementsActors == Spec => KeepsPromise
<1>1. Good /\ Good' /\ [Next]_vars => [Promise!ANext]_(Promise!avars)
  BY StepMap
<1> QED BY <1>1, InitMap, GoodHolds, PTL DEF Spec, KeepsPromise, Promise!ASpec
=============================================================================
