---------------------------- MODULE DispatchProofs ----------------------------
(***************************************************************************)
(* What is proved of Dispatch, for any number of items, tasks, steps and   *)
(* pieces of equipment, and any limits of the queues.                      *)
(*                                                                         *)
(* DispatchInv is inductive.  While an item has not been seen by two       *)
(* transactions at a time, the one that is on it still sees the row as it  *)
(* is, so that what it writes is what it worked out.                       *)
(***************************************************************************)
EXTENDS Dispatch, FiniteSetTheorems, TLAPS

\* The equipment a task writes is the one it recommended, or what it loaded.
TaskOK(t) ==
    /\ t \in InFlight => item[t] \in Items
    /\ pc[t] \in {"publish", "evaluate", "execute"} => copy[t].step \in Steps
    /\ pc[t] = "publish" => copy[t].equipment \in {None, seen[t].equipment}
    /\ pc[t] \in {"evaluate", "execute"} => copy[t].equipment = seen[t].equipment
    /\ pc[t] = "execute" => aim[t] \in Equipment

\* An item no two transactions met on: one at most is on it, and it still sees the row.
SeenAsItIs(i) ==
    \A t \in On(i) : seen[t] = row[i] /\ On(i) = {t}

Fits(r) == r.equipment # None => r.step # None /\ r.equipment \in Capable[r.step]

\* What the task on an item writes, or will write, is equipment of its step.
FitsStep(i) ==
    /\ Fits(row[i])
    /\ \A t \in On(i) :
          /\ Fits(copy[t])
          /\ pc[t] = "execute" => aim[t] \in Capable[copy[t].step]

Settled(r) == r.step = None \/ r.status = "gone" \/ r.equipment # None

Announced(i) == \E v \in events : v.item = i /\ v.step = row[i].step

\* Somebody is to find equipment for an item that waits without, and will be after the
\* commit of the task on it.
Remembered(i) ==
    /\ Settled(row[i]) \/ Announced(i) \/ \E t \in On(i) : job[t] = "auto"
    /\ \A t \in On(i) : pc[t] = "commit" =>
         \/ Settled(copy[t])
         \/ copy[t].step = row[i].step /\ Announced(i)
         \/ \E v \in events : v.item = i /\ v.step = copy[t].step /\ v.from = t

DispatchInv ==
    /\ TypeOK
    /\ \A t \in Tasks : TaskOK(t)
    /\ OverfullExplained
    /\ \A i \in Items \ together : SeenAsItIs(i)
    /\ \A i \in Items \ (byHand \cup together) : FitsStep(i)
    /\ \A i \in Items \ (excused \cup together) : Remembered(i)


-----------------------------------------------------------------------------
(***************************************************************************)
(* Rows, and the tasks on an item.                                         *)
(***************************************************************************)

\* What a task commits, of two copies a and b of a row, on top of the row r.
LEMMA WrittenRow ==
    ASSUME NEW a \in Rows, NEW b \in Rows, NEW r \in Rows
    PROVE  LET w == [c \in DOMAIN r |-> IF a[c] # b[c] THEN a[c] ELSE r[c]] IN
           /\ w \in Rows
           /\ w.equipment = IF a.equipment # b.equipment THEN a.equipment ELSE r.equipment
           /\ b = r => w = a
<1> DEFINE w == [c \in DOMAIN r |-> IF a[c] # b[c] THEN a[c] ELSE r[c]]
<1>1. DOMAIN r = {"step", "status", "equipment"} /\ DOMAIN a = {"step", "status", "equipment"}
  BY DEF Rows
<1>2. DOMAIN w = {"step", "status", "equipment"}
  BY <1>1
<1>3. /\ w.step = IF a.step # b.step THEN a.step ELSE r.step
      /\ w.status = IF a.status # b.status THEN a.status ELSE r.status
      /\ w.equipment = IF a.equipment # b.equipment THEN a.equipment ELSE r.equipment
  BY <1>1
<1>4. w = [step |-> w.step, status |-> w.status, equipment |-> w.equipment]
  BY <1>2
<1>5. w.step \in Steps \cup {None} /\ w.status \in Statuses /\ w.equipment \in Equipment \cup {None}
  BY <1>3 DEF Rows
<1>6. w \in Rows
  BY <1>4, <1>5 DEF Rows
<1>7. a = [step |-> a.step, status |-> a.status, equipment |-> a.equipment]
  BY DEF Rows
<1>8. b = r => w = a
  BY <1>3, <1>4, <1>7
<1> QED BY <1>3, <1>6, <1>8

\* What a task that has ended is left with.
LEMMA FreshIsRow == Fresh \in Rows /\ Fresh.step = None /\ Fresh.equipment = None
BY DEF Fresh, Rows, Statuses, Working

\* A task that loads a row is on its item from then on.
LEMMA Loading ==
    ASSUME TypeOK, NEW t \in Tasks, NEW i \in Items, NEW j \in Jobs, NEW c \in Rows,
           NEW p \in {"publish", "evaluate", "commit"}, Load(t, j, i, p, c)
    PROVE  /\ pc[t] = "idle" /\ pc'[t] = p /\ job'[t] = j /\ item'[t] = i
           /\ seen'[t] = row[i] /\ copy'[t] = c /\ aim' = aim /\ row' = row /\ up' = up
           /\ \A u \in Tasks \ {t} : /\ pc'[u] = pc[u] /\ job'[u] = job[u] /\ item'[u] = item[u]
                                     /\ seen'[u] = seen[u] /\ copy'[u] = copy[u]
           /\ t \notin InFlight /\ InFlight' = InFlight \cup {t}
           /\ On(i)' = On(i) \cup {t}
           /\ \A k \in Items \ {i} : On(k)' = On(k)
           /\ together' = IF On(i) = {} THEN together ELSE together \cup {i}
           /\ /\ pc' \in [Tasks -> {"idle", "publish", "evaluate", "execute", "commit", "done"}]
              /\ job' \in [Tasks -> Jobs] /\ item' \in [Tasks -> Items \cup {None}]
              /\ seen' \in [Tasks -> Rows] /\ copy' \in [Tasks -> Rows]
<1>1. /\ pc[t] = "idle" /\ pc'[t] = p /\ job'[t] = j /\ item'[t] = i
      /\ seen'[t] = row[i] /\ copy'[t] = c /\ aim' = aim /\ row' = row /\ up' = up
      /\ together' = IF On(i) = {} THEN together ELSE together \cup {i}
  BY DEF TypeOK, Load
<1>2. \A u \in Tasks \ {t} : /\ pc'[u] = pc[u] /\ job'[u] = job[u] /\ item'[u] = item[u]
                             /\ seen'[u] = seen[u] /\ copy'[u] = copy[u]
  BY DEF TypeOK, Load
<1>3. row[i] \in Rows
  BY DEF TypeOK
<1>4. /\ pc' \in [Tasks -> {"idle", "publish", "evaluate", "execute", "commit", "done"}]
      /\ job' \in [Tasks -> Jobs] /\ item' \in [Tasks -> Items \cup {None}]
      /\ seen' \in [Tasks -> Rows] /\ copy' \in [Tasks -> Rows]
  BY <1>3 DEF TypeOK, Load
<1>5. t \notin InFlight /\ InFlight' = InFlight \cup {t}
  BY <1>1, <1>2 DEF InFlight
<1>6. On(i)' = On(i) \cup {t}
  BY <1>1, <1>2, <1>5 DEF On, InFlight
<1>7. \A k \in Items \ {i} : On(k)' = On(k)
  BY <1>1, <1>2, <1>5 DEF On, InFlight
<1> QED BY <1>1, <1>2, <1>4, <1>5, <1>6, <1>7

\* A task that ends is on no item any more.
LEMMA Ending ==
    ASSUME TypeOK, NEW t \in InFlight, End(t)
    PROVE  /\ pc'[t] = "done" /\ t \in Tasks
           /\ \A u \in Tasks \ {t} : /\ pc'[u] = pc[u] /\ job'[u] = job[u] /\ item'[u] = item[u]
                                     /\ seen'[u] = seen[u] /\ copy'[u] = copy[u] /\ aim'[u] = aim[u]
           /\ InFlight' = InFlight \ {t}
           /\ \A k \in Items : On(k)' = On(k) \ {t} /\ (k # item[t] => On(k)' = On(k))
           /\ /\ pc' \in [Tasks -> {"idle", "publish", "evaluate", "execute", "commit", "done"}]
              /\ job' \in [Tasks -> Jobs] /\ item' \in [Tasks -> Items \cup {None}]
              /\ seen' \in [Tasks -> Rows] /\ copy' \in [Tasks -> Rows]
              /\ aim' \in [Tasks -> Equipment \cup {None}]
<1>1. t \in Tasks
  BY DEF InFlight
<1>2. pc'[t] = "done"
  BY <1>1 DEF End, TypeOK
<1>3. \A u \in Tasks \ {t} : /\ pc'[u] = pc[u] /\ job'[u] = job[u] /\ item'[u] = item[u]
                             /\ seen'[u] = seen[u] /\ copy'[u] = copy[u] /\ aim'[u] = aim[u]
  BY DEF End, TypeOK
<1>4. /\ pc' \in [Tasks -> {"idle", "publish", "evaluate", "execute", "commit", "done"}]
      /\ job' \in [Tasks -> Jobs] /\ item' \in [Tasks -> Items \cup {None}]
      /\ seen' \in [Tasks -> Rows] /\ copy' \in [Tasks -> Rows]
      /\ aim' \in [Tasks -> Equipment \cup {None}]
  BY FreshIsRow DEF End, TypeOK, Jobs
<1>5. InFlight' = InFlight \ {t}
  BY <1>2, <1>3 DEF InFlight
<1>6. \A k \in Items : On(k)' = On(k) \ {t} /\ (k # item[t] => On(k)' = On(k))
  BY <1>3, <1>5 DEF On, InFlight
<1> QED BY <1>1, <1>2, <1>3, <1>4, <1>5, <1>6

-----------------------------------------------------------------------------
(***************************************************************************)
(* How full the queues are.                                                *)
(***************************************************************************)

\* There are finitely many items and tasks, so every queue can be counted.
LEMMA QueuesAreFinite ==
    ASSUME NEW e
    PROVE  /\ IsFiniteSet(Queue(e)) /\ Cardinality(Queue(e)) \in Nat
           /\ IsFiniteSet(Joining(e)) /\ Cardinality(Joining(e)) \in Nat
<1>1. Queue(e) \in SUBSET Items /\ Joining(e) \in SUBSET Tasks
  BY DEF Queue, Joining, InFlight
<1>2. IsFiniteSet(Queue(e)) /\ IsFiniteSet(Joining(e))
  BY <1>1, DispatchAssumption, FS_Subset
<1> QED BY <1>2, FS_CardinalityType

\* A set with one member more, at most, than a finite set S.
LEMMA OneMore ==
    ASSUME NEW S, NEW T, NEW x, IsFiniteSet(S), T \subseteq S \cup {x}
    PROVE  IsFiniteSet(T) /\ Cardinality(T) \in Nat /\ Cardinality(T) <= Cardinality(S) + 1
<1>1. IsFiniteSet(S \cup {x}) /\ Cardinality(S) \in Nat
      /\ Cardinality(S \cup {x}) = IF x \in S THEN Cardinality(S) ELSE Cardinality(S) + 1
  BY FS_AddElement, FS_CardinalityType
<1>2. T \in SUBSET (S \cup {x})
  OBVIOUS
<1>3. IsFiniteSet(T) /\ Cardinality(T) <= Cardinality(S \cup {x})
  BY <1>1, <1>2, FS_Subset
<1>4. Cardinality(T) \in Nat
  BY <1>3, FS_CardinalityType
<1> QED BY <1>1, <1>3, <1>4

\* A finite set that loses its member x, or anything else.
LEMMA OneLess ==
    ASSUME NEW S, NEW T, IsFiniteSet(S), T \subseteq S
    PROVE  /\ IsFiniteSet(T) /\ Cardinality(T) \in Nat /\ Cardinality(T) <= Cardinality(S)
           /\ \A x \in S \ T : Cardinality(T) + 1 <= Cardinality(S)
<1>1. \A U \in SUBSET S : IsFiniteSet(U) /\ Cardinality(U) \in Nat /\ Cardinality(U) <= Cardinality(S)
  BY FS_Subset, FS_CardinalityType
<1>2. ASSUME NEW x \in S \ T PROVE Cardinality(T) + 1 <= Cardinality(S)
  <2>1. S \ {x} \in SUBSET S /\ T \in SUBSET (S \ {x})
    BY <1>2
  <2>2. IsFiniteSet(S \ {x}) /\ Cardinality(S \ {x}) = Cardinality(S) - 1
    BY <1>2, FS_RemoveElement
  <2>3. Cardinality(T) <= Cardinality(S \ {x})
    BY <2>1, <2>2, FS_Subset
  <2>4. Cardinality(S) \in Nat /\ Cardinality(T) \in Nat
    BY <1>1, FS_CardinalityType
  <2> QED BY <2>2, <2>3, <2>4
<1> QED BY <1>1, <1>2

\* No queue and nobody about to join one is new.
LEMMA NobodyJoins ==
    ASSUME TypeOK, OverfullExplained, excess' = excess,
           \A e \in Equipment : Queue(e)' \subseteq Queue(e) /\ Joining(e)' \subseteq Joining(e)
    PROVE  OverfullExplained'
<1> SUFFICES ASSUME NEW e \in Equipment
             PROVE  Cardinality(Queue(e)') + Cardinality(Joining(e)') <= Limit[e] + excess[e]
  BY DEF OverfullExplained
<1>1. /\ Cardinality(Queue(e)') \in Nat /\ Cardinality(Queue(e)') <= Cardinality(Queue(e))
      /\ Cardinality(Joining(e)') \in Nat /\ Cardinality(Joining(e)') <= Cardinality(Joining(e))
  BY QueuesAreFinite, OneLess
<1>2. Cardinality(Queue(e)) + Cardinality(Joining(e)) <= Limit[e] + excess[e]
  BY DEF OverfullExplained
<1> QED BY <1>1, <1>2, QueuesAreFinite, DispatchAssumption DEF TypeOK

\* One task is new among those about to join one queue: it was counted as excess, or the
\* queue had room and nobody else was about to join it.
LEMMA OneJoins ==
    ASSUME TypeOK, OverfullExplained, NEW t, NEW e \in Equipment,
           \A f \in Equipment : Queue(f)' = Queue(f) /\ (f # e => Joining(f)' \subseteq Joining(f)),
           Joining(e)' \subseteq Joining(e) \cup {t},
           \/ excess' = [excess EXCEPT ![e] = @ + 1]
           \/ excess' = excess /\ ((HasRoom(e) /\ Joining(e) = {}) \/ Joining(e)' \subseteq Joining(e))
    PROVE  OverfullExplained' /\ excess' \in [Equipment -> Nat]
<1>1. excess \in [Equipment -> Nat] /\ excess' \in [Equipment -> Nat]
  BY DEF TypeOK
<1>2. \A f \in Equipment : Cardinality(Queue(f)) + Cardinality(Joining(f)) <= Limit[f] + excess[f]
  BY DEF OverfullExplained
<1>3. \A f \in Equipment : Cardinality(Queue(f)) \in Nat /\ Cardinality(Joining(f)) \in Nat /\ Limit[f] \in Nat
  BY QueuesAreFinite, DispatchAssumption
<1>4. ASSUME NEW f \in Equipment, Joining(f)' \subseteq Joining(f)
      PROVE  Cardinality(Queue(f)') + Cardinality(Joining(f)') <= Limit[f] + excess'[f]
  <2>1. Cardinality(Joining(f)') \in Nat /\ Cardinality(Joining(f)') <= Cardinality(Joining(f))
    BY <1>4, QueuesAreFinite, OneLess
  <2>2. excess[f] \in Nat /\ excess'[f] \in Nat /\ excess[f] <= excess'[f]
    BY <1>1
  <2>3. Queue(f)' = Queue(f)
    OBVIOUS
  <2> QED BY <1>2, <1>3, <2>1, <2>2, <2>3
<1>5. Cardinality(Queue(e)') + Cardinality(Joining(e)') <= Limit[e] + excess'[e]
  <2>1. Cardinality(Joining(e)') \in Nat /\ Cardinality(Joining(e)') <= Cardinality(Joining(e)) + 1
    BY QueuesAreFinite, OneMore
  <2>2. Queue(e)' = Queue(e)
    OBVIOUS
  <2>3. CASE excess' = [excess EXCEPT ![e] = @ + 1]
    <3>1. excess'[e] = excess[e] + 1 /\ excess[e] \in Nat
      BY <1>1, <2>3
    <3> QED BY <1>2, <1>3, <2>1, <2>2, <3>1
  <2>4. CASE excess' = excess /\ HasRoom(e) /\ Joining(e) = {}
    <3>1. Cardinality(Queue(e)) < Limit[e] /\ Cardinality(Joining(e)) = 0 /\ excess'[e] \in Nat
      BY <1>1, <2>4, FS_EmptySet DEF HasRoom
    <3> QED BY <1>3, <2>1, <2>2, <3>1
  <2> QED BY <1>4, <2>3, <2>4
<1> QED BY <1>1, <1>4, <1>5 DEF OverfullExplained

\* The row of an item is written by a task that was about to join a queue, or leaves the
\* item where it is; one that works again at its place is counted.
LEMMA OneArrives ==
    ASSUME TypeOK, OverfullExplained, NEW t \in Tasks, NEW i \in Items, NEW r \in Rows,
           row' = [row EXCEPT ![i] = r],
           \A e \in Equipment : Joining(e)' = Joining(e) \ {t},
           \/ /\ excess' = excess
              /\ r.equipment \in Equipment /\ r.status \in Working =>
                    t \in Joining(r.equipment) \/ i \in Queue(r.equipment)
           \/ r.equipment \in Equipment /\ excess' = [excess EXCEPT ![r.equipment] = @ + 1]
    PROVE  OverfullExplained' /\ excess' \in [Equipment -> Nat]
<1>1. excess \in [Equipment -> Nat] /\ excess' \in [Equipment -> Nat]
  BY DEF TypeOK
<1>2. \A f \in Equipment : Cardinality(Queue(f)) + Cardinality(Joining(f)) <= Limit[f] + excess[f]
  BY DEF OverfullExplained
<1>3. \A k \in Items : row'[k] = IF k = i THEN r ELSE row[k]
  BY DEF TypeOK
<1>4. ASSUME NEW e \in Equipment
      PROVE  Cardinality(Queue(e)') + Cardinality(Joining(e)') <= Limit[e] + excess'[e]
  <2>1. /\ Cardinality(Queue(e)) \in Nat /\ Cardinality(Joining(e)) \in Nat /\ Limit[e] \in Nat
        /\ IsFiniteSet(Queue(e)) /\ IsFiniteSet(Joining(e))
    BY QueuesAreFinite, DispatchAssumption
  <2>2. /\ Cardinality(Joining(e)') \in Nat /\ Cardinality(Joining(e)') <= Cardinality(Joining(e))
        /\ t \in Joining(e) => Cardinality(Joining(e)') + 1 <= Cardinality(Joining(e))
    BY <2>1, OneLess
  <2>3. excess[e] \in Nat /\ excess'[e] \in Nat /\ excess[e] <= excess'[e]
    BY <1>1
  <2>4. Queue(e)' \subseteq Queue(e) \cup {i}
    BY <1>3 DEF Queue
  <2>5. Cardinality(Queue(e)') \in Nat /\ Cardinality(Queue(e)') <= Cardinality(Queue(e)) + 1
    BY <2>1, <2>4, OneMore
  <2>6. CASE Queue(e)' \subseteq Queue(e)
    <3>1. Cardinality(Queue(e)') <= Cardinality(Queue(e))
      BY <2>1, <2>6, OneLess
    <3> QED BY <1>2, <2>1, <2>2, <2>3, <2>5, <3>1
  <2>7. CASE t \in Joining(e)
    BY <1>2, <2>1, <2>2, <2>3, <2>5, <2>7
  <2>8. CASE ~(Queue(e)' \subseteq Queue(e)) /\ t \notin Joining(e)
    <3>1. i \in Queue(e)' /\ i \notin Queue(e)
      BY <2>4, <2>8
    <3>2. r.equipment = e /\ r.status \in Working
      BY <1>3, <3>1 DEF Queue
    <3>3. excess'[e] = excess[e] + 1
      BY <1>1, <2>8, <3>1, <3>2
    <3> QED BY <1>2, <2>1, <2>2, <2>3, <2>5, <3>3
  <2> QED BY <2>6, <2>7, <2>8
<1> QED BY <1>1, <1>4 DEF OverfullExplained

-----------------------------------------------------------------------------
(***************************************************************************)
(* A task loads a row.                                                     *)
(***************************************************************************)

\* An item whose row is not written: tasks may leave it, the others stand where they stood.
LEMMA ItemUntouched ==
    ASSUME NEW k \in Items, row'[k] = row[k], On(k)' \subseteq On(k),
           \A u \in On(k)' : /\ pc'[u] = pc[u] /\ job'[u] = job[u] /\ seen'[u] = seen[u]
                             /\ copy'[u] = copy[u] /\ aim'[u] = aim[u]
    PROVE  /\ SeenAsItIs(k) => SeenAsItIs(k)'
           /\ FitsStep(k) => FitsStep(k)'
           /\ /\ Remembered(k)
              /\ \A v \in events : v.item = k => v \in events'
              /\ \A u \in On(k) : job[u] = "auto" => u \in On(k)'
              => Remembered(k)'
<1>1. SeenAsItIs(k) => SeenAsItIs(k)'
  BY DEF SeenAsItIs
<1>2. FitsStep(k) => FitsStep(k)'
  BY DEF FitsStep, Fits
<1>3. ASSUME Remembered(k), \A v \in events : v.item = k => v \in events',
             \A u \in On(k) : job[u] = "auto" => u \in On(k)'
      PROVE  Remembered(k)'
  <2>1. Announced(k) => Announced(k)'
    BY <1>3 DEF Announced
  <2>2. Settled(row[k])' \/ Announced(k)' \/ \E u \in On(k)' : job'[u] = "auto"
    BY <1>3, <2>1 DEF Remembered, Settled
  <2>3. ASSUME NEW u \in On(k)', pc'[u] = "commit"
        PROVE  \/ Settled(copy[u])'
               \/ copy'[u].step = row'[k].step /\ Announced(k)'
               \/ \E v \in events' : v.item = k /\ v.step = copy'[u].step /\ v.from = u
    BY <1>3, <2>1, <2>3 DEF Remembered, Settled
  <2> QED BY <2>2, <2>3 DEF Remembered
<1> QED BY <1>1, <1>2, <1>3

\* What is asked of a request, or a handler, that loads the row of the item i and goes on
\* at p with the copy c.
LEMMA LoadKept ==
    ASSUME DispatchInv, NEW t \in Tasks, NEW i \in Items, NEW j \in Jobs, NEW c \in Rows,
           NEW p \in {"publish", "evaluate", "commit"}, Load(t, j, i, p, c),
           p \in {"publish", "evaluate"} => c.step \in Steps,
           p = "publish" => c.equipment \in {None, row[i].equipment},
           p = "evaluate" => c.equipment = row[i].equipment,
           p = "commit" => Settled(c) \/ (c.step = row[i].step /\ ~Settled(row[i])),
           j = "auto" => p = "evaluate",
           i \in byHand' \/ (Fits(row[i]) => Fits(c)),
           byHand \subseteq byHand', byHand' \subseteq Items, excused' = excused,
           events' \subseteq events, \A v \in events \ events' : v.item = i /\ j = "auto",
           \/ excess' = excess /\ (p = "commit" => c.equipment \in {None, row[i].equipment})
           \/ c.equipment \in Equipment /\ Joined(c.equipment, row[i])
           \/ c.equipment \in Equipment /\ excess' = excess
                /\ HasRoom(c.equipment) /\ Joining(c.equipment) = {}
    PROVE  DispatchInv'
<1>0. TypeOK
  BY DEF DispatchInv
<1>1. /\ pc[t] = "idle" /\ pc'[t] = p /\ job'[t] = j /\ item'[t] = i
      /\ seen'[t] = row[i] /\ copy'[t] = c /\ aim' = aim /\ row' = row /\ up' = up
      /\ t \notin InFlight /\ InFlight' = InFlight \cup {t}
      /\ On(i)' = On(i) \cup {t} /\ \A k \in Items \ {i} : On(k)' = On(k)
      /\ together' = IF On(i) = {} THEN together ELSE together \cup {i}
  BY <1>0, Loading
<1>2. \A u \in Tasks \ {t} : /\ pc'[u] = pc[u] /\ job'[u] = job[u] /\ item'[u] = item[u]
                             /\ seen'[u] = seen[u] /\ copy'[u] = copy[u]
  BY <1>0, Loading
<1>3. OverfullExplained' /\ excess' \in [Equipment -> Nat]
  <2>0. OverfullExplained /\ excess \in [Equipment -> Nat] /\ None \notin Equipment
    BY DispatchAssumption DEF DispatchInv, TypeOK
  <2>1. ASSUME NEW e \in Equipment
        PROVE  /\ Queue(e)' = Queue(e) /\ Joining(e)' \subseteq Joining(e) \cup {t}
               /\ t \in Joining(e)' => p = "commit" /\ c.equipment = e /\ row[i].equipment # e
    <3>1. Queue(e)' = Queue(e)
      BY <1>1 DEF Queue
    <3>2. Joining(e)' \subseteq Joining(e) \cup {t}
      BY <1>1, <1>2 DEF Joining, InFlight
    <3>3. t \in Joining(e)' => p = "commit" /\ c.equipment = e /\ row[i].equipment # e
      BY <1>1 DEF Joining
    <3> QED BY <3>1, <3>2, <3>3
  <2>2. CASE excess' = excess /\ (p = "commit" => c.equipment \in {None, row[i].equipment})
    <3>1. \A e \in Equipment : Queue(e)' \subseteq Queue(e) /\ Joining(e)' \subseteq Joining(e)
      BY <2>0, <2>1, <2>2
    <3> QED BY <1>0, <2>0, <2>2, <3>1, NobodyJoins
  <2>3. CASE c.equipment \in Equipment /\ Joined(c.equipment, row[i])
    <3>1. CASE row[i].equipment = c.equipment
      <4>1. excess' = excess
        BY <2>3, <3>1 DEF Joined
      <4>2. \A e \in Equipment : Queue(e)' \subseteq Queue(e) /\ Joining(e)' \subseteq Joining(e)
        BY <2>1, <3>1
      <4> QED BY <1>0, <2>0, <4>1, <4>2, NobodyJoins
    <3>2. CASE row[i].equipment # c.equipment
      <4>1. excess' = [excess EXCEPT ![c.equipment] = @ + 1]
        BY <2>3, <3>2 DEF Joined
      <4>2. \A f \in Equipment : Queue(f)' = Queue(f) /\ (f # c.equipment => Joining(f)' \subseteq Joining(f))
        BY <2>1
      <4> QED BY <1>0, <2>0, <2>1, <2>3, <4>1, <4>2, OneJoins
    <3> QED BY <3>1, <3>2
  <2>4. CASE c.equipment \in Equipment /\ excess' = excess
               /\ HasRoom(c.equipment) /\ Joining(c.equipment) = {}
    <3>1. \A f \in Equipment : Queue(f)' = Queue(f) /\ (f # c.equipment => Joining(f)' \subseteq Joining(f))
      BY <2>1
    <3> QED BY <1>0, <2>0, <2>1, <2>4, <3>1, OneJoins
  <2> QED BY <2>2, <2>3, <2>4
<1>4. TypeOK'
  <2>1. /\ pc' \in [Tasks -> {"idle", "publish", "evaluate", "execute", "commit", "done"}]
        /\ job' \in [Tasks -> Jobs] /\ item' \in [Tasks -> Items \cup {None}]
        /\ seen' \in [Tasks -> Rows] /\ copy' \in [Tasks -> Rows]
    BY <1>0, Loading
  <2> QED BY <1>0, <1>1, <1>3, <2>1 DEF TypeOK
<1>5. ASSUME NEW u \in Tasks PROVE TaskOK(u)'
  <2>1. CASE u = t
    BY <1>1, <2>1 DEF TaskOK
  <2>2. CASE u # t
    BY <1>1, <1>2, <2>2 DEF TaskOK, DispatchInv
  <2> QED BY <2>1, <2>2
<1>6. ASSUME NEW k \in Items, k # i
      PROVE  /\ k \notin together => SeenAsItIs(k)'
             /\ k \notin byHand \cup together => FitsStep(k)'
             /\ k \notin excused \cup together => Remembered(k)'
  <2>1. On(k)' = On(k) /\ row'[k] = row[k] /\ On(k) \subseteq Tasks \ {t}
    BY <1>1, <1>6 DEF On, InFlight
  <2>2. \A v \in events : v.item = k => v \in events'
    BY <1>6
  <2> QED BY <1>1, <1>2, <2>1, <2>2, ItemUntouched DEF DispatchInv
<1>7. ASSUME i \notin together'
      PROVE  SeenAsItIs(i)' /\ (i \notin byHand' => FitsStep(i)') /\ (i \notin excused => Remembered(i)')
  <2>1. On(i) = {} /\ On(i)' = {t} /\ i \notin together
    BY <1>1, <1>7
  <2>2. SeenAsItIs(i)'
    BY <1>1, <2>1 DEF SeenAsItIs
  <2>3. ASSUME i \notin byHand' PROVE FitsStep(i)'
    <3>1. Fits(row[i]) /\ Fits(c)
      BY <2>1, <2>3 DEF DispatchInv, FitsStep
    <3> QED BY <1>1, <2>1, <3>1 DEF FitsStep, Fits
  <2>4. ASSUME i \notin excused PROVE Remembered(i)'
    <3>1. Settled(row[i]) \/ Announced(i)
      BY <2>1, <2>4 DEF DispatchInv, Remembered
    <3>2. Announced(i) /\ j # "auto" => Announced(i)'
      BY <1>1 DEF Announced
    <3>3. CASE j = "auto"
      <4>1. \E u \in On(i)' : job'[u] = "auto"
        BY <1>1, <2>1, <3>3
      <4> QED BY <1>1, <2>1, <3>3, <4>1 DEF Remembered
    <3>4. CASE j # "auto"
      <4>1. Settled(row[i]) \/ Announced(i)'
        BY <3>1, <3>2, <3>4
      <4>2. p = "commit" => Settled(c) \/ (c.step = row[i].step /\ Announced(i)')
        BY <4>1
      <4> QED BY <1>1, <2>1, <4>1, <4>2 DEF Remembered, Settled
    <3> QED BY <3>3, <3>4
  <2> QED BY <2>2, <2>3, <2>4
<1>8. together \subseteq together'
  BY <1>1
<1>9. ASSUME NEW k \in Items PROVE /\ k \notin together' => SeenAsItIs(k)'
                                   /\ k \notin byHand' \cup together' => FitsStep(k)'
                                   /\ k \notin excused' \cup together' => Remembered(k)'
  BY <1>6, <1>7, <1>8
<1> QED BY <1>3, <1>4, <1>5, <1>9 DEF DispatchInv

\* An item started at equipment that was named joins its queue unchecked, which is counted.
LEMMA StartAtKept ==
    ASSUME DispatchInv, NEW t \in Tasks, NEW i \in Items, NEW e \in Equipment, StartAt(t, i, e)
    PROVE  DispatchInv'
<1> DEFINE c == [step |-> IF row[i].step = None THEN First ELSE row[i].step,
                 status |-> "in_process", equipment |-> e]
<1>1. row[i] \in Rows
  BY DEF DispatchInv, TypeOK
<1>2. c \in Rows /\ c.equipment = e
  BY <1>1, DispatchAssumption DEF Rows, Statuses, Working
<1>3. Load(t, "start", i, "commit", c)
  BY DEF StartAt
<1> HIDE DEF c
<1>4. byHand' = byHand \cup {i} /\ Joined(e, row[i]) /\ events' = events /\ excused' = excused
  BY DEF StartAt
<1>5. Settled(c) /\ "start" \in Jobs /\ byHand \subseteq Items
  BY <1>2, DispatchAssumption DEF Settled, Jobs, DispatchInv, TypeOK
<1> QED BY <1>2, <1>3, <1>4, <1>5, LoadKept

\* A start that names no equipment keeps what the item has; its dispatch is a task of its own.
LEMMA StartKept ==
    ASSUME DispatchInv, NEW t \in Tasks, NEW i \in Items, Start(t, i)
    PROVE  DispatchInv'
<1> DEFINE s == IF row[i].step = None THEN First ELSE row[i].step
           c == [row[i] EXCEPT !.step = s, !.status = "in_process"]
           p == IF row[i].equipment = None THEN "evaluate" ELSE "commit"
<1>1. row[i] \in Rows /\ byHand \subseteq Items
  BY DEF DispatchInv, TypeOK
<1>2. s \in Steps
  BY <1>1, DispatchAssumption DEF Rows
<1>3. Load(t, "start", i, p, c)
  BY DEF Start
<1>4. c \in Rows /\ c.step = s /\ c.equipment = row[i].equipment
  BY <1>1, <1>2 DEF Rows, Statuses, Working
<1> HIDE DEF c
<1>5. UNCHANGED <<events, byHand, excused, excess>>
  BY DEF Start
<1>6. (p = "commit" => Settled(c)) /\ (Fits(row[i]) => Fits(c))
  BY <1>4 DEF Settled, Fits
<1>7. p \in {"publish", "evaluate", "commit"} /\ p # "publish" /\ "start" \in Jobs
  BY DEF Jobs
<1> HIDE DEF p, s
<1> QED BY <1>1, <1>2, <1>3, <1>4, <1>5, <1>6, <1>7, LoadKept

\* A move takes the item off its equipment, or off its route.
LEMMA MoveKept ==
    ASSUME DispatchInv, NEW t \in Tasks, NEW i \in Items, NEW s \in Steps \cup {None}, Move(t, i, s)
    PROVE  DispatchInv'
<1> DEFINE c == Moved(row[i], s)
           p == IF s = None THEN "commit" ELSE "publish"
<1>1. row[i] \in Rows /\ byHand \subseteq Items /\ row[i].equipment \in Equipment \cup {None}
  BY DEF DispatchInv, TypeOK, Rows
<1>2. Load(t, "other", i, p, c) /\ UNCHANGED <<events, byHand, excused, excess>>
  BY DEF Move
<1>3. c \in Rows /\ c.step = s /\ c.equipment \in {None, row[i].equipment}
  BY <1>1 DEF Moved, Rows, Statuses, Working
<1>4. (s = None => Settled(c)) /\ (Fits(row[i]) => Fits(c))
  BY <1>1 DEF Settled, Fits, Moved
<1>5. p \in {"publish", "evaluate", "commit"} /\ p # "evaluate" /\ "other" \in Jobs
      /\ (p = "commit" => s = None) /\ (p = "publish" => s \in Steps)
  BY DEF Jobs
<1> HIDE DEF c, p
<1> QED BY <1>1, <1>2, <1>3, <1>4, <1>5, LoadKept

\* Holding, releasing, scrapping and finishing an item; a release goes back to its place.
LEMMA HoldKept ==
    ASSUME DispatchInv, NEW t \in Tasks, NEW i \in Items,
           Hold(t, i) \/ ReleaseHold(t, i) \/ Scrap(t, i) \/ Finish(t, i)
    PROVE  DispatchInv'
<1>1. row[i] \in Rows /\ byHand \subseteq Items /\ UNCHANGED <<events, byHand, excused, excess>>
  BY DEF DispatchInv, TypeOK, Hold, ReleaseHold, Scrap, Finish
<1>2. PICK c \in Rows : /\ Load(t, "other", i, "commit", c)
                        /\ c.step = row[i].step /\ c.equipment \in {None, row[i].equipment}
                        /\ c.status = "gone" \/ (row[i].status # "gone" /\ c.equipment = row[i].equipment)
  <2>1. ASSUME NEW q \in Statuses, row[i].status # "gone",
               Load(t, "other", i, "commit", [row[i] EXCEPT !.status = q])
        PROVE  \E c \in Rows : /\ Load(t, "other", i, "commit", c)
                               /\ c.step = row[i].step /\ c.equipment \in {None, row[i].equipment}
                               /\ c.status = "gone" \/ (row[i].status # "gone" /\ c.equipment = row[i].equipment)
    <3> DEFINE c == [row[i] EXCEPT !.status = q]
    <3>1. c \in Rows /\ c.step = row[i].step /\ c.equipment = row[i].equipment
      BY <1>1 DEF Rows
    <3>2. Load(t, "other", i, "commit", c)
      BY <2>1
    <3> HIDE DEF c
    <3> QED BY <2>1, <3>1, <3>2
  <2>2. CASE Hold(t, i)
    BY <2>1, <2>2 DEF Hold, Statuses
  <2>3. CASE ReleaseHold(t, i)
    BY <2>1, <2>3 DEF ReleaseHold, Statuses, Working
  <2>4. CASE Scrap(t, i)
    <3> DEFINE c == [row[i] EXCEPT !.status = "gone", !.equipment = None]
    <3>1. c \in Rows /\ c.step = row[i].step /\ c.equipment = None /\ c.status = "gone"
      BY <1>1 DEF Rows, Statuses
    <3>2. Load(t, "other", i, "commit", c)
      BY <2>4 DEF Scrap
    <3> HIDE DEF c
    <3> QED BY <3>1, <3>2
  <2>5. CASE Finish(t, i)
    <3> DEFINE c == [row[i] EXCEPT !.status = "gone"]
    <3>1. c \in Rows /\ c.step = row[i].step /\ c.equipment = row[i].equipment /\ c.status = "gone"
      BY <1>1 DEF Rows, Statuses
    <3>2. Load(t, "other", i, "commit", c)
      BY <2>5 DEF Finish
    <3> HIDE DEF c
    <3> QED BY <3>1, <3>2
  <2> QED BY <2>2, <2>3, <2>4, <2>5
<1>3. (Fits(row[i]) => Fits(c)) /\ (Settled(c) \/ (c.step = row[i].step /\ ~Settled(row[i])))
  BY <1>2 DEF Fits, Settled
<1>4. "other" \in Jobs
  BY DEF Jobs
<1> QED BY <1>1, <1>2, <1>3, <1>4, LoadKept

\* A dispatch asked for by hand, or by the handler of an event, loads the row and evaluates.
LEMMA AutoKept ==
    ASSUME DispatchInv, NEW t \in Tasks, NEW i \in Items,
           AutoDispatch(t, i) \/ \E v \in events : v.item = i /\ Handle(t, v)
    PROVE  DispatchInv'
<1>1. row[i] \in Rows /\ byHand \subseteq Items /\ "auto" \in Jobs
  BY DEF DispatchInv, TypeOK, Jobs
<1>2. /\ Load(t, "auto", i, "evaluate", row[i]) /\ row[i].step \in Steps
      /\ UNCHANGED <<byHand, excused, excess>> /\ events' \subseteq events
      /\ \A v \in events \ events' : v.item = i
  <2>1. CASE AutoDispatch(t, i)
    BY <1>1, <2>1 DEF AutoDispatch, Rows
  <2>2. CASE \E v \in events : v.item = i /\ Handle(t, v)
    BY <2>2 DEF Handle, DispatchInv, TypeOK
  <2> QED BY <2>1, <2>2
<1> QED BY <1>1, <1>2, LoadKept

\* Equipment named in a request of its own is compared with its queue.
LEMMA ExecuteKept ==
    ASSUME DispatchInv, NEW t \in Tasks, NEW i \in Items, NEW e \in Equipment, Execute(t, i, e)
    PROVE  DispatchInv'
<1> DEFINE c == [row[i] EXCEPT !.equipment = e]
<1>1. row[i] \in Rows /\ byHand \subseteq Items /\ "other" \in Jobs
  BY DEF DispatchInv, TypeOK, Jobs
<1>2. c \in Rows /\ c.equipment = e
  BY <1>1 DEF Rows
<1>3. Load(t, "other", i, "commit", c)
  BY DEF Execute
<1> HIDE DEF c
<1>4. byHand' = byHand \cup {i} /\ events' = events /\ excused' = excused
      /\ (Joined(e, row[i]) \/ (excess' = excess /\ HasRoom(e) /\ Joining(e) = {}))
  BY DEF Execute
<1>5. Settled(c)
  BY <1>2, DispatchAssumption DEF Settled
<1> QED BY <1>1, <1>2, <1>3, <1>4, <1>5, LoadKept

-----------------------------------------------------------------------------
(***************************************************************************)
(* A task goes on.                                                         *)
(***************************************************************************)

\* A task that goes on is on the item it was on.
LEMMA Going ==
    ASSUME TypeOK, NEW t \in InFlight, NEW p \in {"execute", "commit"},
           pc' = [pc EXCEPT ![t] = p], item' = item
    PROVE  /\ t \in Tasks /\ pc'[t] = p /\ \A u \in Tasks \ {t} : pc'[u] = pc[u]
           /\ InFlight' = InFlight /\ \A k \in Items : On(k)' = On(k)
           /\ pc' \in [Tasks -> {"idle", "publish", "evaluate", "execute", "commit", "done"}]
<1>1. /\ t \in Tasks /\ pc'[t] = p /\ \A u \in Tasks \ {t} : pc'[u] = pc[u]
      /\ pc' \in [Tasks -> {"idle", "publish", "evaluate", "execute", "commit", "done"}]
  BY DEF TypeOK, InFlight
<1>2. InFlight' = InFlight
  BY <1>1 DEF InFlight
<1> QED BY <1>1, <1>2 DEF On

\* The event of a move remembers the step the move leads to, before its commit.
LEMMA PublishKept ==
    ASSUME DispatchInv, NEW t \in Tasks, Publish(t)
    PROVE  DispatchInv'
<1>0. TypeOK /\ TaskOK(t) /\ t \in InFlight
  BY DEF DispatchInv, Publish, InFlight
<1>1. /\ pc[t] = "publish" /\ pc' = [pc EXCEPT ![t] = "commit"]
      /\ UNCHANGED <<row, up, job, item, seen, copy, aim, together, byHand, excused, excess>>
  BY DEF Publish
<1>2. PICK n \in [item : Items, step : Steps, from : Tasks] :
         /\ events' = events \cup {n} /\ n.item = item[t] /\ n.step = copy[t].step /\ n.from = t
  <2> DEFINE n == [item |-> item[t], step |-> copy[t].step, from |-> t]
  <2>1. item[t] \in Items /\ copy[t].step \in Steps
    BY <1>0 DEF Publish, TaskOK
  <2>2. n \in [item : Items, step : Steps, from : Tasks]
        /\ n.item = item[t] /\ n.step = copy[t].step /\ n.from = t
    BY <2>1
  <2>3. events' = events \cup {n}
    BY DEF Publish
  <2> HIDE DEF n
  <2> QED BY <2>2, <2>3
<1>3. /\ pc'[t] = "commit" /\ \A u \in Tasks \ {t} : pc'[u] = pc[u]
      /\ InFlight' = InFlight /\ \A k \in Items : On(k)' = On(k)
      /\ pc' \in [Tasks -> {"idle", "publish", "evaluate", "execute", "commit", "done"}]
  BY <1>0, <1>1, Going
<1>4. TypeOK'
  BY <1>0, <1>1, <1>2, <1>3 DEF TypeOK
<1>5. ASSUME NEW u \in Tasks PROVE TaskOK(u)'
  BY <1>1, <1>3 DEF DispatchInv, TaskOK
<1>6. OverfullExplained'
  <2>1. ASSUME NEW e \in Equipment PROVE Queue(e)' \subseteq Queue(e) /\ Joining(e)' \subseteq Joining(e)
    <3>1. t \notin Joining(e)'
      BY <1>0, <1>1, DispatchAssumption DEF TaskOK, Joining
    <3>2. Joining(e)' \subseteq Joining(e)
      BY <1>1, <1>3, <3>1 DEF Joining, InFlight
    <3> QED BY <1>1, <3>2 DEF Queue
  <2> QED BY <1>0, <1>1, <2>1, NobodyJoins DEF DispatchInv
<1>7. ASSUME NEW k \in Items
      PROVE  /\ k \notin together => SeenAsItIs(k)'
             /\ k \notin byHand \cup together => FitsStep(k)'
             /\ k \notin excused \cup together => Remembered(k)'
  <2>1. k \notin together => SeenAsItIs(k)'
    BY <1>1, <1>3 DEF DispatchInv, SeenAsItIs
  <2>2. k \notin byHand \cup together => FitsStep(k)'
    <3>1. \A u \in On(k) : u \in Tasks
      BY DEF On, InFlight
    <3> QED BY <1>1, <1>3, <3>1 DEF DispatchInv, FitsStep
  <2>3. ASSUME k \notin excused \cup together PROVE Remembered(k)'
    <3>1. Remembered(k)
      BY <2>3 DEF DispatchInv
    <3>2. Announced(k) => Announced(k)'
      BY <1>1, <1>2 DEF Announced
    <3>3. Settled(row[k])' \/ Announced(k)' \/ \E u \in On(k)' : job'[u] = "auto"
      BY <1>1, <1>3, <3>1, <3>2 DEF Remembered, Settled
    <3>4. ASSUME NEW u \in On(k)', pc'[u] = "commit"
          PROVE  \/ Settled(copy[u])'
                 \/ copy'[u].step = row'[k].step /\ Announced(k)'
                 \/ \E v \in events' : v.item = k /\ v.step = copy'[u].step /\ v.from = u
      <4>1. u \in On(k) /\ u \in Tasks /\ item[u] = k
        BY <1>3, <3>4 DEF On, InFlight
      <4>2. CASE u = t
        BY <1>1, <1>2, <4>1, <4>2
      <4>3. CASE u # t
        <5>1. pc[u] = "commit"
          BY <1>3, <3>4, <4>1, <4>3
        <5> QED BY <1>1, <1>2, <3>1, <3>2, <4>1, <5>1 DEF Remembered, Settled
      <4> QED BY <4>2, <4>3
    <3> QED BY <3>3, <3>4 DEF Remembered
  <2> QED BY <2>1, <2>2, <2>3
<1> QED BY <1>1, <1>4, <1>5, <1>6, <1>7 DEF DispatchInv

\* A task that ends without writing; its item is excused if a dispatch was under way.
LEMMA EndKept ==
    ASSUME DispatchInv, NEW t \in InFlight, End(t),
           UNCHANGED <<row, up, events, together, byHand, excess>>,
           excused \subseteq excused', excused' \subseteq Items, job[t] = "auto" => item[t] \in excused'
    PROVE  DispatchInv'
<1>0. TypeOK
  BY DEF DispatchInv
<1>1. /\ pc'[t] = "done" /\ t \in Tasks
      /\ \A u \in Tasks \ {t} : /\ pc'[u] = pc[u] /\ job'[u] = job[u] /\ item'[u] = item[u]
                                /\ seen'[u] = seen[u] /\ copy'[u] = copy[u] /\ aim'[u] = aim[u]
      /\ InFlight' = InFlight \ {t}
      /\ \A k \in Items : On(k)' = On(k) \ {t} /\ (k # item[t] => On(k)' = On(k))
  BY <1>0, Ending
<1>2. TypeOK'
  <2>1. /\ pc' \in [Tasks -> {"idle", "publish", "evaluate", "execute", "commit", "done"}]
        /\ job' \in [Tasks -> Jobs] /\ item' \in [Tasks -> Items \cup {None}]
        /\ seen' \in [Tasks -> Rows] /\ copy' \in [Tasks -> Rows]
        /\ aim' \in [Tasks -> Equipment \cup {None}]
    BY <1>0, Ending
  <2> QED BY <1>0, <2>1 DEF TypeOK
<1>3. ASSUME NEW u \in Tasks PROVE TaskOK(u)'
  BY <1>1 DEF DispatchInv, TaskOK
<1>4. OverfullExplained'
  <2>1. ASSUME NEW e \in Equipment PROVE Queue(e)' \subseteq Queue(e) /\ Joining(e)' \subseteq Joining(e)
    BY <1>1 DEF Queue, Joining, InFlight
  <2> QED BY <1>0, <2>1, NobodyJoins DEF DispatchInv
<1>5. ASSUME NEW k \in Items
      PROVE  /\ k \notin together' => SeenAsItIs(k)'
             /\ k \notin byHand' \cup together' => FitsStep(k)'
             /\ k \notin excused' \cup together' => Remembered(k)'
  <2>1. On(k)' \subseteq On(k) /\ On(k)' \subseteq Tasks \ {t}
    BY <1>1 DEF On, InFlight
  <2>2. k \notin excused' => \A u \in On(k) : job[u] = "auto" => u \in On(k)'
    BY <1>1 DEF On
  <2> QED BY <1>1, <2>1, <2>2, ItemUntouched DEF DispatchInv
<1> QED BY <1>2, <1>3, <1>4, <1>5 DEF DispatchInv

\* No equipment has room for the item.
LEMMA GiveUpKept ==
    ASSUME DispatchInv, NEW t \in InFlight, pc[t] \in {"evaluate", "execute"}, GiveUp(t),
           UNCHANGED <<row, up, events, together, byHand>>
    PROVE  DispatchInv'
<1>0. TypeOK /\ t \in Tasks /\ TaskOK(t) /\ item[t] \in Items /\ excused \subseteq Items
  BY DEF DispatchInv, InFlight, TaskOK, TypeOK
<1>1. excused' = excused \cup {item[t]} /\ excess' = excess
  BY DEF GiveUp
<1>2. CASE End(t)
  BY <1>0, <1>1, <1>2, EndKept
<1>3. CASE /\ pc' = [pc EXCEPT ![t] = "commit"] /\ aim' = [aim EXCEPT ![t] = None]
           /\ UNCHANGED <<job, item, seen, copy>>
  <2>1. /\ pc'[t] = "commit" /\ \A u \in Tasks \ {t} : pc'[u] = pc[u]
        /\ InFlight' = InFlight /\ \A k \in Items : On(k)' = On(k)
        /\ pc' \in [Tasks -> {"idle", "publish", "evaluate", "execute", "commit", "done"}]
    BY <1>0, <1>3, Going
  <2>2. /\ aim' \in [Tasks -> Equipment \cup {None}]
        /\ \A u \in Tasks \ {t} : aim'[u] = aim[u]
    BY <1>0, <1>3 DEF TypeOK
  <2>3. TypeOK'
    BY <1>0, <1>1, <1>3, <2>1, <2>2 DEF TypeOK
  <2>4. ASSUME NEW u \in Tasks PROVE TaskOK(u)'
    BY <1>3, <2>1, <2>2 DEF DispatchInv, TaskOK
  <2>5. OverfullExplained'
    <3>1. ASSUME NEW e \in Equipment PROVE Queue(e)' \subseteq Queue(e) /\ Joining(e)' \subseteq Joining(e)
      <4>1. t \notin Joining(e)'
        BY <1>0, <1>3 DEF TaskOK, Joining
      <4>2. Joining(e)' \subseteq Joining(e)
        BY <1>3, <2>1, <4>1 DEF Joining, InFlight
      <4> QED BY <4>2 DEF Queue
    <3> QED BY <1>0, <1>1, <3>1, NobodyJoins DEF DispatchInv
  <2>6. ASSUME NEW k \in Items
        PROVE  /\ k \notin together' => SeenAsItIs(k)'
               /\ k \notin byHand' \cup together' => FitsStep(k)'
               /\ k \notin excused' \cup together' => Remembered(k)'
    <3>1. On(k)' = On(k) /\ On(k) \subseteq Tasks
      BY <2>1 DEF On, InFlight
    <3>2. k \notin together' => SeenAsItIs(k)'
      BY <1>3, <3>1 DEF DispatchInv, SeenAsItIs
    <3>3. k \notin byHand' \cup together' => FitsStep(k)'
      BY <1>3, <2>1, <2>2, <3>1 DEF DispatchInv, FitsStep
    <3>4. ASSUME k \notin excused' PROVE t \notin On(k)
      BY <1>1, <3>4 DEF On
    <3>5. k \notin excused' \cup together' => Remembered(k)'
      BY <1>1, <1>3, <2>1, <2>2, <3>1, <3>4, ItemUntouched DEF DispatchInv
    <3> QED BY <3>2, <3>3, <3>5
  <2> QED BY <2>3, <2>4, <2>5, <2>6 DEF DispatchInv
<1> QED BY <1>2, <1>3 DEF GiveUp

\* The recommended equipment, found to have room, is put into the copy.
LEMMA TakeAimKept ==
    ASSUME DispatchInv, NEW t \in Tasks, pc[t] = "execute", HasRoom(aim[t]), TakeAim(t),
           UNCHANGED <<row, up, events, together, byHand>>
    PROVE  DispatchInv'
<1>0. /\ TypeOK /\ t \in InFlight /\ TaskOK(t) /\ item[t] \in Items /\ None \notin Equipment
      /\ aim[t] \in Equipment /\ copy[t] \in Rows /\ OverfullExplained
  BY DispatchAssumption DEF DispatchInv, InFlight, TaskOK, TypeOK
<1>1. PICK e \in Equipment : e = aim[t]
  BY <1>0
<1>2. PICK c \in Rows : /\ copy' = [copy EXCEPT ![t] = c]
                        /\ c.step = copy[t].step /\ c.status = copy[t].status /\ c.equipment = e
  <2> DEFINE c == [copy[t] EXCEPT !.equipment = e]
  <2>1. c \in Rows /\ c.step = copy[t].step /\ c.status = copy[t].status /\ c.equipment = e
    BY <1>0 DEF Rows
  <2>2. copy' = [copy EXCEPT ![t] = c]
    BY <1>1 DEF TakeAim
  <2> HIDE DEF c
  <2> QED BY <2>1, <2>2
<1>3. /\ pc' = [pc EXCEPT ![t] = "commit"] /\ aim' = [aim EXCEPT ![t] = None]
      /\ UNCHANGED <<job, item, seen, excused>>
  BY DEF TakeAim
<1>4. /\ pc'[t] = "commit" /\ \A u \in Tasks \ {t} : pc'[u] = pc[u]
      /\ InFlight' = InFlight /\ \A k \in Items : On(k)' = On(k)
      /\ pc' \in [Tasks -> {"idle", "publish", "evaluate", "execute", "commit", "done"}]
  BY <1>0, <1>3, Going
<1>5. /\ aim' \in [Tasks -> Equipment \cup {None}] /\ copy' \in [Tasks -> Rows] /\ copy'[t] = c
      /\ \A u \in Tasks \ {t} : aim'[u] = aim[u] /\ copy'[u] = copy[u]
  BY <1>0, <1>2, <1>3 DEF TypeOK
<1>6. OverfullExplained' /\ excess' \in [Equipment -> Nat]
  <2>1. \A f \in Equipment : Queue(f)' = Queue(f)
    BY DEF Queue
  <2>2. ASSUME NEW f \in Equipment
        PROVE  /\ Joining(f)' \subseteq Joining(f) \cup {t}
               /\ t \in Joining(f)' => f = e /\ seen[t].equipment # e
    <3>1. Joining(f)' \subseteq Joining(f) \cup {t}
      BY <1>3, <1>4, <1>5 DEF Joining, InFlight
    <3>2. t \in Joining(f)' => f = e /\ seen[t].equipment # e
      BY <1>2, <1>3, <1>5 DEF Joining
    <3> QED BY <3>1, <3>2
  <2>3. CASE Joining(e) = {}
    <3>1. excess' = excess /\ HasRoom(e)
      BY <1>1, <2>3 DEF TakeAim
    <3> QED BY <1>0, <2>1, <2>2, <2>3, <3>1, OneJoins
  <2>4. CASE Joining(e) # {} /\ seen[t].equipment = e
    <3>1. excess' = excess
      BY <1>1, <2>4 DEF TakeAim, Joined
    <3>2. Joining(e)' \subseteq Joining(e)
      BY <2>2, <2>4
    <3> QED BY <1>0, <2>1, <2>2, <3>1, <3>2, OneJoins
  <2>5. CASE Joining(e) # {} /\ seen[t].equipment # e
    <3>1. excess' = [excess EXCEPT ![e] = @ + 1]
      BY <1>1, <2>5 DEF TakeAim, Joined
    <3>2. \A f \in Equipment : Queue(f)' = Queue(f) /\ (f # e => Joining(f)' \subseteq Joining(f))
      BY <2>1, <2>2
    <3> QED BY <1>0, <2>2, <3>1, <3>2, OneJoins
  <2> QED BY <2>3, <2>4, <2>5
<1>7. TypeOK'
  BY <1>0, <1>3, <1>4, <1>5, <1>6 DEF TypeOK
<1>8. ASSUME NEW u \in Tasks PROVE TaskOK(u)'
  BY <1>0, <1>3, <1>4, <1>5 DEF DispatchInv, TaskOK
<1>9. ASSUME NEW k \in Items
      PROVE  /\ k \notin together' => SeenAsItIs(k)'
             /\ k \notin byHand' \cup together' => FitsStep(k)'
             /\ k \notin excused' \cup together' => Remembered(k)'
  <2>1. On(k)' = On(k) /\ On(k) \subseteq Tasks
    BY <1>4 DEF On, InFlight
  <2>2. k \notin together' => SeenAsItIs(k)'
    BY <1>3, <2>1 DEF DispatchInv, SeenAsItIs
  <2>3. ASSUME k \notin byHand' \cup together' PROVE FitsStep(k)'
    <3>1. FitsStep(k)
      BY <2>3 DEF DispatchInv
    <3>2. ASSUME NEW u \in On(k) PROVE Fits(copy'[u]) /\ (pc'[u] = "execute" => aim'[u] \in Capable[copy'[u].step])
      <4>1. CASE u = t
        <5>1. aim[t] \in Capable[copy[t].step] /\ copy[t].step \in Steps
          BY <1>0, <3>1, <4>1 DEF FitsStep, TaskOK
        <5>2. Fits(c)
          BY <1>1, <1>2, <5>1, DispatchAssumption DEF Fits
        <5> QED BY <1>4, <1>5, <4>1, <5>2
      <4>2. CASE u # t
        BY <1>4, <1>5, <2>1, <3>1, <4>2 DEF FitsStep
      <4> QED BY <4>1, <4>2
    <3> QED BY <1>4, <1>5, <2>1, <3>1, <3>2 DEF FitsStep, Fits
  <2>4. ASSUME k \notin excused' \cup together' PROVE Remembered(k)'
    <3>1. Remembered(k)
      BY <1>3, <2>4 DEF DispatchInv
    <3>2. Announced(k) <=> Announced(k)'
      BY DEF Announced
    <3>3. Settled(row[k])' \/ Announced(k)' \/ \E u \in On(k)' : job'[u] = "auto"
      BY <1>3, <2>1, <3>1, <3>2 DEF Remembered, Settled
    <3>4. ASSUME NEW u \in On(k)', pc'[u] = "commit"
          PROVE  \/ Settled(copy[u])'
                 \/ copy'[u].step = row'[k].step /\ Announced(k)'
                 \/ \E v \in events' : v.item = k /\ v.step = copy'[u].step /\ v.from = u
      <4>1. CASE u = t
        BY <1>0, <1>2, <1>5, <4>1 DEF Settled
      <4>2. CASE u # t
        <5>1. pc[u] = "commit" /\ copy'[u] = copy[u] /\ u \in On(k)
          BY <1>4, <1>5, <2>1, <3>4, <4>2
        <5> QED BY <3>1, <3>2, <5>1 DEF Remembered, Settled
      <4> QED BY <4>1, <4>2
    <3> QED BY <3>3, <3>4 DEF Remembered
  <2> QED BY <2>2, <2>3, <2>4
<1> QED BY <1>6, <1>7, <1>8, <1>9 DEF DispatchInv

\* What an evaluation recommends can do the step it saw.
LEMMA EvaluateKept ==
    ASSUME DispatchInv, NEW t \in Tasks, Evaluate(t)
    PROVE  DispatchInv'
<1>0. TypeOK /\ t \in InFlight /\ TaskOK(t) /\ copy[t].step \in Steps /\ pc[t] = "evaluate"
  BY DEF DispatchInv, Evaluate, InFlight, TaskOK
<1>1. UNCHANGED <<row, up, events, together, byHand>>
  BY DEF Evaluate
<1>2. CASE GiveUp(t)
  BY <1>0, <1>1, <1>2, GiveUpKept
<1>3. CASE \E e \in Capable[copy[t].step] :
             /\ HasRoom(e) /\ aim' = [aim EXCEPT ![t] = e]
             /\ pc' = [pc EXCEPT ![t] = "execute"]
             /\ UNCHANGED <<job, item, seen, copy, excused, excess>>
  <2>1. PICK e \in Capable[copy[t].step] : aim' = [aim EXCEPT ![t] = e]
    BY <1>3
  <2>2. pc' = [pc EXCEPT ![t] = "execute"] /\ UNCHANGED <<job, item, seen, copy, excused, excess>>
    BY <1>3
  <2>3. e \in Equipment
    BY <1>0, DispatchAssumption
  <2>4. /\ pc'[t] = "execute" /\ \A u \in Tasks \ {t} : pc'[u] = pc[u]
        /\ InFlight' = InFlight /\ \A k \in Items : On(k)' = On(k)
        /\ pc' \in [Tasks -> {"idle", "publish", "evaluate", "execute", "commit", "done"}]
    BY <1>0, <2>2, Going
  <2>5. /\ aim' \in [Tasks -> Equipment \cup {None}] /\ aim'[t] = e
        /\ \A u \in Tasks \ {t} : aim'[u] = aim[u]
    BY <1>0, <2>1, <2>3 DEF TypeOK
  <2>6. TypeOK'
    BY <1>0, <1>1, <2>2, <2>4, <2>5 DEF TypeOK
  <2>7. ASSUME NEW u \in Tasks PROVE TaskOK(u)'
    BY <1>0, <2>2, <2>3, <2>4, <2>5 DEF DispatchInv, TaskOK
  <2>8. OverfullExplained'
    <3>1. ASSUME NEW f \in Equipment PROVE Queue(f)' \subseteq Queue(f) /\ Joining(f)' \subseteq Joining(f)
      BY <1>1, <2>2, <2>4 DEF Queue, Joining, InFlight
    <3> QED BY <1>0, <2>2, <3>1, NobodyJoins DEF DispatchInv
  <2>9. ASSUME NEW k \in Items
        PROVE  /\ k \notin together' => SeenAsItIs(k)'
               /\ k \notin byHand' \cup together' => FitsStep(k)'
               /\ k \notin excused' \cup together' => Remembered(k)'
    <3>1. On(k)' = On(k) /\ On(k) \subseteq Tasks
      BY <2>4 DEF On, InFlight
    <3>2. k \notin together' => SeenAsItIs(k)'
      BY <1>1, <2>2, <3>1 DEF DispatchInv, SeenAsItIs
    <3>3. k \notin byHand' \cup together' => FitsStep(k)'
      BY <1>1, <2>2, <2>4, <2>5, <3>1 DEF DispatchInv, FitsStep, Fits
    <3>4. k \notin excused' \cup together' => Remembered(k)'
      <4>1. \A u \in On(k) : pc'[u] = "commit" => pc[u] = "commit"
        BY <2>4, <3>1
      <4> QED BY <1>1, <2>2, <3>1, <4>1 DEF DispatchInv, Remembered, Announced, Settled
    <3> QED BY <3>2, <3>3, <3>4
  <2> QED BY <2>6, <2>7, <2>8, <2>9 DEF DispatchInv
<1>4. GiveUp(t) \/ \E e \in Capable[copy[t].step] :
             /\ HasRoom(e) /\ aim' = [aim EXCEPT ![t] = e]
             /\ pc' = [pc EXCEPT ![t] = "execute"]
             /\ UNCHANGED <<job, item, seen, copy, excused, excess>>
  BY DEF Evaluate
<1> QED BY <1>2, <1>3, <1>4

\* An assignment takes the recommended equipment or, if there is no room, gives up.
LEMMA AssignKept ==
    ASSUME DispatchInv, NEW t \in Tasks, Assign(t)
    PROVE  DispatchInv'
<1>1. t \in InFlight /\ pc[t] = "execute" /\ UNCHANGED <<row, up, events, together, byHand>>
  BY DEF Assign, InFlight
<1> QED BY <1>1, TakeAimKept, GiveUpKept DEF Assign

\* A commit writes the copy of the task over the row, as far as the task changed it.
LEMMA CommitKept ==
    ASSUME DispatchInv, NEW t \in Tasks, Commit(t)
    PROVE  DispatchInv'
<1>0. TypeOK /\ OverfullExplained /\ t \in InFlight /\ pc[t] = "commit" /\ item[t] \in Items
  BY DEF DispatchInv, Commit, InFlight, TaskOK
<1>1. PICK i \in Items : i = item[t]
  BY <1>0
<1> DEFINE r == Written(t, row[i])
<1>2. /\ r \in Rows /\ (seen[t] = row[i] => r = copy[t])
      /\ r.equipment = IF copy[t].equipment # seen[t].equipment THEN copy[t].equipment ELSE row[i].equipment
  <2>1. copy[t] \in Rows /\ seen[t] \in Rows /\ row[i] \in Rows
    BY <1>0 DEF TypeOK
  <2> QED BY <2>1, WrittenRow DEF Written
<1>3. /\ row' = [row EXCEPT ![i] = r] /\ End(t)
      /\ UNCHANGED <<up, events, together, byHand, excused>>
      /\ LET back == r.equipment # None /\ r.equipment = row[i].equipment
                       /\ r.status \in Working /\ row[i].status \notin Working
         IN  excess' = IF back THEN [excess EXCEPT ![r.equipment] = @ + 1] ELSE excess
  BY <1>1 DEF Commit
<1> HIDE DEF r
<1>4. /\ pc'[t] = "done" /\ t \in Tasks
      /\ \A u \in Tasks \ {t} : /\ pc'[u] = pc[u] /\ job'[u] = job[u] /\ item'[u] = item[u]
                                /\ seen'[u] = seen[u] /\ copy'[u] = copy[u] /\ aim'[u] = aim[u]
      /\ InFlight' = InFlight \ {t}
      /\ \A k \in Items : On(k)' = On(k) \ {t} /\ (k # i => On(k)' = On(k))
  BY <1>0, <1>1, <1>3, Ending
<1>5. row' \in [Items -> Rows] /\ row'[i] = r /\ \A k \in Items \ {i} : row'[k] = row[k]
  BY <1>0, <1>2, <1>3 DEF TypeOK
<1>6. OverfullExplained' /\ excess' \in [Equipment -> Nat]
  <2>1. ASSUME NEW e \in Equipment PROVE Joining(e)' = Joining(e) \ {t}
    BY <1>4 DEF Joining, InFlight
  <2>2. CASE /\ r.equipment # None /\ r.equipment = row[i].equipment
             /\ r.status \in Working /\ row[i].status \notin Working
    <3>1. r.equipment \in Equipment /\ excess' = [excess EXCEPT ![r.equipment] = @ + 1]
      BY <1>2, <1>3, <2>2 DEF Rows
    <3> QED BY <1>0, <1>2, <1>3, <2>1, <3>1, OneArrives
  <2>3. CASE ~(/\ r.equipment # None /\ r.equipment = row[i].equipment
               /\ r.status \in Working /\ row[i].status \notin Working)
    <3>1. excess' = excess
      BY <1>3, <2>3
    <3>2. ASSUME r.equipment \in Equipment, r.status \in Working
          PROVE  t \in Joining(r.equipment) \/ i \in Queue(r.equipment)
      <4>1. CASE copy[t].equipment # seen[t].equipment
        BY <1>0, <1>2, <4>1 DEF Joining
      <4>2. CASE copy[t].equipment = seen[t].equipment
        BY <1>2, <2>3, <3>2, <4>2, DispatchAssumption DEF Queue
      <4> QED BY <4>1, <4>2
    <3> QED BY <1>0, <1>2, <1>3, <2>1, <3>1, <3>2, OneArrives
  <2> QED BY <2>2, <2>3
<1>7. TypeOK'
  <2>1. /\ pc' \in [Tasks -> {"idle", "publish", "evaluate", "execute", "commit", "done"}]
        /\ job' \in [Tasks -> Jobs] /\ item' \in [Tasks -> Items \cup {None}]
        /\ seen' \in [Tasks -> Rows] /\ copy' \in [Tasks -> Rows]
        /\ aim' \in [Tasks -> Equipment \cup {None}]
    BY <1>0, <1>3, Ending
  <2> QED BY <1>0, <1>3, <1>5, <1>6, <2>1 DEF TypeOK
<1>8. ASSUME NEW u \in Tasks PROVE TaskOK(u)'
  BY <1>4 DEF DispatchInv, TaskOK
<1>9. ASSUME NEW k \in Items, k # i
      PROVE  /\ k \notin together' => SeenAsItIs(k)'
             /\ k \notin byHand' \cup together' => FitsStep(k)'
             /\ k \notin excused' \cup together' => Remembered(k)'
  <2>1. On(k)' = On(k) /\ On(k) \subseteq Tasks \ {t} /\ row'[k] = row[k]
    BY <1>1, <1>4, <1>5, <1>9 DEF On, InFlight
  <2> QED BY <1>3, <1>4, <2>1, ItemUntouched DEF DispatchInv
<1>10. ASSUME i \notin together
       PROVE  /\ SeenAsItIs(i)' /\ (i \notin byHand' => FitsStep(i)') /\ (i \notin excused' => Remembered(i)')
  <2>1. t \in On(i) /\ On(i) = {t} /\ seen[t] = row[i]
    BY <1>0, <1>1, <1>10 DEF DispatchInv, SeenAsItIs, On
  <2>2. On(i)' = {} /\ row'[i] = copy[t]
    BY <1>2, <1>4, <1>5, <2>1
  <2>3. i \notin byHand' => FitsStep(i)'
    BY <1>3, <1>10, <2>1, <2>2 DEF DispatchInv, FitsStep, Fits
  <2>4. ASSUME i \notin excused' PROVE Remembered(i)'
    <3>1. \/ Settled(copy[t])
          \/ copy[t].step = row[i].step /\ Announced(i)
          \/ \E v \in events : v.item = i /\ v.step = copy[t].step /\ v.from = t
      BY <1>0, <1>3, <1>10, <2>1, <2>4 DEF DispatchInv, Remembered
    <3>2. Settled(row[i])' \/ Announced(i)'
      BY <1>3, <2>2, <3>1 DEF Settled, Announced
    <3> QED BY <2>2, <3>2 DEF Remembered
  <2> QED BY <2>2, <2>3, <2>4 DEF SeenAsItIs
<1> QED BY <1>3, <1>6, <1>7, <1>8, <1>9, <1>10 DEF DispatchInv

-----------------------------------------------------------------------------
(***************************************************************************)
(* Every step.                                                             *)
(***************************************************************************)

\* An event that is lost or dropped excuses its item, unless the item has moved on.
LEMMA EventGoneKept ==
    ASSUME DispatchInv, NEW v \in events, Drop(v) \/ LoseEvent(v)
    PROVE  DispatchInv'
<1>0. TypeOK /\ v.item \in Items
  BY DEF DispatchInv, TypeOK
<1>1. /\ UNCHANGED <<row, up, job, item, pc, seen, copy, aim, together, byHand, excess>>
      /\ events' = events \ {v}
      /\ excused' \in {excused, excused \cup {v.item}}
      /\ v.item \in excused' \/ (row[v.item].step # v.step /\ v.from \notin InFlight)
  BY DEF Drop, LoseEvent, task
<1>2. TypeOK'
  BY <1>0, <1>1 DEF TypeOK
<1>3. /\ InFlight' = InFlight /\ \A k \in Items : On(k)' = On(k)
      /\ \A u \in Tasks : TaskOK(u)'
      /\ \A k \in Items : /\ SeenAsItIs(k) => SeenAsItIs(k)'
                          /\ FitsStep(k) => FitsStep(k)'
  BY <1>1 DEF InFlight, On, TaskOK, DispatchInv, SeenAsItIs, FitsStep, Fits
<1>4. OverfullExplained'
  BY <1>1, <1>3 DEF DispatchInv, OverfullExplained, Queue, Joining
<1>5. ASSUME NEW k \in Items, k \notin excused' \cup together' PROVE Remembered(k)'
  <2>1. Remembered(k)
    BY <1>1, <1>5 DEF DispatchInv
  <2>2. v.item = k => row[k].step # v.step /\ v.from \notin On(k)
    BY <1>1, <1>5 DEF On
  <2>3. Announced(k) => Announced(k)'
    BY <1>1, <2>2 DEF Announced
  <2>4. Settled(row[k])' \/ Announced(k)' \/ \E u \in On(k)' : job'[u] = "auto"
    BY <1>1, <1>3, <2>1, <2>3 DEF Remembered, Settled
  <2>5. ASSUME NEW u \in On(k)', pc'[u] = "commit"
        PROVE  \/ Settled(copy[u])'
               \/ copy'[u].step = row'[k].step /\ Announced(k)'
               \/ \E w \in events' : w.item = k /\ w.step = copy'[u].step /\ w.from = u
    <3>1. u \in On(k) /\ pc[u] = "commit"
      BY <1>1, <1>3, <2>5
    <3>2. \A w \in events : w.item = k /\ w.from = u => w # v
      BY <2>2, <3>1
    <3> QED BY <1>1, <2>1, <2>3, <3>1, <3>2 DEF Remembered, Settled
  <2> QED BY <2>4, <2>5 DEF Remembered
<1> QED BY <1>1, <1>2, <1>3, <1>4, <1>5 DEF DispatchInv

\* Items stand at the equipment of their step, and nobody works on them.
LEMMA DispatchBegins == Init => DispatchInv
<1> SUFFICES ASSUME Init PROVE DispatchInv
  OBVIOUS
<1>1. row \in [Items -> Rows] /\ \A i \in Items : Fits(row[i]) /\ Settled(row[i])
  <2>1. \A i \in Items : row[i] = Fresh \/ (row[i] \in Rows /\ row[i].step # None /\ row[i].equipment \in Capable[row[i].step])
    BY DEF Init
  <2>2. row \in [Items -> Rows]
    BY FreshIsRow DEF Init
  <2>3. ASSUME NEW i \in Items PROVE Fits(row[i]) /\ Settled(row[i])
    <3>1. CASE row[i] = Fresh
      BY <3>1, FreshIsRow DEF Fits, Settled
    <3>2. CASE row[i] \in Rows /\ row[i].step # None /\ row[i].equipment \in Capable[row[i].step]
      <4>1. row[i].step \in Steps
        BY <3>2 DEF Rows
      <4> QED BY <3>2, <4>1, DispatchAssumption DEF Fits, Settled
    <3> QED BY <2>1, <3>1, <3>2
  <2> QED BY <2>2, <2>3
<1>2. InFlight = {} /\ \A i \in Items : On(i) = {}
  BY DEF Init, InFlight, On
<1>3. TypeOK
  BY <1>1, FreshIsRow DEF Init, TypeOK, Jobs
<1>4. \A t \in Tasks : TaskOK(t)
  BY <1>2 DEF Init, TaskOK
<1>5. OverfullExplained
  <2> SUFFICES ASSUME NEW e \in Equipment
               PROVE  Cardinality(Queue(e)) + Cardinality(Joining(e)) <= Limit[e] + excess[e]
    BY DEF OverfullExplained
  <2>1. Joining(e) = {} /\ Cardinality(Queue(e)) <= Limit[e] /\ excess[e] = 0
    BY <1>2 DEF Joining, Init
  <2>2. Cardinality({}) = 0
    BY FS_EmptySet
  <2> QED BY <2>1, <2>2, QueuesAreFinite, DispatchAssumption
<1> QED BY <1>1, <1>2, <1>3, <1>4, <1>5 DEF DispatchInv, SeenAsItIs, FitsStep, Remembered

\* Every step of dispatch and of the requests around it keeps the invariant.
LEMMA DispatchSteps == DispatchInv /\ [Next]_vars => DispatchInv'
<1> SUFFICES ASSUME DispatchInv, [Next]_vars PROVE DispatchInv'
  OBVIOUS
<1>1. ASSUME NEW t \in Tasks, NEW i \in Items, Request(t, i) PROVE DispatchInv'
  BY <1>1, StartAtKept, ExecuteKept, StartKept, MoveKept, HoldKept, AutoKept DEF Request
<1>2. ASSUME NEW t \in Tasks, Proceed(t) PROVE DispatchInv'
  <2>1. CASE Rollback(t)
    <3>1. /\ t \in InFlight /\ End(t) /\ UNCHANGED <<row, up, events, together, byHand, excess>>
          /\ excused' = IF job[t] = "auto" THEN excused \cup {item[t]} ELSE excused
      BY <2>1 DEF Rollback
    <3>2. item[t] \in Items /\ excused \subseteq Items
      BY <3>1 DEF DispatchInv, TaskOK, TypeOK
    <3> QED BY <3>1, <3>2, EndKept
  <2> QED BY <1>2, <2>1, PublishKept, EvaluateKept, AssignKept, CommitKept DEF Proceed
<1>3. ASSUME NEW v \in events, Drop(v) \/ LoseEvent(v) PROVE DispatchInv'
  BY <1>3, EventGoneKept
<1>4. ASSUME NEW v \in events, NEW t \in Tasks, Handle(t, v) PROVE DispatchInv'
  <2>1. v.item \in Items
    BY DEF DispatchInv, TypeOK
  <2> QED BY <1>4, <2>1, AutoKept
<1>5. ASSUME NEW e \in Logged, ChangeState(e) PROVE DispatchInv'
  <2>1. /\ UNCHANGED <<row, events, job, item, pc, seen, copy, aim, together, byHand, excused, excess>>
        /\ up' \subseteq Equipment
    BY <1>5, DispatchAssumption DEF ChangeState, task, DispatchInv, TypeOK
  <2>2. TypeOK'
    BY <2>1 DEF DispatchInv, TypeOK
  <2> QED BY <2>1, <2>2 DEF DispatchInv, InFlight, On, TaskOK, SeenAsItIs, FitsStep, Fits,
                            Remembered, Settled, Announced, OverfullExplained, Queue, Joining
<1>6. CASE UNCHANGED vars
  BY <1>6 DEF vars, DispatchInv, TypeOK, InFlight, On, TaskOK, SeenAsItIs, FitsStep, Fits,
              Remembered, Settled, Announced, OverfullExplained, Queue, Joining
<1> QED BY <1>1, <1>2, <1>3, <1>4, <1>5, <1>6 DEF Next

-----------------------------------------------------------------------------
(***************************************************************************)
(* The theorems.                                                           *)
(***************************************************************************)

\* Queues and those about to join them are within their limits and the excess counted; an item
\* of one task at a time is still as the task has seen it; and what waits has a cause.
THEOREM DispatchIsInductive == Spec => []DispatchInv
BY DispatchBegins, DispatchSteps, PTL DEF Spec

\* A queue is over its limit only by the dispatches that checked it at the same time, the
\* starts at equipment the operator named, and the items that came back from hold
\* (_get_queue_depth, DispatchService.execute).
THEOREM QueuesKeepLimits == Spec => []OverfullExplained
<1>1. DispatchInv => OverfullExplained
  BY DEF DispatchInv
<1> QED BY <1>1, DispatchIsInductive, PTL

\* An item that no operator placed, and that no two transactions met on, is at equipment
\* of the step it is at.
THEOREM RightEquipment == Spec => []AtEquipmentOfItsStep
<1>1. DispatchInv => AtEquipmentOfItsStep
  BY DEF DispatchInv, FitsStep, Fits, AtEquipmentOfItsStep
<1> QED BY <1>1, DispatchIsInductive, PTL

\* An item that waits at a step without equipment, with nothing under way for it, is one
\* dispatch was given up for, or one two transactions met on.
THEOREM NoItemForgotten == Spec => []NobodyForgotten
<1>1. ASSUME DispatchInv PROVE NobodyForgotten
  <2> SUFFICES ASSUME NEW i \in Items \ (excused \cup together), Quiet(i),
                      row[i].step # None, row[i].status \in Working
               PROVE  row[i].equipment # None
    BY DEF NobodyForgotten
  <2>1. Remembered(i) /\ On(i) = {} /\ ~Announced(i)
    BY <1>1 DEF DispatchInv, Quiet, Announced
  <2>2. row[i].status # "gone"
    BY DEF Working
  <2> QED BY <2>1, <2>2 DEF Remembered, Settled
<1> QED BY <1>1, DispatchIsInductive, PTL
=============================================================================
