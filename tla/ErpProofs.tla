------------------------------ MODULE ErpProofs ------------------------------
(***************************************************************************)
(* What the two queues of the ERP and the import of its materials promise, *)
(* whatever the number of processes, rows, attempts, faults and requests.  *)
(*                                                                         *)
(* Reports to the ERP: one marked as sent has arrived, and every further   *)
(* copy is accounted for.  For the copies the argument is a budget: what   *)
(* the ERP has of a report, what the loops that hold it may still send of  *)
(* it, and what the next loop to read it may send, are together at most    *)
(* one more than its lapses.                                               *)
(* The queue implements ReportDelivery step by step, because the row a     *)
(* loop writes is still open, or somebody has come between and left an     *)
(* excuse.                                                                 *)
(*                                                                         *)
(* Orders from the ERP: a copy called processed has its order, and an      *)
(* order has the pieces it should have unless one of two things happened.  *)
(* The argument is about who has written what and not committed: one       *)
(* session at most per order, and in it the numbers that come next.        *)
(*                                                                         *)
(* Materials from the ERP: an import that ends has updated all that was    *)
(* listed, or knows why not.  The argument is how far in the list it has   *)
(* read, and that what it read alone is no older than any row has been.    *)
(***************************************************************************)
EXTENDS ErpOutbound, ErpInbound, ErpSync, Sums, SequenceTheorems

\* A loop remembers outcomes of the rows of its batch only.
NothingLeft == \A w \in Workers, r \in Reports : r \notin batch[w] => outcome[w][r] = "none"

\* A row that is open, or not inserted yet, has attempts left, and so had a row of a batch when it was read.
AttemptsLeft ==
    /\ \A r \in Reports : status[r] \in Open \cup {"absent"} => attempts[r] < MaxAttempts
    /\ \A w \in Workers : \A r \in batch[w] :
          /\ seen[w][r].status \in Open /\ seen[w][r].attempts < MaxAttempts
          /\ outcome[w][r] = "retry" => seen[w][r].attempts + 1 < MaxAttempts

\* Who calls a report sent has seen the ERP take it.
Evidence ==
    \A r \in Reports :
        /\ status[r] = "sent" => accepted[r] > 0
        /\ \A w \in Workers : outcome[w][r] = "sent" => accepted[r] > 0

\* The loops that may still hand the report over.
Sending(r) == {w \in Workers : r \in batch[w] /\ outcome[w][r] # "sent"}

\* Nobody holds the report, and it is not sent: the next loop to read it may send it.
Spare(r) == IF Holders(r) = {} /\ status[r] # "sent" THEN 1 ELSE 0

Bounded(r) == accepted[r] + Cardinality(Sending(r)) + Spare(r) <= 1 + lapses[r]

Budget == \A r \in Reports : Bounded(r)

Typed == TypeOK /\ NothingLeft /\ AttemptsLeft

IInv == Typed /\ Evidence /\ Budget

-----------------------------------------------------------------------------
\* The sets of loops are finite.
LEMMA LoopsFinite ==
    ASSUME NEW S \in SUBSET Workers
    PROVE  IsFiniteSet(S) /\ Cardinality(S) \in Nat
BY FS_Subset, FS_CardinalityType, ErpOutboundAssumption

LEMMA InitHolds == Init => IInv
<1> SUFFICES ASSUME Init PROVE IInv
  OBVIOUS
<1> USE ErpOutboundAssumption DEF Init
<1>1. TypeOK
  BY DEF TypeOK, Statuses, Open, Unread
<1>2. NothingLeft /\ AttemptsLeft /\ Evidence
  BY DEF NothingLeft, AttemptsLeft, Evidence, Open
<1>3. \A r \in Reports : Sending(r) = {}
  BY DEF Sending
<1>4. \A r \in Reports : Cardinality(Sending(r)) = 0
  BY <1>3, FS_EmptySet
<1>5. Budget
  BY <1>4 DEF Budget, Bounded, Spare
<1> QED
  BY <1>1, <1>2, <1>5 DEF IInv, Typed

-----------------------------------------------------------------------------
Views == [status : Open \cup {"absent"}, attempts : 0..MaxAttempts]

\* What a loop that is done leaves behind.
LEMMA ForgetKeeps ==
    ASSUME Typed, NEW w \in Workers, Forget(w)
    PROVE  /\ batch' \in [Workers -> SUBSET Reports]
           /\ seen' \in [Workers -> [Reports -> Views]]
           /\ outcome' \in [Workers -> [Reports -> {"none", "sent", "retry", "failed"}]]
           /\ batch'[w] = {} /\ \A r \in Reports : outcome'[w][r] = "none"
           /\ \A v \in Workers \ {w} : /\ batch'[v] = batch[v]
                                       /\ seen'[v] = seen[v] /\ outcome'[v] = outcome[v]
           /\ NothingLeft'
<1>1. [r \in Reports |-> Unread] \in [Reports -> Views]
  BY ErpOutboundAssumption DEF Views, Unread
<1> QED
  BY <1>1 DEF Typed, TypeOK, Forget, Views, NothingLeft

\* What becomes of the report whose turn it is.
LEMMA OutcomeKeeps ==
    ASSUME Typed, NEW w \in Workers, NEW r \in Reports, Turn(w, r),
           NEW o \in {"sent", "retry", "failed"},
           outcome' = [outcome EXCEPT ![w][r] = o]
    PROVE  /\ outcome' \in [Workers -> [Reports -> {"none", "sent", "retry", "failed"}]]
           /\ outcome'[w][r] = o
           /\ \A v \in Workers, x \in Reports :
                 v # w \/ x # r => outcome'[v][x] = outcome[v][x]
           /\ \A v \in Workers \ {w} : outcome'[v] = outcome[v]
BY DEF Typed, TypeOK

-----------------------------------------------------------------------------
\* Types, and what is left of the attempts.
LEMMA TypedKept == Typed /\ [Next]_vars => Typed'
<1> SUFFICES ASSUME Typed, [Next]_vars PROVE Typed'
  OBVIOUS
<1> USE ErpOutboundAssumption DEF rows
<1>a. TypeOK /\ NothingLeft /\ AttemptsLeft
  BY DEF Typed
<1>1. ASSUME NEW r \in Reports, Enqueue(r) PROVE Typed'
  <2>1. {o \in Reports : status[o] # "absent"} \in SUBSET Reports
    OBVIOUS
  <2>2. Cardinality({o \in Reports : status[o] # "absent"}) \in Nat
    BY <2>1, FS_Subset, FS_CardinalityType
  <2>3. TypeOK'
    BY <1>1, <1>a, <2>2 DEF Enqueue, TypeOK, Statuses, Open
  <2>4. NothingLeft' /\ AttemptsLeft'
    <3>1. attempts[r] < MaxAttempts
      BY <1>1, <1>a DEF Enqueue, AttemptsLeft
    <3> QED
      BY <1>1, <1>a, <3>1 DEF Enqueue, NothingLeft, AttemptsLeft, TypeOK
  <2> QED
    BY <2>3, <2>4 DEF Typed
<1>2. ASSUME NEW w \in Workers, Select(w) PROVE Typed'
  <2>1. PICK B \in SUBSET Reports :
          /\ OldestDue(B)
          /\ batch' = [batch EXCEPT ![w] = B]
          /\ seen' = [seen EXCEPT ![w] = [r \in Reports |->
                         IF r \in B THEN [status |-> status[r], attempts |-> attempts[r]]
                                    ELSE Unread]]
          /\ lapses' = [r \in Reports |->
                         IF r \in B /\ Holders(r) # {} THEN lapses[r] + 1 ELSE lapses[r]]
    BY <1>2 DEF Select
  <2> DEFINE view == [r \in Reports |->
                         IF r \in B THEN [status |-> status[r], attempts |-> attempts[r]]
                                    ELSE Unread]
  <2>2. \A r \in B : status[r] \in Open
    BY <2>1 DEF OldestDue, Due, Open
  <2>3. \A r \in Reports : status[r] \in Open => [status |-> status[r], attempts |-> attempts[r]] \in Views
    BY <1>a DEF TypeOK, Views
  <2>4. Unread \in Views
    BY DEF Unread, Views
  <2>5. view \in [Reports -> Views]
    BY <2>2, <2>3, <2>4
  <2>6. \A r \in B : view[r].status = status[r] /\ view[r].attempts = attempts[r]
    OBVIOUS
  <2>7. seen' = [seen EXCEPT ![w] = view]
    BY <2>1
  <2> HIDE DEF view
  <2>8. seen' \in [Workers -> [Reports -> Views]]
    BY <1>a, <2>5, <2>7 DEF TypeOK, Views
  <2>9. TypeOK'
    BY <1>2, <1>a, <2>1, <2>8 DEF Select, TypeOK, Views
  <2>10. NothingLeft'
    BY <1>2, <1>a, <2>1 DEF Select, NothingLeft, TypeOK
  <2>11. AttemptsLeft'
    <3>1. batch'[w] = B /\ seen'[w] = view /\ outcome' = outcome /\ UNCHANGED <<status, attempts>>
      BY <1>2, <1>a, <2>1, <2>7 DEF Select, TypeOK
    <3>2. \A r \in B : outcome[w][r] = "none"
      BY <1>2, <1>a DEF Select, NothingLeft
    <3>3. \A v \in Workers \ {w} : batch'[v] = batch[v] /\ seen'[v] = seen[v]
      BY <1>a, <2>1, <2>7 DEF TypeOK
    <3> QED
      BY <1>a, <2>2, <2>6, <3>1, <3>2, <3>3 DEF AttemptsLeft
  <2> QED
    BY <2>9, <2>10, <2>11 DEF Typed
<1>3. ASSUME NEW w \in Workers, NEW r \in Reports, SendAccepted(w, r) PROVE Typed'
  <2>1. outcome' = [outcome EXCEPT ![w][r] = "sent"] /\ Turn(w, r)
    BY <1>3 DEF SendAccepted
  <2>2. TypeOK'
    BY <1>3, <1>a, <2>1, OutcomeKeeps DEF SendAccepted, TypeOK
  <2> QED
    BY <1>3, <1>a, <2>1, <2>2, OutcomeKeeps DEF SendAccepted, Turn, Typed, NothingLeft, AttemptsLeft
<1>4. ASSUME NEW w \in Workers, NEW r \in Reports, SendRefused(w, r) \/ SendUnanswered(w, r) PROVE Typed'
  <2>1. PICK o \in {"failed", "retry"} :
           /\ outcome' = [outcome EXCEPT ![w][r] = o] /\ Turn(w, r)
           /\ o = "retry" => ~(seen[w][r].attempts + 1 >= MaxAttempts)
    BY <1>4 DEF SendRefused, SendUnanswered, AfterFailure
  <2>0. o \in {"sent", "retry", "failed"}
    OBVIOUS
  <2>2. TypeOK'
    <3>1. outcome' \in [Workers -> [Reports -> {"none", "sent", "retry", "failed"}]]
      BY <2>1, OutcomeKeeps
    <3>2. CASE SendRefused(w, r)
      BY <3>2, <1>a, <3>1 DEF SendRefused, TypeOK
    <3>3. CASE SendUnanswered(w, r)
      BY <3>3, <1>a, <3>1 DEF SendUnanswered, TypeOK
    <3> QED
      BY <1>4, <3>2, <3>3
  <2>3. o = "retry" => seen[w][r].attempts + 1 < MaxAttempts
    <3>1. seen[w][r].attempts \in Nat
      BY <1>a DEF TypeOK
    <3> QED
      BY <2>1, <3>1
  <2>4. UNCHANGED <<status, attempts, batch, seen>> /\ r \in batch[w]
    BY <1>4 DEF SendRefused, SendUnanswered, Turn
  <2>5. /\ outcome'[w][r] = o
        /\ \A v \in Workers, x \in Reports : v # w \/ x # r => outcome'[v][x] = outcome[v][x]
    BY <1>a, <2>1 DEF TypeOK
  <2>6. \A v \in Workers : batch[v] \subseteq Reports
    BY <1>a DEF TypeOK
  <2>7. NothingLeft'
    BY <1>a, <2>4, <2>5 DEF NothingLeft
  <2>8. AttemptsLeft'
    BY <1>a, <2>3, <2>4, <2>5, <2>6 DEF AttemptsLeft
  <2> QED
    BY <2>2, <2>7, <2>8 DEF Typed
<1>5. ASSUME NEW w \in Workers, Save(w) PROVE Typed'
  <2>0. Forget(w)
    BY <1>5 DEF Save
  <2>1. \A r \in batch[w] : /\ r \in Reports /\ outcome[w][r] \in {"sent", "retry", "failed"}
                            /\ seen[w][r].attempts \in Nat
                            /\ seen[w][r].attempts < MaxAttempts
                            /\ seen[w][r].status \in Open
                            /\ outcome[w][r] = "retry" => seen[w][r].attempts + 1 < MaxAttempts
    BY <1>5, <1>a DEF Save, TypeOK, AttemptsLeft
  <2>2. \A r \in Reports : r \in batch[w] => attempts'[r] = seen[w][r].attempts + 1
    BY <1>5, <2>1 DEF Save, Attempted
  <2>3. \A r \in Reports : r \notin batch[w] => attempts'[r] = attempts[r] /\ status'[r] = status[r]
    BY <1>5 DEF Save, Attempted
  <2>4. \A r \in Reports : r \in batch[w] =>
           status'[r] = IF outcome[w][r] # seen[w][r].status THEN outcome[w][r] ELSE status[r]
    BY <1>5 DEF Save
  <2>5. attempts' \in [Reports -> 0..MaxAttempts]
    <3>1. attempts' = [r \in Reports |-> attempts'[r]]
      BY <1>5 DEF Save
    <3>2. ASSUME NEW r \in Reports PROVE attempts'[r] \in 0..MaxAttempts
      <4>1. CASE r \in batch[w]
        BY <2>1, <2>2, <4>1
      <4>2. CASE r \notin batch[w]
        BY <1>a, <2>3, <4>2 DEF TypeOK
      <4> QED
        BY <4>1, <4>2
    <3> QED
      BY <3>1, <3>2
  <2>6. status' \in [Reports -> Statuses \cup {"absent"}]
    <3>1. status' = [r \in Reports |-> status'[r]]
      BY <1>5 DEF Save
    <3>2. \A r \in Reports : status'[r] \in Statuses \cup {"absent"}
      BY <1>a, <2>1, <2>3, <2>4 DEF TypeOK, Statuses, Open
    <3> QED
      BY <3>1, <3>2
  <2>7. TypeOK'
    BY <1>5, <1>a, <2>0, <2>1, <2>5, <2>6, ForgetKeeps DEF Save, TypeOK, Views
  <2>8. \A r \in Reports : status'[r] \in Open \cup {"absent"} => attempts'[r] < MaxAttempts
    BY <1>a, <2>1, <2>2, <2>3, <2>4 DEF AttemptsLeft, Open
  <2>9. AttemptsLeft' /\ NothingLeft'
    BY <1>a, <2>0, <2>8, ForgetKeeps DEF AttemptsLeft
  <2> QED
    BY <2>7, <2>9 DEF Typed
<1>6. ASSUME NEW w \in Workers, Lose(w) PROVE Typed'
  <2>0. Forget(w)
    BY <1>6 DEF Lose
  <2>1. lapses' \in [Reports -> Nat]
    BY <1>6, <1>a DEF Lose, TypeOK
  <2>2. TypeOK'
    BY <1>6, <1>a, <2>0, <2>1, ForgetKeeps DEF Lose, TypeOK, Views
  <2>3. AttemptsLeft' /\ NothingLeft'
    BY <1>6, <1>a, <2>0, ForgetKeeps DEF Lose, AttemptsLeft
  <2> QED
    BY <2>2, <2>3 DEF Typed
<1>7. ASSUME NEW r \in Reports, Elapse(r) \/ AskRetry(r) PROVE Typed'
  BY <1>7, <1>a DEF Elapse, AskRetry, Typed, TypeOK, NothingLeft, AttemptsLeft
<1>8. ASSUME NEW r \in Reports, Retry(r) PROVE Typed'
  <2>1. TypeOK'
    BY <1>8, <1>a DEF Retry, TypeOK, Statuses, Open
  <2>2. NothingLeft' /\ AttemptsLeft'
    BY <1>8, <1>a DEF Retry, TypeOK, NothingLeft, AttemptsLeft
  <2> QED
    BY <2>1, <2>2 DEF Typed
<1>9. ASSUME NEW w \in Workers, Unplug(w) \/ Plug(w) PROVE Typed'
  BY <1>9, <1>a DEF Unplug, Plug, Typed, TypeOK, NothingLeft, AttemptsLeft
<1>10. CASE UNCHANGED vars
  BY <1>10, <1>a DEF vars, Typed, TypeOK, NothingLeft, AttemptsLeft
<1> QED
  BY <1>1, <1>2, <1>3, <1>4, <1>5, <1>6, <1>7, <1>8, <1>9, <1>10 DEF Next, Loop, Send

-----------------------------------------------------------------------------
\* Who calls a report sent goes on having seen the ERP take it.
LEMMA EvidenceKept == Typed /\ Evidence /\ [Next]_vars => Evidence'
<1> SUFFICES ASSUME Typed, Evidence, [Next]_vars PROVE Evidence'
  OBVIOUS
<1> USE DEF rows
<1>a. TypeOK
  BY DEF Typed
<1>1. ASSUME NEW r \in Reports, Enqueue(r) \/ Elapse(r) \/ AskRetry(r) \/ Retry(r) PROVE Evidence'
  BY <1>1, <1>a DEF Enqueue, Elapse, AskRetry, Retry, Evidence, TypeOK
<1>2. ASSUME NEW w \in Workers, Select(w) \/ Unplug(w) \/ Plug(w) PROVE Evidence'
  BY <1>2 DEF Select, Unplug, Plug, Evidence
<1>3. ASSUME NEW w \in Workers, NEW r \in Reports, SendAccepted(w, r) PROVE Evidence'
  BY <1>3, <1>a DEF SendAccepted, Evidence, TypeOK
<1>4. ASSUME NEW w \in Workers, NEW r \in Reports, SendRefused(w, r) PROVE Evidence'
  BY <1>4, <1>a DEF SendRefused, AfterFailure, Evidence, TypeOK
<1>5. ASSUME NEW w \in Workers, NEW r \in Reports, SendUnanswered(w, r) PROVE Evidence'
  BY <1>5, <1>a DEF SendUnanswered, AfterFailure, Evidence, TypeOK
<1>6. ASSUME NEW w \in Workers, Save(w) PROVE Evidence'
  <2>1. Forget(w) /\ UNCHANGED accepted
    BY <1>6 DEF Save
  <2>2. \A r \in Reports : status'[r] = "sent" => status[r] = "sent" \/ outcome[w][r] = "sent"
    BY <1>6 DEF Save
  <2>3. \A v \in Workers, r \in Reports : outcome'[v][r] = "sent" => outcome[v][r] = "sent"
    BY <2>1, ForgetKeeps
  <2> QED
    BY <2>1, <2>2, <2>3 DEF Evidence
<1>7. ASSUME NEW w \in Workers, Lose(w) PROVE Evidence'
  <2>1. Forget(w) /\ UNCHANGED <<accepted, status>>
    BY <1>7 DEF Lose
  <2>2. \A v \in Workers, r \in Reports : outcome'[v][r] = "sent" => outcome[v][r] = "sent"
    BY <2>1, ForgetKeeps
  <2> QED
    BY <2>1, <2>2 DEF Evidence
<1>8. CASE UNCHANGED vars
  BY <1>8 DEF vars, Evidence
<1> QED
  BY <1>1, <1>2, <1>3, <1>4, <1>5, <1>6, <1>7, <1>8 DEF Next, Loop, Send

-----------------------------------------------------------------------------
\* A loop that may still hand the report over.
MaySend(w, r) == r \in batch[w] /\ outcome[w][r] # "sent"

\* When one loop takes a step, the number of those that may still send a report changes
\* by that loop alone.
LEMMA OneLoop ==
    ASSUME NEW w \in Workers, NEW r \in Reports,
           \A v \in Workers \ {w} : batch'[v] = batch[v] /\ outcome'[v] = outcome[v]
    PROVE  \E k \in Nat :
              /\ Cardinality(Sending(r)) = k + (IF MaySend(w, r) THEN 1 ELSE 0)
              /\ Cardinality(Sending(r)') = k + (IF MaySend(w, r)' THEN 1 ELSE 0)
<1> DEFINE k == Cardinality(Sending(r) \ {w})
<1>1. Sending(r) \in SUBSET Workers /\ Sending(r)' \in SUBSET Workers
  BY DEF Sending
<1>2. Sending(r) \ {w} = Sending(r)' \ {w}
  BY DEF Sending
<1>3. Cardinality(Sending(r)) \in Nat /\ Cardinality(Sending(r)') \in Nat
  BY <1>1, LoopsFinite
<1>4. k \in Nat
  <2>1. Sending(r) \ {w} \in SUBSET Workers
    BY <1>1
  <2> QED
    BY <2>1, LoopsFinite
<1>5. k = IF w \in Sending(r) THEN Cardinality(Sending(r)) - 1 ELSE Cardinality(Sending(r))
  BY <1>1, LoopsFinite, FS_RemoveElement
<1>6. k = IF w \in Sending(r)' THEN Cardinality(Sending(r)') - 1 ELSE Cardinality(Sending(r)')
  BY <1>1, <1>2, LoopsFinite, FS_RemoveElement
<1>7. (w \in Sending(r) <=> MaySend(w, r)) /\ (w \in Sending(r)' <=> MaySend(w, r)')
  BY DEF Sending, MaySend
<1> HIDE DEF k
<1> QED
  BY <1>3, <1>4, <1>5, <1>6, <1>7

\* The budget of a report is kept by every step.
LEMMA BudgetKept == Typed /\ Budget /\ [Next]_vars => Budget'
<1> SUFFICES ASSUME Typed, Budget, [Next]_vars, NEW r \in Reports PROVE Bounded(r)'
  BY DEF Budget
<1> USE DEF rows
<1>a. TypeOK /\ NothingLeft /\ AttemptsLeft /\ Bounded(r)
  BY DEF Typed, Budget
<1>b. accepted[r] \in Nat /\ lapses[r] \in Nat /\ Cardinality(Sending(r)) \in Nat
  <2>1. Sending(r) \in SUBSET Workers
    BY DEF Sending
  <2> QED
    BY <1>a, <2>1, LoopsFinite DEF TypeOK
<1>c. ASSUME UNCHANGED <<batch, outcome>>, accepted'[r] = accepted[r],
             \/ /\ status'[r] = "sent" <=> status[r] = "sent"
                /\ lapses'[r] = lapses[r]
             \/ status[r] = "sent" /\ lapses'[r] = lapses[r] + 1
      PROVE  Bounded(r)'
  <2>1. Sending(r)' = Sending(r) /\ Holders(r)' = Holders(r)
    BY <1>c DEF Sending, Holders
  <2> QED
    BY <1>a, <1>b, <1>c, <2>1 DEF Bounded, Spare
<1>1. ASSUME NEW x \in Reports, Enqueue(x) \/ Elapse(x) \/ AskRetry(x) PROVE Bounded(r)'
  BY <1>1, <1>a, <1>c DEF Enqueue, Elapse, AskRetry, TypeOK
<1>2. ASSUME NEW x \in Reports, Retry(x) PROVE Bounded(r)'
  <2>1. CASE x = r
    BY <1>2, <1>a, <1>c, <2>1 DEF Retry, TypeOK
  <2>2. CASE x # r
    BY <1>2, <1>a, <1>c, <2>2 DEF Retry, TypeOK
  <2> QED
    BY <2>1, <2>2
<1>3. ASSUME NEW w \in Workers, Unplug(w) \/ Plug(w) PROVE Bounded(r)'
  BY <1>3, <1>c DEF Unplug, Plug
<1>4. CASE UNCHANGED vars
  BY <1>4, <1>c DEF vars
<1> USE DEF Bounded, Spare, MaySend, Holders
<1>5. ASSUME NEW w \in Workers, Select(w) PROVE Bounded(r)'
  <2>1. PICK B \in SUBSET Reports :
          /\ OldestDue(B)
          /\ batch' = [batch EXCEPT ![w] = B]
          /\ lapses' = [x \in Reports |->
                         IF x \in B /\ Holders(x) # {} THEN lapses[x] + 1 ELSE lapses[x]]
    BY <1>5 DEF Select
  <2>2. /\ batch[w] = {} /\ batch'[w] = B /\ outcome[w][r] = "none"
        /\ UNCHANGED <<outcome, status, accepted>>
        /\ \A v \in Workers \ {w} : batch'[v] = batch[v] /\ outcome'[v] = outcome[v]
    BY <1>5, <1>a, <2>1 DEF Select, TypeOK, NothingLeft
  <2>3. PICK k \in Nat :
              /\ Cardinality(Sending(r)) = k + (IF MaySend(w, r) THEN 1 ELSE 0)
              /\ Cardinality(Sending(r)') = k + (IF MaySend(w, r)' THEN 1 ELSE 0)
    BY <2>2, OneLoop
  <2>4. CASE r \in B
    <3>1. status[r] # "sent"
      BY <2>1, <2>4 DEF OldestDue, Due
    <3>2. Cardinality(Sending(r)) = k /\ Cardinality(Sending(r)') = k + 1
      BY <2>2, <2>3, <2>4
    <3>3. Spare(r)' = 0
      BY <2>2, <2>4
    <3>4. lapses'[r] = IF Holders(r) # {} THEN lapses[r] + 1 ELSE lapses[r]
      BY <2>1, <2>4
    <3> QED
      BY <1>a, <1>b, <2>2, <3>1, <3>2, <3>3, <3>4
  <2>5. CASE r \notin B
    <3>1. Cardinality(Sending(r)) = k /\ Cardinality(Sending(r)') = k
      BY <2>2, <2>3, <2>5
    <3>2. Holders(r)' = Holders(r)
      BY <2>2, <2>5
    <3>3. lapses'[r] = lapses[r]
      BY <2>1, <2>5
    <3> QED
      BY <1>a, <1>b, <2>2, <3>1, <3>2, <3>3
  <2> QED
    BY <2>4, <2>5
<1>6. ASSUME NEW w \in Workers, NEW x \in Reports, Turn(w, x), UNCHANGED <<batch, status>>,
             NEW o \in {"sent", "retry", "failed"}, outcome' = [outcome EXCEPT ![w][x] = o],
             \/ o = "sent" /\ accepted' = [accepted EXCEPT ![x] = @ + 1] /\ UNCHANGED lapses
             \/ o # "sent" /\ UNCHANGED <<accepted, lapses>>
             \/ /\ o # "sent" /\ accepted' = [accepted EXCEPT ![x] = @ + 1]
                /\ lapses' = [lapses EXCEPT ![x] = @ + 1]
      PROVE  Bounded(r)'
  <2>1. /\ outcome'[w][x] = o
        /\ \A v \in Workers, y \in Reports : v # w \/ y # x => outcome'[v][y] = outcome[v][y]
        /\ \A v \in Workers \ {w} : outcome'[v] = outcome[v]
    BY <1>6, <1>a DEF TypeOK
  <2>0. \A v \in Workers \ {w} : batch'[v] = batch[v] /\ outcome'[v] = outcome[v]
    BY <1>6, <2>1
  <2>2. PICK k \in Nat :
              /\ Cardinality(Sending(r)) = k + (IF MaySend(w, r) THEN 1 ELSE 0)
              /\ Cardinality(Sending(r)') = k + (IF MaySend(w, r)' THEN 1 ELSE 0)
    BY <2>0, OneLoop
  <2>3. Spare(r)' = Spare(r)
    BY <1>6
  <2>4. CASE x = r
    <3>1. MaySend(w, r) /\ (MaySend(w, r)' <=> o # "sent")
      BY <1>6, <2>1, <2>4 DEF Turn
    <3>2. \/ o = "sent" /\ accepted'[r] = accepted[r] + 1 /\ lapses'[r] = lapses[r]
          \/ o # "sent" /\ accepted'[r] = accepted[r] /\ lapses'[r] = lapses[r]
          \/ o # "sent" /\ accepted'[r] = accepted[r] + 1 /\ lapses'[r] = lapses[r] + 1
      BY <1>6, <1>a, <2>4 DEF TypeOK
    <3> HIDE DEF Spare
    <3>3. Spare(r) \in {0, 1}
      BY DEF Spare
    <3> HIDE DEF MaySend
    <3> QED
      BY <1>a, <1>b, <2>2, <2>3, <3>1, <3>2, <3>3
  <2>5. CASE x # r
    <3>1. MaySend(w, r)' <=> MaySend(w, r)
      BY <1>6, <2>1, <2>5
    <3>2. accepted'[r] = accepted[r] /\ lapses'[r] = lapses[r]
      BY <1>6, <1>a, <2>5 DEF TypeOK
    <3> HIDE DEF Spare, MaySend
    <3> QED
      BY <1>a, <1>b, <2>2, <2>3, <3>1, <3>2
  <2> QED
    BY <2>4, <2>5
<1>7. ASSUME NEW w \in Workers, Forget(w), accepted'[r] = accepted[r],
             r \notin batch[w] => status'[r] = status[r] /\ lapses'[r] = lapses[r],
             r \in batch[w] /\ outcome[w][r] # "sent" => lapses'[r] = lapses[r],
             r \in batch[w] /\ outcome[w][r] = "sent" =>
                \/ status'[r] = "sent" /\ lapses'[r] = lapses[r]
                \/ lapses'[r] = lapses[r] + 1
      PROVE  Bounded(r)'
  <2>1. /\ batch'[w] = {}
        /\ \A v \in Workers \ {w} : batch'[v] = batch[v] /\ outcome'[v] = outcome[v]
    BY <1>7, ForgetKeeps
  <2>2. PICK k \in Nat :
              /\ Cardinality(Sending(r)) = k + (IF MaySend(w, r) THEN 1 ELSE 0)
              /\ Cardinality(Sending(r)') = k + (IF MaySend(w, r)' THEN 1 ELSE 0)
    BY <2>1, OneLoop
  <2>3. Cardinality(Sending(r)') = k
    BY <2>1, <2>2
  <2>4. Spare(r)' \in {0, 1} /\ (status'[r] = "sent" => Spare(r)' = 0)
    OBVIOUS
  <2>5. CASE r \in batch[w]
    <3>1. Spare(r) = 0
      BY <2>5
    <3>2. Cardinality(Sending(r)) = k + (IF outcome[w][r] # "sent" THEN 1 ELSE 0)
      BY <2>2, <2>5
    <3> HIDE DEF Spare
    <3> QED
      BY <1>7, <1>a, <1>b, <2>3, <2>4, <2>5, <3>1, <3>2
  <2>6. CASE r \notin batch[w]
    <3>1. Holders(r)' = Holders(r)
      BY <2>1, <2>6
    <3>2. Spare(r)' = Spare(r) /\ Cardinality(Sending(r)) = k
      BY <1>7, <2>2, <2>6, <3>1
    <3> HIDE DEF Spare
    <3> QED
      BY <1>7, <1>a, <1>b, <2>3, <2>6, <3>2
  <2> QED
    BY <2>5, <2>6
<1>8. ASSUME NEW w \in Workers, NEW x \in Reports,
             SendAccepted(w, x) \/ SendRefused(w, x) \/ SendUnanswered(w, x)
      PROVE  Bounded(r)'
  <2>1. CASE SendAccepted(w, x)
    BY <1>6, <2>1 DEF SendAccepted
  <2>2. AfterFailure(w, x) \in {"retry", "failed"}
    BY DEF AfterFailure
  <2>3. CASE SendRefused(w, x) \/ SendUnanswered(w, x)
    <3>1. PICK o \in {"retry", "failed"} : outcome' = [outcome EXCEPT ![w][x] = o]
      BY <2>2, <2>3 DEF SendRefused, SendUnanswered
    <3>2. /\ Turn(w, x) /\ UNCHANGED <<batch, status>>
          /\ \/ UNCHANGED <<accepted, lapses>>
             \/ /\ accepted' = [accepted EXCEPT ![x] = @ + 1]
                /\ lapses' = [lapses EXCEPT ![x] = @ + 1]
      BY <2>3 DEF SendRefused, SendUnanswered
    <3>3. o \in {"sent", "retry", "failed"} /\ o # "sent"
      OBVIOUS
    <3> QED
      BY <1>6, <3>1, <3>2, <3>3
  <2> QED
    BY <1>8, <2>1, <2>3
<1>9. ASSUME NEW w \in Workers, Save(w) PROVE Bounded(r)'
  <2>1. r \in batch[w] => seen[w][r].status # "sent"
    BY <1>a DEF AttemptsLeft, Open
  <2>2. /\ Forget(w) /\ UNCHANGED <<accepted, lapses>>
        /\ status'[r] = IF r \in batch[w] /\ outcome[w][r] # seen[w][r].status
                        THEN outcome[w][r] ELSE status[r]
    BY <1>9 DEF Save
  <2> QED
    BY <1>7, <2>1, <2>2
<1>10. ASSUME NEW w \in Workers, Lose(w) PROVE Bounded(r)'
  <2>1. /\ Forget(w) /\ UNCHANGED <<accepted, status>>
        /\ lapses'[r] = IF r \in batch[w] /\ outcome[w][r] = "sent" THEN lapses[r] + 1 ELSE lapses[r]
    BY <1>10 DEF Lose
  <2> QED
    BY <1>7, <2>1
<1> QED
  BY <1>1, <1>2, <1>3, <1>4, <1>5, <1>8, <1>9, <1>10 DEF Next, Loop, Send

-----------------------------------------------------------------------------
\* The invariant holds in every reachable state.
THEOREM Invariant == Spec => []IInv
<1>1. IInv /\ [Next]_vars => IInv'
  BY TypedKept, EvidenceKept, BudgetKept DEF IInv
<1> QED
  BY <1>1, InitHolds, PTL DEF Spec

\* The rows, and what the loops remember of them, keep their types; a row is never read
\* with no attempts left.
THEOREM TypeCorrect == Spec => []TypeOK
<1>1. IInv => TypeOK
  BY DEF IInv, Typed
<1> QED
  BY <1>1, Invariant, PTL

\* A report marked as sent has reached the ERP.
THEOREM SentIsAccepted == Spec => []SentMeansAccepted
<1>1. IInv => SentMeansAccepted
  BY DEF IInv, Evidence, SentMeansAccepted
<1> QED
  BY <1>1, Invariant, PTL

\* The ERP gets a report again only for one of the four reasons, once for each.
THEOREM CopiesExplained == Spec => []DuplicatesExplained
<1>1. IInv => DuplicatesExplained
  <2> SUFFICES ASSUME IInv, NEW r \in Reports PROVE accepted[r] <= 1 + lapses[r]
    BY DEF DuplicatesExplained
  <2>1. Sending(r) \in SUBSET Workers
    BY DEF Sending
  <2>2. Cardinality(Sending(r)) \in Nat /\ accepted[r] \in Nat /\ lapses[r] \in Nat
    BY <2>1, LoopsFinite DEF IInv, Typed, TypeOK
  <2> QED
    BY <2>2 DEF IInv, Budget, Bounded, Spare
<1> QED
  BY <1>1, Invariant, PTL

-----------------------------------------------------------------------------
(***************************************************************************)
(* The queue of reports implements ReportDelivery.                         *)
(***************************************************************************)

\* A report that is in the batch of a loop is still open, or has an excuse; it has one if it
\* is in the batch of another loop, too.
Undisturbed ==
    \A w \in Workers : \A r \in batch[w] :
        /\ status[r] \in Open \/ (status[r] \in {"sent", "failed"} /\ lapses[r] > 0)
        /\ \A v \in Workers \ {w} : r \in batch[v] => lapses[r] > 0

\* Nothing but the end of a pass touches the rows under a loop, unless it leaves an excuse.
LEMMA UndisturbedKept == Typed /\ Undisturbed /\ [Next]_vars => Undisturbed'
<1> SUFFICES ASSUME Typed, Undisturbed, [Next]_vars PROVE Undisturbed'
  OBVIOUS
<1> USE DEF rows
<1>a. TypeOK /\ AttemptsLeft
  BY DEF Typed
<1>b. /\ \A w \in Workers : batch[w] \subseteq Reports
      /\ \A r \in Reports : lapses[r] \in Nat
  BY <1>a DEF TypeOK
<1>1. ASSUME NEW x \in Reports, Enqueue(x) \/ Elapse(x) \/ AskRetry(x) PROVE Undisturbed'
  BY <1>1, <1>a, <1>b DEF Enqueue, Elapse, AskRetry, Undisturbed, TypeOK, Open
<1>2. ASSUME NEW x \in Reports, Retry(x) PROVE Undisturbed'
  <2>1. batch' = batch /\ status'[x] = "pending" /\ \A r \in Reports \ {x} : status'[r] = status[r]
    BY <1>2, <1>a DEF Retry, TypeOK
  <2>2. \A r \in Reports : lapses'[r] \in Nat /\ lapses'[r] >= lapses[r]
    BY <1>2, <1>a, <1>b DEF Retry, TypeOK
  <2>3. \A r \in Reports : lapses[r] > 0 => lapses'[r] > 0
    BY <1>b, <2>2
  <2> QED BY <1>b, <2>1, <2>3 DEF Undisturbed, Open
<1>3. ASSUME NEW w \in Workers, Unplug(w) \/ Plug(w) PROVE Undisturbed'
  BY <1>3 DEF Unplug, Plug, Undisturbed
<1>4. ASSUME NEW w \in Workers, Select(w) PROVE Undisturbed'
  <2>1. PICK B \in SUBSET Reports :
          /\ OldestDue(B)
          /\ batch' = [batch EXCEPT ![w] = B]
          /\ lapses' = [x \in Reports |->
                         IF x \in B /\ Holders(x) # {} THEN lapses[x] + 1 ELSE lapses[x]]
    BY <1>4 DEF Select
  <2>2. /\ batch'[w] = B /\ \A v \in Workers \ {w} : batch'[v] = batch[v]
        /\ batch[w] = {} /\ status' = status
    BY <1>4, <1>a, <2>1 DEF Select, TypeOK
  <2>3. \A r \in B : status[r] \in Open
    BY <2>1 DEF OldestDue, Due, Open
  <2>4. \A r \in Reports : lapses[r] > 0 => lapses'[r] > 0
    BY <1>b, <2>1
  <2>5. \A r \in B : \A v \in Workers : r \in batch[v] => lapses'[r] > 0
    <3>1. ASSUME NEW r \in B, NEW v \in Workers, r \in batch[v] PROVE lapses'[r] > 0
      <4>1. Holders(r) # {} /\ r \in Reports
        BY <3>1 DEF Holders
      <4>2. lapses'[r] = lapses[r] + 1
        BY <2>1, <4>1
      <4> QED BY <1>b, <4>1, <4>2
    <3> QED BY <3>1
  <2> SUFFICES ASSUME NEW v \in Workers, NEW r \in batch'[v]
               PROVE  /\ status'[r] \in Open \/ (status'[r] \in {"sent", "failed"} /\ lapses'[r] > 0)
                      /\ \A u \in Workers \ {v} : r \in batch'[u] => lapses'[r] > 0
    BY DEF Undisturbed
  <2>6. CASE v = w
    BY <2>2, <2>3, <2>5, <2>6
  <2>7. CASE v # w
    <3>1. r \in batch[v] /\ r \in Reports
      BY <1>b, <2>2, <2>7
    <3>2. status[r] \in Open \/ (status[r] \in {"sent", "failed"} /\ lapses[r] > 0)
      BY <3>1 DEF Undisturbed
    <3>3. ASSUME NEW u \in Workers \ {v}, r \in batch'[u] PROVE lapses'[r] > 0
      <4>1. CASE u = w
        BY <2>2, <2>5, <3>1, <3>3, <4>1
      <4>2. CASE u # w
        <5>1. r \in batch[u]
          BY <2>2, <3>3, <4>2
        <5> QED BY <2>4, <3>1, <5>1 DEF Undisturbed
      <4> QED BY <4>1, <4>2
    <3> QED BY <2>2, <2>4, <3>1, <3>2, <3>3
  <2> QED BY <2>6, <2>7
<1>5. ASSUME NEW w \in Workers, NEW x \in Reports,
             SendAccepted(w, x) \/ SendRefused(w, x) \/ SendUnanswered(w, x)
      PROVE  Undisturbed'
  <2>1. batch' = batch /\ status' = status /\ \A r \in Reports : lapses[r] > 0 => lapses'[r] > 0
    <3>1. batch' = batch /\ status' = status
      BY <1>5 DEF SendAccepted, SendRefused, SendUnanswered
    <3>2. lapses' = lapses \/ lapses' = [lapses EXCEPT ![x] = @ + 1]
      BY <1>5 DEF SendAccepted, SendRefused, SendUnanswered
    <3>3. lapses \in [Reports -> Nat]
      BY <1>a DEF TypeOK
    <3>4. \A r \in Reports : lapses'[r] \in {lapses[r], lapses[r] + 1}
      BY <3>2, <3>3
    <3>5. \A r \in Reports : lapses[r] > 0 => lapses'[r] > 0
      BY <3>3, <3>4
    <3> QED BY <3>1, <3>5
  <2> QED BY <1>b, <2>1 DEF Undisturbed
<1>6. ASSUME NEW w \in Workers, Forget(w), \A r \in Reports : lapses[r] > 0 => lapses'[r] > 0,
             \A r \in Reports : r \notin batch[w] => status'[r] = status[r],
             \A r \in batch[w] : status'[r] \in Statuses
      PROVE  Undisturbed'
  <2>1. batch'[w] = {} /\ \A v \in Workers \ {w} : batch'[v] = batch[v]
    BY <1>6, ForgetKeeps
  <2> SUFFICES ASSUME NEW v \in Workers, NEW r \in batch'[v]
               PROVE  /\ status'[r] \in Open \/ (status'[r] \in {"sent", "failed"} /\ lapses'[r] > 0)
                      /\ \A u \in Workers \ {v} : r \in batch'[u] => lapses'[r] > 0
    BY DEF Undisturbed
  <2>2. v # w /\ r \in batch[v] /\ r \in Reports
    BY <1>b, <2>1
  <2>3. status'[r] \in Open \/ (status'[r] \in {"sent", "failed"} /\ lapses'[r] > 0)
    <3>1. CASE r \in batch[w]
      <4>1. lapses[r] > 0
        BY <2>2, <3>1 DEF Undisturbed
      <4> QED BY <1>6, <2>2, <3>1, <4>1 DEF Statuses
    <3>2. CASE r \notin batch[w]
      BY <1>6, <2>2, <3>2 DEF Undisturbed
    <3> QED BY <3>1, <3>2
  <2>4. ASSUME NEW u \in Workers \ {v}, r \in batch'[u] PROVE lapses'[r] > 0
    <3>1. r \in batch[u]
      BY <2>1, <2>4
    <3> QED BY <1>6, <2>2, <3>1 DEF Undisturbed
  <2> QED BY <2>3, <2>4
<1>7. ASSUME NEW w \in Workers, Save(w) PROVE Undisturbed'
  <2>1. Forget(w) /\ lapses' = lapses
    BY <1>7 DEF Save
  <2>2. \A r \in Reports : r \notin batch[w] => status'[r] = status[r]
    BY <1>7 DEF Save
  <2>3. \A r \in batch[w] : r \in Reports /\ outcome[w][r] \in {"sent", "retry", "failed"} /\ status[r] \in Statuses
    BY <1>7, <1>a, <1>b DEF Save, TypeOK, Undisturbed, Statuses
  <2>4. \A r \in batch[w] : status'[r] \in Statuses
    BY <1>7, <2>3 DEF Save, Statuses, Open
  <2> QED BY <1>6, <2>1, <2>2, <2>4
<1>8. ASSUME NEW w \in Workers, Lose(w) PROVE Undisturbed'
  <2>1. Forget(w) /\ status' = status
    BY <1>8 DEF Lose
  <2>2. \A r \in Reports : lapses[r] > 0 => lapses'[r] > 0
    BY <1>8, <1>b DEF Lose
  <2>3. \A r \in batch[w] : status'[r] \in Statuses
    BY <2>1 DEF Undisturbed, Statuses
  <2> QED BY <1>6, <2>1, <2>2, <2>3
<1>9. CASE UNCHANGED vars
  BY <1>9 DEF vars, Undisturbed
<1> QED
  BY <1>1, <1>2, <1>3, <1>4, <1>5, <1>7, <1>8, <1>9 DEF Next, Loop, Send

\* A report in the batch of a loop that may still send it may arrive once more.
LEMMA RoomForOne ==
    ASSUME IInv, NEW w \in Workers, NEW r \in Reports, r \in batch[w], outcome[w][r] # "sent"
    PROVE  accepted[r] \in Nat /\ lapses[r] \in Nat /\ accepted[r] <= lapses[r]
<1>1. Sending(r) \in SUBSET Workers /\ w \in Sending(r)
  BY DEF Sending
<1>2. Cardinality(Sending(r)) \in Nat /\ Cardinality(Sending(r)) # 0
  BY <1>1, LoopsFinite, FS_EmptySet
<1>3. accepted[r] \in Nat /\ lapses[r] \in Nat
  BY DEF IInv, Typed, TypeOK
<1>4. Spare(r) \in {0, 1} /\ Bounded(r)
  BY DEF IInv, Budget, Spare
<1> QED BY <1>2, <1>3, <1>4 DEF Bounded

\* What a step does to one report is a step of its delivery.
LEMMA ReportStep ==
    ASSUME IInv, Undisturbed, [Next]_vars, NEW r \in Reports
    PROVE  Delivery!Step(r)
<1> USE DEF rows
<1>a. TypeOK /\ AttemptsLeft
  BY DEF IInv, Typed
<1>b. /\ status[r] \in Statuses \cup {"absent"} /\ accepted[r] \in Nat /\ lapses[r] \in Nat
      /\ status[r] = "sent" => accepted[r] > 0
      /\ \A w \in Workers : outcome[w][r] = "sent" => accepted[r] > 0
  BY <1>a DEF TypeOK, IInv, Evidence
<1>c. /\ Stage[r] = IF status[r] \in Open THEN "waiting" ELSE status[r]
      /\ Stage'[r] = IF status'[r] \in Open THEN "waiting" ELSE status'[r]
  BY DEF Stage
<1>d. \A w \in Workers : r \in batch[w] =>
          status[r] \in Open \/ (status[r] \in {"sent", "failed"} /\ lapses[r] > 0)
  BY DEF Undisturbed
<1>0. ASSUME status'[r] = status[r] \/ (status[r] \in Open /\ status'[r] \in Open),
             accepted'[r] = accepted[r], lapses'[r] = lapses[r]
      PROVE  Delivery!Step(r)
  BY <1>0, <1>c DEF Delivery!Step, Delivery!Rest
<1>1. ASSUME NEW x \in Reports, Enqueue(x) \/ Elapse(x) \/ AskRetry(x) PROVE Delivery!Step(r)
  <2>1. CASE Enqueue(x) /\ x = r
    <3>1. /\ status[r] = "absent" /\ status'[r] = "pending"
          /\ accepted'[r] = accepted[r] /\ lapses'[r] = lapses[r]
      BY <1>a, <2>1 DEF Enqueue, TypeOK
    <3> QED BY <1>c, <3>1 DEF Delivery!Step, Delivery!Enter, Open
  <2>2. CASE ~(Enqueue(x) /\ x = r)
    BY <1>0, <1>1, <1>a, <2>2 DEF Enqueue, Elapse, AskRetry, TypeOK
  <2> QED BY <2>1, <2>2
<1>2. ASSUME NEW x \in Reports, Retry(x) PROVE Delivery!Step(r)
  <2>1. CASE x # r
    BY <1>0, <1>2, <1>a, <2>1 DEF Retry, TypeOK
  <2>2. CASE x = r
    <3>1. /\ status'[r] = "pending" /\ accepted'[r] = accepted[r]
          /\ lapses'[r] = IF status[r] = "sent" THEN lapses[r] + 1 ELSE lapses[r]
      BY <1>2, <1>a, <2>2 DEF Retry, TypeOK
    <3>2. Stage'[r] = "waiting"
      BY <1>c, <3>1 DEF Open
    <3>3. CASE status[r] = "sent"
      <4>1. Stage[r] = "sent"
        BY <1>c, <3>3 DEF Open
      <4>2. Delivery!Overwrite(r)
        BY <1>b, <3>1, <3>2, <3>3, <4>1
        DEF Delivery!Overwrite, Delivery!Settled, Delivery!Stages, Delivery!Excused
      <4> QED BY <4>2 DEF Delivery!Step
    <3>4. CASE status[r] = "failed"
      BY <1>c, <3>1, <3>2, <3>4 DEF Delivery!Step, Delivery!AskAgain, Open
    <3>5. CASE status[r] = "absent"
      BY <1>c, <3>1, <3>2, <3>5 DEF Delivery!Step, Delivery!Enter, Open
    <3>6. CASE status[r] \in Open
      BY <1>0, <3>1, <3>6 DEF Open
    <3> QED BY <1>b, <3>3, <3>4, <3>5, <3>6 DEF Statuses
  <2> QED BY <2>1, <2>2
<1>3. ASSUME NEW w \in Workers, Unplug(w) \/ Plug(w) PROVE Delivery!Step(r)
  BY <1>0, <1>3 DEF Unplug, Plug
<1>4. ASSUME UNCHANGED <<status, accepted>>, lapses'[r] = lapses[r] + 1, status[r] # "absent"
      PROVE  Delivery!Step(r)
  <2>1. Stage[r] # "absent" /\ Stage'[r] = Stage[r]
    BY <1>4, <1>c
  <2> QED BY <1>4, <2>1 DEF Delivery!Step, Delivery!GoWrong
<1>5. ASSUME NEW w \in Workers, Select(w) PROVE Delivery!Step(r)
  <2>1. PICK B \in SUBSET Reports :
          /\ OldestDue(B)
          /\ lapses' = [x \in Reports |->
                         IF x \in B /\ Holders(x) # {} THEN lapses[x] + 1 ELSE lapses[x]]
    BY <1>5 DEF Select
  <2>2. UNCHANGED <<status, accepted>>
    BY <1>5 DEF Select
  <2>3. CASE r \in B /\ Holders(r) # {}
    <3>1. status[r] # "absent"
      BY <2>1, <2>3 DEF OldestDue, Due
    <3>2. lapses'[r] = lapses[r] + 1
      BY <2>1, <2>3
    <3> QED BY <1>4, <2>2, <3>1, <3>2
  <2>4. CASE ~(r \in B /\ Holders(r) # {})
    <3>1. lapses'[r] = lapses[r]
      BY <2>1, <2>4
    <3> QED BY <1>0, <2>2, <3>1
  <2> QED BY <2>3, <2>4
<1>6. ASSUME NEW w \in Workers, NEW x \in Reports,
             SendAccepted(w, x) \/ SendRefused(w, x) \/ SendUnanswered(w, x)
      PROVE  Delivery!Step(r)
  <2>1. status' = status /\ Turn(w, x)
    BY <1>6 DEF SendAccepted, SendRefused, SendUnanswered
  <2>2. CASE x # r \/ SendRefused(w, x)
    <3>1. accepted'[r] = accepted[r] /\ lapses'[r] = lapses[r]
      BY <1>6, <1>a, <2>2 DEF SendAccepted, SendRefused, SendUnanswered, TypeOK
    <3> QED BY <1>0, <2>1, <3>1
  <2>3. CASE x = r /\ ~SendRefused(w, x)
    <3>1. accepted'[r] = accepted[r] + 1 /\ lapses'[r] \in {lapses[r], lapses[r] + 1}
      BY <1>6, <1>a, <2>3 DEF SendAccepted, SendUnanswered, TypeOK
    <3>2. r \in batch[w] /\ accepted[r] <= lapses[r]
      BY <2>1, <2>3, RoomForOne DEF Turn
    <3>3. Stage[r] = "waiting" \/ (Stage[r] \in {"sent", "failed"} /\ lapses[r] > 0)
      BY <1>c, <1>d, <3>2 DEF Open
    <3>4. lapses[r] > 0 => lapses'[r] > 0
      BY <1>b, <3>1
    <3>5. Stage'[r] = Stage[r]
      BY <1>c, <2>1
    <3>6. Delivery!Arrive(r)
      BY <3>1, <3>2, <3>3, <3>4, <3>5 DEF Delivery!Arrive, Delivery!Settled, Delivery!Excused
    <3> QED BY <3>6 DEF Delivery!Step
  <2> QED BY <2>2, <2>3
<1>7. ASSUME NEW w \in Workers, Save(w) PROVE Delivery!Step(r)
  <2>1. /\ accepted'[r] = accepted[r] /\ lapses'[r] = lapses[r]
        /\ status'[r] = IF r \in batch[w] /\ outcome[w][r] # seen[w][r].status
                        THEN outcome[w][r] ELSE status[r]
    BY <1>7 DEF Save
  <2>2. CASE status'[r] = status[r]
    BY <1>0, <2>1, <2>2
  <2>3. CASE status'[r] # status[r]
    <3>1. r \in batch[w] /\ status'[r] = outcome[w][r]
      BY <2>1, <2>3
    <3>2. outcome[w][r] \in {"sent", "retry", "failed"}
      BY <1>7, <1>a, <3>1 DEF Save, TypeOK
    <3>3. status[r] \in Open \/ (status[r] \in {"sent", "failed"} /\ lapses[r] > 0)
      BY <1>d, <3>1
    <3>4. status'[r] = "sent" => accepted[r] > 0
      BY <1>b, <3>1
    <3>5. Stage'[r] \in {"waiting", "sent", "failed"} /\ (Stage'[r] = "sent" => accepted[r] > 0)
      BY <1>c, <3>1, <3>2, <3>4 DEF Open
    <3>6. CASE status[r] \in Open
      <4>1. Stage[r] = "waiting"
        BY <1>c, <3>6
      <4>2. CASE Stage'[r] = "waiting"
        BY <2>1, <4>1, <4>2 DEF Delivery!Step, Delivery!Rest
      <4>3. CASE Stage'[r] # "waiting"
        BY <2>1, <3>5, <4>1, <4>3
        DEF Delivery!Step, Delivery!Settle, Delivery!Settled, Delivery!Arrived
      <4> QED BY <4>2, <4>3
    <3>7. CASE status[r] \in {"sent", "failed"} /\ lapses[r] > 0
      <4>1. Stage[r] \in {"sent", "failed"}
        BY <1>c, <3>7 DEF Open
      <4>2. Delivery!Overwrite(r)
        BY <2>1, <3>5, <3>7, <4>1
        DEF Delivery!Overwrite, Delivery!Settled, Delivery!Stages, Delivery!Excused, Delivery!Arrived
      <4> QED BY <4>2 DEF Delivery!Step
    <3> QED BY <3>3, <3>6, <3>7
  <2> QED BY <2>2, <2>3
<1>8. ASSUME NEW w \in Workers, Lose(w) PROVE Delivery!Step(r)
  <2>1. /\ UNCHANGED <<status, accepted>>
        /\ lapses'[r] = IF r \in batch[w] /\ outcome[w][r] = "sent" THEN lapses[r] + 1 ELSE lapses[r]
    BY <1>8 DEF Lose
  <2>2. CASE r \in batch[w] /\ outcome[w][r] = "sent"
    <3>1. status[r] # "absent"
      BY <1>d, <2>2 DEF Open
    <3> QED BY <1>4, <2>1, <2>2, <3>1
  <2>3. CASE ~(r \in batch[w] /\ outcome[w][r] = "sent")
    BY <1>0, <2>1, <2>3
  <2> QED BY <2>2, <2>3
<1>9. CASE UNCHANGED vars
  BY <1>0, <1>9 DEF vars
<1> QED
  BY <1>1, <1>2, <1>3, <1>5, <1>6, <1>7, <1>8, <1>9 DEF Next, Loop, Send

\* The queue of reports delivers as ReportDelivery says: exactly once, but for what its
\* excuses allow.
THEOREM DeliveryRefined == Spec => RefinesDelivery
<1>1. Init => Delivery!Init /\ Undisturbed
  BY DEF Init, Delivery!Init, Stage, Open, Undisturbed
<1>2. ASSUME IInv, TypeOK', Undisturbed, [Next]_vars PROVE Delivery!Next
  <2>1. \A r \in Reports : Delivery!Step(r)
    BY <1>2, ReportStep
  <2>2. Stage' \in [Reports -> Delivery!Stages]
    BY <1>2 DEF TypeOK, Stage, Statuses, Open, Delivery!Stages, Delivery!Settled
  <2>3. accepted' \in [Reports -> Nat] /\ lapses' \in [Reports -> Nat]
    BY <1>2 DEF TypeOK
  <2> QED BY <2>1, <2>2, <2>3 DEF Delivery!Next
<1>3. Typed /\ Undisturbed /\ [Next]_vars => Undisturbed'
  BY UndisturbedKept
<1>4. IInv => Typed
  BY DEF IInv
<1>5. Spec => []Undisturbed
  BY <1>1, <1>3, <1>4, Invariant, PTL DEF Spec
<1>6. IInv /\ TypeOK' /\ Undisturbed /\ [Next]_vars => [Delivery!Next]_(Delivery!delivery)
  BY <1>2
<1> QED
  BY <1>1, <1>5, <1>6, Invariant, TypeCorrect, PTL DEF Spec, RefinesDelivery, Delivery!Spec

-----------------------------------------------------------------------------
(***************************************************************************)
(* From an order of the ERP to its pieces.                                 *)
(***************************************************************************)

\* An inbound loop works on copies that were inserted, with the attempts they
\* allow, and calls one processed when it sees the order.
LoopSound(i) ==
    \A c \in Copies :
        /\ c \in todo[i] \/ result[i][c] # "none" => copyOf[c] \in References
        /\ read[i][c] < InboundAttempts
        /\ result[i][c] = "retry" => read[i][c] + 1 < InboundAttempts
        /\ result[i][c] # "pending"
        /\ result[i][c] = "processed" => InSession(i, copyOf[c])

CopySound(c) ==
    /\ copyStatus[c] \in OpenCopy => tried[c] < InboundAttempts
    /\ copyStatus[c] = "processed" => copyOf[c] \in References /\ order[copyOf[c]] # "none"

QueueInv ==
    /\ \A i \in InboundLoops : LoopSound(i)
    /\ \A c \in Copies : CopySound(c)
    /\ \A i \in looked : todo[i] # {}

\* Of a reference nobody raced for there is one open copy at most, and a sync
\* about to insert one is alone and finds none.
CopiesInv ==
    \A r \in References \ raced :
        /\ \A c, d \in OpenCopies(r) : c = d
        /\ \A y, z \in Syncs : sync[y] = r /\ sync[z] = r => y = z
        /\ \A y \in Syncs : sync[y] = r => OpenCopies(r) = {}

\* The first numbers, without a gap.
Segment(S) == \E k \in Nat : S = 1..k

Held(s, r) == newOrder[s][r] # "none" \/ newPieces[s][r] # {}

\* What an inbound loop has written of an order.
LoopWrote(i, r) ==
    /\ Held(i, r) => order[r] = "none"
    /\ newOrder[i][r] # "started" => newPieces[i][r] = {}
    /\ newOrder[i][r] = "started" => \E n \in 1..Pieces : newPieces[i][r] = 1..n /\ (n = Pieces \/ r \in half)

\* What a generator has counted: the numbers there are, and of an order it was
\* the first to take up, those it has inserted itself.
Counted(g, r) ==
    LET all == pieces[r] \cup newPieces[g][r] IN
    serial[g][r] # 0 =>
        /\ serial[g][r] <= Cardinality(all) + 1
        /\ newPieces[g][r] # {} => serial[g][r] = Cardinality(all) + 1
        /\ newPieces[g][r] = {} /\ r \notin late => serial[g][r] = 1

\* What a generator has in hand and has written of an order.
GeneratorWrote(g, r) ==
    /\ r \in todo[g] \/ Held(g, r) => order[r] # "none"
    /\ newOrder[g][r] # "released"
    /\ newOrder[g][r] = "started" =>
          /\ newPieces[g][r] # {} /\ r \notin deleted
          /\ r \in todo[g] \/ Cardinality(newPieces[g][r]) = Pieces
    /\ Cardinality(newPieces[g][r]) <= Pieces
    /\ r \in todo[g] => Cardinality(newPieces[g][r]) < Pieces
    /\ Counted(g, r)

\* Whoever has pieces of an order in hand has the next numbers, and unless the
\* order was taken up late, the first ones.
Numbered(s, r) ==
    /\ Segment(pieces[r] \cup newPieces[s][r])
    /\ newPieces[s][r] # {} /\ r \notin late => pieces[r] = {}

\* The committed pieces of an order.
Floor(r) ==
    /\ Segment(pieces[r])
    /\ order[r] = "none" => pieces[r] = {}
    /\ order[r] = "started" => Cardinality(pieces[r]) >= Pieces \/ r \in half
    /\ r \notin late => Cardinality(pieces[r]) <= Pieces

PieceInv(r) ==
    /\ Floor(r)
    /\ \A s, t \in Sessions : Held(s, r) /\ Held(t, r) => s = t
    /\ \A s \in Sessions : Numbered(s, r)
    /\ \A i \in InboundLoops : LoopWrote(i, r)
    /\ \A g \in Generators : GeneratorWrote(g, r)

PiecesInv == \A r \in References : PieceInv(r)

InboundInv == InboundTypeOK /\ QueueInv /\ CopiesInv /\ PiecesInv

-----------------------------------------------------------------------------
\* The first numbers are finite sets, as many as the last one says.
LEMMA Segments ==
    ASSUME NEW S, Segment(S)
    PROVE  /\ IsFiniteSet(S) /\ Cardinality(S) \in Nat /\ S = 1..Cardinality(S)
           /\ Cardinality(S) + 1 \notin S
           /\ Segment(S \cup {Cardinality(S) + 1})
           /\ \A T \in SUBSET S : IsFiniteSet(T) /\ Cardinality(T) \in Nat /\ Cardinality(T) <= Cardinality(S)
<1>1. PICK k \in Nat : S = 1..k
  BY DEF Segment
<1>2. IsFiniteSet(1..k) /\ Cardinality(1..k) = k
  <2>1. 1 \in Int /\ k \in Int
    OBVIOUS
  <2>2. /\ IsFiniteSet(1..k)
        /\ Cardinality(1..k) = IF 1 > k THEN 0 ELSE k-1+1
    BY <2>1, FS_Interval
  <2> QED BY <2>2
<1>3. IsFiniteSet(S) /\ Cardinality(S) = k
  BY <1>1, <1>2
<1>4. k + 1 \notin S /\ S \cup {k + 1} = 1..(k + 1)
  BY <1>1
<1>5. Segment(S \cup {k + 1})
  BY <1>4 DEF Segment
<1>6. \A T \in SUBSET S : IsFiniteSet(T) /\ Cardinality(T) \in Nat /\ Cardinality(T) <= Cardinality(S)
  BY <1>3, FS_Subset, FS_CardinalityType
<1> QED BY <1>1, <1>3, <1>4, <1>5, <1>6

LEMMA NoneIsSegment == Segment({})
<1>1. {} = 1..0
  OBVIOUS
<1> QED BY <1>1 DEF Segment

\* The copy a loop works on is one of those it has read.
LEMMA FirstOfBatch ==
    ASSUME InboundTypeOK, NEW i \in InboundLoops, todo[i] # {}
    PROVE  Min(todo[i]) \in todo[i] /\ Min(todo[i]) \in Copies
<1>1. todo[i] \in SUBSET Copies
  BY DEF InboundTypeOK
<1>2. todo[i] \in SUBSET Nat
  BY <1>1 DEF Copies
<1>3. \E m \in todo[i] : \A k \in todo[i] : m <= k
  BY <1>2, LeastOfSet
<1>4. Min(todo[i]) \in todo[i]
  BY <1>3 DEF Min
<1> QED BY <1>1, <1>4

-----------------------------------------------------------------------------
\* What a step may do to an order it does not work on: a session keeps what it
\* has written of it, or gives all of it up.
Kept(s, r) == newOrder'[s][r] = newOrder[s][r] /\ newPieces'[s][r] = newPieces[s][r]
Dropped(s, r) == newOrder'[s][r] = "none" /\ newPieces'[s][r] = {}

StillInHand(g, r) ==
    /\ Kept(g, r)
    /\ serial'[g][r] = 0 \/ serial'[g][r] = serial[g][r]
    /\ r \in todo'[g] => r \in todo[g] \/ (order[r] # "none" /\ newPieces[g][r] = {})
    /\ r \in todo[g] => r \in todo'[g] \/ newOrder[g][r] # "started"
GivenUp(g, r) == Dropped(g, r) /\ serial'[g][r] = 0 /\ r \notin todo'[g]

GhostsGrow(r) ==
    /\ r \in half => r \in half'
    /\ r \in late => r \in late'

Untouched(r) ==
    /\ order'[r] = order[r] /\ pieces'[r] = pieces[r]
    /\ GhostsGrow(r)
    /\ r \in deleted' => r \in deleted \/ \A s \in Sessions : newOrder[s][r] = "none"
    /\ \A i \in InboundLoops : Kept(i, r) \/ Dropped(i, r)
    /\ \A g \in Generators : StillInHand(g, r) \/ GivenUp(g, r)

LEMMA UntouchedKept == ASSUME NEW r \in References, PieceInv(r), Untouched(r) PROVE PieceInv(r)'
<1> USE DEF Kept, Dropped
<1>1. /\ order'[r] = order[r] /\ pieces'[r] = pieces[r]
      /\ r \notin late' => r \notin late
      /\ r \in half => r \in half'
  BY DEF Untouched, GhostsGrow
<1>2. \A s \in Sessions : Kept(s, r) \/ Dropped(s, r)
  BY DEF Untouched, StillInHand, GivenUp, Sessions
<1>3. \A s \in Sessions : Held(s, r)' => Held(s, r)
  BY <1>2 DEF Held
<1>4. Floor(r)'
  BY <1>1 DEF PieceInv, Floor
<1>5. \A s, t \in Sessions : Held(s, r)' /\ Held(t, r)' => s = t
  BY <1>3 DEF PieceInv
<1>6. ASSUME NEW s \in Sessions PROVE Numbered(s, r)'
  <2>1. Numbered(s, r) /\ Segment(pieces[r]) /\ pieces[r] \cup {} = pieces[r]
    BY DEF PieceInv, Floor
  <2> QED BY <1>1, <1>2, <2>1 DEF Numbered
<1>7. ASSUME NEW i \in InboundLoops PROVE LoopWrote(i, r)'
  <2>1. LoopWrote(i, r) /\ (Kept(i, r) \/ Dropped(i, r))
    BY DEF PieceInv, Untouched
  <2> QED BY <1>1, <2>1 DEF LoopWrote, Held
<1>8. ASSUME NEW g \in Generators PROVE GeneratorWrote(g, r)'
  <2>1. GeneratorWrote(g, r)
    BY DEF PieceInv
  <2>2. CASE StillInHand(g, r)
    <3>1. Counted(g, r)'
      BY <1>1, <2>1, <2>2 DEF StillInHand, GeneratorWrote, Counted
    <3>2. newOrder'[g][r] = "started" => r \notin deleted'
      BY <2>1, <2>2 DEF StillInHand, GeneratorWrote, Untouched, Sessions
    <3>3. r \in todo'[g] => Cardinality(newPieces'[g][r]) < Pieces
      <4>1. Cardinality({}) = 0 /\ 0 < Pieces
        BY FS_EmptySet, ErpInboundAssumption
      <4> QED BY <2>1, <2>2, <4>1 DEF StillInHand, GeneratorWrote
    <3>4. r \in todo'[g] \/ Held(g, r)' => order'[r] # "none"
      BY <1>1, <2>1, <2>2 DEF StillInHand, GeneratorWrote, Held
    <3> QED BY <1>1, <2>1, <2>2, <3>1, <3>2, <3>3, <3>4 DEF StillInHand, GeneratorWrote
  <2>3. CASE GivenUp(g, r)
    <3>1. newOrder'[g][r] = "none" /\ newPieces'[g][r] = {} /\ serial'[g][r] = 0 /\ r \notin todo'[g]
      BY <2>3 DEF GivenUp
    <3>2. Cardinality({}) = 0 /\ 0 <= Pieces
      BY FS_EmptySet, ErpInboundAssumption
    <3> QED BY <3>1, <3>2 DEF GeneratorWrote, Held, Counted
  <2> QED BY <2>2, <2>3 DEF Untouched
<1> QED BY <1>4, <1>5, <1>6, <1>7, <1>8 DEF PieceInv

\* A generator counts the pieces of the order in hand.
LEMMA CountedNow ==
    ASSUME NEW r \in References, NEW g \in Generators, PieceInv(r), InboundTypeOK, CountPieces(g, r)
    PROVE  PieceInv(r)'
<1>1. /\ order' = order /\ pieces' = pieces /\ newOrder' = newOrder /\ newPieces' = newPieces
      /\ todo' = todo /\ half' = half /\ deleted' = deleted
  BY DEF CountPieces, orderVars
<1>2. serial'[g][r] = NextSerial(g, r) /\ \A h \in Generators \ {g} : serial'[h][r] = serial[h][r]
  BY DEF CountPieces, InboundTypeOK
<1>3. r \in late => r \in late'
  BY DEF CountPieces
<1>4. Counted(g, r)'
  <2>1. Numbered(g, r)
    BY DEF PieceInv, Sessions
  <2>2. Cardinality(pieces[r] \cup newPieces[g][r]) \in Nat
    BY <2>1, Segments DEF Numbered
  <2>3. serial'[g][r] = Cardinality(pieces'[r] \cup newPieces'[g][r]) + 1
    BY <1>1, <1>2 DEF NextSerial
  <2>4. newPieces[g][r] = {} /\ r \notin late' => serial'[g][r] = 1
    <3>1. r \notin late' => pieces[r] = {}
      BY DEF CountPieces
    <3>2. Cardinality({}) = 0 /\ {} \cup {} = {}
      BY FS_EmptySet
    <3> QED BY <1>1, <2>3, <3>1, <3>2
  <2> QED BY <1>1, <2>2, <2>3, <2>4 DEF Counted
<1>5. ASSUME NEW h \in Generators PROVE GeneratorWrote(h, r)'
  <2>1. GeneratorWrote(h, r)
    BY DEF PieceInv
  <2>2. Counted(h, r)'
    BY <1>1, <1>2, <1>3, <1>4, <2>1 DEF GeneratorWrote, Counted
  <2> QED BY <1>1, <2>1, <2>2 DEF GeneratorWrote, Held
<1>6. Floor(r)'
  BY <1>1, <1>3 DEF PieceInv, Floor
<1>7. \A s \in Sessions : Numbered(s, r)'
  BY <1>1, <1>3 DEF PieceInv, Numbered
<1>8. \A i \in InboundLoops : LoopWrote(i, r)'
  BY <1>1 DEF PieceInv, LoopWrote, Held
<1>9. \A s, t \in Sessions : Held(s, r)' /\ Held(t, r)' => s = t
  BY <1>1 DEF PieceInv, Held
<1> QED BY <1>5, <1>6, <1>7, <1>8, <1>9 DEF PieceInv

\* Of an order nobody else has written, only this session has pieces in hand.
LEMMA NobodyElse ==
    ASSUME NEW r \in References, NEW s \in Sessions, ~HeldElsewhere(s, r), NEW t \in Sessions, t # s
    PROVE  newOrder[t][r] = "none" /\ newPieces[t][r] = {} /\ ~Held(t, r)
BY DEF HeldElsewhere, Held

\* A generator inserts the next piece of the order in hand.
LEMMA InsertedNext ==
    ASSUME NEW r \in References, NEW g \in Generators, PieceInv(r), InboundTypeOK, InsertPiece(g, r)
    PROVE  PieceInv(r)'
<1> DEFINE n == serial[g][r]
           all == pieces[r] \cup newPieces[g][r]
           mine == newPieces[g][r] \cup {n}
<1>1. /\ r \in todo[g] /\ n # 0 /\ n \notin pieces[r] /\ ~HeldElsewhere(g, r)
      /\ order' = order /\ pieces' = pieces /\ half' = half /\ late' = late /\ deleted' = deleted
  BY DEF InsertPiece, InHand, orderVars
<1>2. g \in Sessions /\ \A i \in InboundLoops : i \in Sessions /\ i # g
  BY ErpInboundAssumption DEF Sessions
<1>3. /\ newPieces'[g][r] = mine
      /\ newOrder'[g][r] = IF r \in deleted THEN newOrder[g][r] ELSE "started"
      /\ serial'[g][r] = 0
      /\ \A t \in Sessions \ {g} : newOrder'[t][r] = newOrder[t][r] /\ newPieces'[t][r] = newPieces[t][r]
      /\ \A h \in Generators \ {g} : serial'[h] = serial[h] /\ todo'[h] = todo[h]
  BY <1>2 DEF InsertPiece, InboundTypeOK, NoSerial, Sessions
<1>4. r \in todo'[g] <=> ~(r \in deleted \/ Cardinality(mine) = Pieces)
  BY <1>1, <1>2 DEF InsertPiece, InboundTypeOK
<1>5. GeneratorWrote(g, r) /\ Numbered(g, r) /\ Floor(r)
  BY <1>2 DEF PieceInv
<1>6. n = Cardinality(all) + 1 /\ (r \notin late => pieces[r] = {})
  <2>1. /\ Cardinality(all) \in Nat /\ Cardinality(pieces[r]) \in Nat
        /\ pieces[r] = 1..Cardinality(pieces[r])
    BY <1>5, Segments DEF Numbered, Floor
  <2>2. n \in Nat
    BY DEF InboundTypeOK
  <2>3. Counted(g, r)
    BY <1>5 DEF GeneratorWrote
  <2>4. CASE newPieces[g][r] # {}
    BY <1>1, <1>5, <2>3, <2>4 DEF Counted, Numbered
  <2>5. CASE newPieces[g][r] = {}
    <3>1. all = pieces[r] /\ n <= Cardinality(all) + 1 /\ (r \notin late => n = 1)
      BY <1>1, <2>3, <2>5 DEF Counted
    <3>2. n = Cardinality(pieces[r]) + 1
      <4>1. n <= Cardinality(pieces[r]) + 1 /\ n \notin 1..Cardinality(pieces[r])
        BY <1>1, <2>1, <3>1
      <4> HIDE DEF n, all
      <4> QED BY <1>1, <2>1, <2>2, <4>1
    <3>3. r \notin late => pieces[r] = 1..0
      BY <2>1, <3>1, <3>2
    <3> QED BY <3>1, <3>2, <3>3
  <2> QED BY <2>4, <2>5
<1>7. /\ IsFiniteSet(newPieces[g][r]) /\ Cardinality(newPieces[g][r]) \in Nat
      /\ n \notin newPieces[g][r]
      /\ Segment(pieces[r] \cup mine)
  <2>1. Segment(all)
    BY <1>5 DEF Numbered
  <2>2. /\ Cardinality(all) + 1 \notin all /\ Segment(all \cup {Cardinality(all) + 1})
        /\ \A T \in SUBSET all : IsFiniteSet(T) /\ Cardinality(T) \in Nat
    <3> HIDE DEF all
    <3> QED BY <2>1, Segments
  <2>3. pieces[r] \cup mine = all \cup {Cardinality(all) + 1}
    BY <1>6
  <2> QED BY <1>6, <2>2, <2>3
<1>8. Cardinality(mine) = Cardinality(newPieces[g][r]) + 1
  BY <1>7, FS_AddElement
<1>9. Cardinality(newPieces[g][r]) < Pieces /\ Cardinality(mine) <= Pieces
  BY <1>1, <1>5, <1>7, <1>8, ErpInboundAssumption DEF GeneratorWrote
<1>10. \A t \in Sessions \ {g} : ~Held(t, r) /\ ~Held(t, r)' /\ newPieces'[t][r] = {} /\ newOrder'[t][r] = "none"
  BY <1>1, <1>2, <1>3, NobodyElse DEF Held
<1>11. GeneratorWrote(g, r)'
  <2>1. order[r] # "none" /\ newOrder[g][r] # "released"
        /\ (newOrder[g][r] = "started" => r \notin deleted)
    BY <1>1, <1>5 DEF GeneratorWrote
  <2>2. newOrder'[g][r] = "started" =>
            /\ mine # {} /\ r \notin deleted'
            /\ r \in todo'[g] \/ Cardinality(mine) = Pieces
    BY <1>1, <1>3, <1>4, <2>1
  <2>3. r \in todo'[g] => Cardinality(mine) < Pieces
    BY <1>4, <1>7, <1>8, <1>9, ErpInboundAssumption
  <2>4. order'[r] # "none" /\ newOrder'[g][r] # "released"
    BY <1>1, <1>3, <2>1
  <2>5. Counted(g, r)'
    BY <1>3 DEF Counted
  <2> HIDE DEF mine, n, all
  <2> QED BY <1>3, <1>9, <2>2, <2>3, <2>4, <2>5 DEF GeneratorWrote
<1>12. ASSUME NEW h \in Generators, h # g PROVE GeneratorWrote(h, r)'
  <2>1. GeneratorWrote(h, r) /\ h \in Sessions \ {g}
    BY <1>12 DEF PieceInv, Sessions
  <2> QED BY <1>1, <1>3, <1>10, <1>12, <2>1 DEF GeneratorWrote, Counted, Held
<1>13. \A i \in InboundLoops : LoopWrote(i, r)'
  BY <1>2, <1>10 DEF LoopWrote
<1>14. ASSUME NEW s \in Sessions PROVE Numbered(s, r)'
  <2>1. CASE s = g
    BY <1>1, <1>3, <1>6, <1>7, <2>1 DEF Numbered
  <2>2. CASE s # g
    <3>1. pieces'[r] \cup newPieces'[s][r] = pieces[r] /\ newPieces'[s][r] = {}
      BY <1>1, <1>10, <2>2
    <3> QED BY <1>5, <3>1 DEF Numbered, Floor
  <2> QED BY <2>1, <2>2
<1>15. Floor(r)'
  BY <1>1, <1>5 DEF Floor
<1>16. \A s, t \in Sessions : Held(s, r)' /\ Held(t, r)' => s = t
  BY <1>10
<1> QED BY <1>11, <1>12, <1>13, <1>14, <1>15, <1>16 DEF PieceInv

\* The processor writes the order and its first pieces.
LEMMA WrittenWhole ==
    ASSUME NEW r \in References, NEW i \in InboundLoops, NEW n \in 0..Pieces, PieceInv(r), InboundTypeOK,
           MakeOrder(i, n), r = copyOf[Min(todo[i])]
    PROVE  PieceInv(r)'
<1>1. /\ order[r] = "none" /\ ~HeldElsewhere(i, r)
      /\ order' = order /\ pieces' = pieces /\ late' = late /\ deleted' = deleted /\ serial' = serial
      /\ half' = IF n \in 1..(Pieces - 1) THEN half \cup {r} ELSE half
  BY DEF MakeOrder, orderVars
<1>2. i \in Sessions /\ \A g \in Generators : g \in Sessions /\ g # i
  BY ErpInboundAssumption DEF Sessions
<1>3. /\ newOrder'[i][r] = IF n = 0 THEN "released" ELSE "started"
      /\ newPieces'[i][r] = 1..n
      /\ \A t \in Sessions \ {i} : newOrder'[t][r] = newOrder[t][r] /\ newPieces'[t][r] = newPieces[t][r]
      /\ \A g \in Generators : todo'[g] = todo[g]
  BY <1>2 DEF MakeOrder, Settle, InboundTypeOK, Sessions
<1>4. \A t \in Sessions \ {i} : ~Held(t, r)' /\ newPieces'[t][r] = {} /\ newOrder'[t][r] = "none"
  BY <1>1, <1>2, <1>3, NobodyElse DEF Held
<1>5. Floor(r) /\ pieces[r] = {}
  BY <1>1 DEF PieceInv, Floor
<1>6. Floor(r)'
  BY <1>1, <1>5 DEF Floor
<1>7. LoopWrote(i, r)'
  <2>1. n = 0 => 1..n = {}
    OBVIOUS
  <2>2. n # 0 => n \in 1..Pieces /\ (n = Pieces \/ r \in half')
    BY <1>1, ErpInboundAssumption
  <2> QED BY <1>1, <1>3, <2>1, <2>2 DEF LoopWrote
<1>8. ASSUME NEW j \in InboundLoops, j # i PROVE LoopWrote(j, r)'
  <2>1. j \in Sessions \ {i}
    BY <1>8 DEF Sessions
  <2> QED BY <1>4, <2>1 DEF LoopWrote
<1>9. ASSUME NEW g \in Generators PROVE GeneratorWrote(g, r)'
  <2>1. GeneratorWrote(g, r) /\ g \in Sessions \ {i}
    BY <1>2 DEF PieceInv
  <2> QED BY <1>1, <1>3, <1>4, <2>1 DEF GeneratorWrote, Counted, Held
<1>10. ASSUME NEW s \in Sessions PROVE Numbered(s, r)'
  <2>1. pieces'[r] = {}
    BY <1>1, <1>5
  <2>2. CASE s = i
    <3>1. Segment(1..n)
      BY DEF Segment
    <3>2. pieces'[r] \cup newPieces'[s][r] = 1..n
      BY <1>3, <2>1, <2>2
    <3> QED BY <2>1, <3>1, <3>2 DEF Numbered
  <2>3. CASE s # i
    <3>1. pieces'[r] \cup newPieces'[s][r] = {}
      BY <1>4, <2>1, <2>3
    <3> QED BY <2>1, <3>1, NoneIsSegment DEF Numbered
  <2> QED BY <2>2, <2>3
<1>11. \A s, t \in Sessions : Held(s, r)' /\ Held(t, r)' => s = t
  BY <1>4
<1> QED BY <1>6, <1>7, <1>8, <1>9, <1>10, <1>11 DEF PieceInv

\* What a session that ends leaves behind of an order: nothing.
LEMMA Discarded ==
    ASSUME InboundTypeOK, NEW s \in Sessions, Discard(s), NEW r \in References
    PROVE  /\ Dropped(s, r) /\ todo'[s] = {} /\ ~Held(s, r)'
           /\ \A t \in Sessions \ {s} : Kept(t, r) /\ todo'[t] = todo[t]
BY DEF Discard, InboundTypeOK, Unwritten, NoPieces, Dropped, Kept, Held

\* The others see what a session has published, and have nothing of it in hand.
LEMMA PublishedToOthers ==
    ASSUME NEW r \in References, NEW s \in Sessions, PieceInv(r), Held(s, r), InboundTypeOK,
           Publish(s), Discard(s), deleted' = deleted, half' = half, late' = late,
           \A g \in Generators \ {s} : serial'[g][r] = serial[g][r],
           s \in Generators => serial'[s][r] = 0
    PROVE  /\ Segment(pieces'[r])
           /\ \A t, u \in Sessions : Held(t, r)' /\ Held(u, r)' => t = u
           /\ \A t \in Sessions : Numbered(t, r)'
           /\ \A i \in InboundLoops : LoopWrote(i, r)'
           /\ order'[r] # "none" => \A g \in Generators : GeneratorWrote(g, r)'
<1>1. \A t \in Sessions : ~Held(t, r)' /\ newOrder'[t][r] = "none" /\ newPieces'[t][r] = {}
  <2>1. \A t \in Sessions \ {s} : ~Held(t, r)
    BY DEF PieceInv
  <2>2. /\ newOrder'[s][r] = "none" /\ newPieces'[s][r] = {}
        /\ \A t \in Sessions \ {s} : newOrder'[t][r] = newOrder[t][r] /\ newPieces'[t][r] = newPieces[t][r]
    BY Discarded DEF Dropped, Kept
  <2> QED BY <2>1, <2>2 DEF Held
<1>2. pieces'[r] = pieces[r] \cup newPieces[s][r]
  BY DEF Publish
<1>3. Segment(pieces'[r]) /\ Segment(pieces[r])
  BY <1>2 DEF PieceInv, Numbered, Floor
<1>4. ASSUME NEW t \in Sessions PROVE Numbered(t, r)'
  <2>1. pieces'[r] \cup newPieces'[t][r] = pieces'[r] /\ newPieces'[t][r] = {}
    BY <1>1
  <2> QED BY <1>3, <2>1 DEF Numbered
<1>5. ASSUME NEW i \in InboundLoops PROVE LoopWrote(i, r)'
  <2>1. i \in Sessions
    BY DEF Sessions
  <2> QED BY <1>1, <2>1 DEF LoopWrote
<1>6. ASSUME order'[r] # "none", NEW g \in Generators PROVE GeneratorWrote(g, r)'
  <2>1. g \in Sessions /\ GeneratorWrote(g, r)
    BY DEF Sessions, PieceInv
  <2>2. newOrder'[g][r] = "none" /\ newPieces'[g][r] = {} /\ Cardinality({}) = 0 /\ 0 < Pieces /\ 0 <= Pieces
    BY <1>1, <2>1, FS_EmptySet, ErpInboundAssumption
  <2>3. Counted(g, r)'
    <3>1. CASE g = s
      BY <3>1 DEF Counted
    <3>2. CASE g # s
      <4>1. newPieces[g][r] = {} /\ serial'[g][r] = serial[g][r] /\ pieces[r] \cup newPieces[g][r] = pieces[r]
        BY <2>1, <3>2 DEF PieceInv, Held
      <4>2. /\ Cardinality(pieces[r]) \in Nat /\ Cardinality(pieces'[r]) \in Nat
            /\ Cardinality(pieces[r]) <= Cardinality(pieces'[r])
        BY <1>2, <1>3, Segments
      <4>3. serial[g][r] # 0 => serial[g][r] <= Cardinality(pieces[r]) + 1 /\ (r \notin late => serial[g][r] = 1)
        BY <2>1, <4>1 DEF GeneratorWrote, Counted
      <4>4. pieces'[r] \cup newPieces'[g][r] = pieces'[r] /\ serial[g][r] \in Nat
        BY <2>2 DEF InboundTypeOK
      <4> QED BY <2>2, <4>1, <4>2, <4>3, <4>4 DEF Counted
    <3> QED BY <3>1, <3>2
  <2> QED BY <1>1, <1>6, <2>1, <2>2, <2>3 DEF GeneratorWrote
<1> QED BY <1>1, <1>3, <1>4, <1>5, <1>6

\* An inbound loop commits the orders it has written, each with its pieces.
LEMMA LoopPublished ==
    ASSUME NEW r \in References, NEW i \in InboundLoops, PieceInv(r), Held(i, r), InboundTypeOK,
           Publish(i), InboundAbort(i), deleted' = deleted, half' = half, late' = late
    PROVE  PieceInv(r)'
<1>1. i \in Sessions /\ i \notin Generators /\ Discard(i) /\ serial' = serial
  BY ErpInboundAssumption DEF Sessions, InboundAbort
<1>2. LoopWrote(i, r) /\ order[r] = "none" /\ pieces[r] = {}
  BY DEF PieceInv, LoopWrote, Floor
<1>3. newOrder[i][r] # "none"
  BY <1>2 DEF LoopWrote, Held
<1>4. order'[r] = newOrder[i][r] /\ pieces'[r] = newPieces[i][r]
  BY <1>2, <1>3 DEF Publish
<1>5. Segment(pieces'[r])
  BY <1>1, PublishedToOthers
<1>6. Floor(r)'
  <2>1. CASE newOrder[i][r] = "started"
    <3>1. PICK n \in 1..Pieces : newPieces[i][r] = 1..n /\ (n = Pieces \/ r \in half)
      BY <1>2, <2>1 DEF LoopWrote
    <3>2. Cardinality(1..n) = n
      <4>1. 1 \in Int /\ n \in Int
        BY ErpInboundAssumption
      <4>2. Cardinality(1..n) = IF 1 > n THEN 0 ELSE n-1+1
        BY <4>1, FS_Interval
      <4> QED BY <4>2, ErpInboundAssumption
    <3>3. Cardinality(pieces'[r]) = n
      BY <1>4, <3>1, <3>2
    <3> QED BY <1>3, <1>4, <1>5, <3>1, <3>3, ErpInboundAssumption DEF Floor
  <2>2. CASE newOrder[i][r] # "started"
    <3>1. pieces'[r] = {} /\ Cardinality({}) = 0 /\ 0 < Pieces /\ 0 <= Pieces
      BY <1>2, <1>4, <2>2, FS_EmptySet, ErpInboundAssumption DEF LoopWrote
    <3> QED BY <1>4, <1>5, <2>2, <3>1 DEF Floor
  <2> QED BY <2>1, <2>2
<1> QED BY <1>1, <1>3, <1>4, <1>6, PublishedToOthers DEF PieceInv

\* A generator commits the pieces it has made.
LEMMA PiecesPublished ==
    ASSUME NEW r \in References, NEW g \in Generators, PieceInv(r), Held(g, r), InboundTypeOK, todo[g] = {},
           Publish(g), GeneratorAbort(g), deleted' = deleted, half' = half, late' = late
    PROVE  PieceInv(r)'
<1>1. g \in Sessions /\ Discard(g) /\ serial'[g][r] = 0
      /\ \A h \in Generators \ {g} : serial'[h][r] = serial[h][r]
  BY DEF Sessions, GeneratorAbort, InboundTypeOK, NoSerial
<1>2. GeneratorWrote(g, r) /\ Numbered(g, r) /\ Floor(r) /\ order[r] # "none"
  BY <1>1 DEF PieceInv, GeneratorWrote
<1>3. /\ order'[r] = IF newOrder[g][r] = "none" THEN order[r] ELSE newOrder[g][r]
      /\ pieces'[r] = pieces[r] \cup newPieces[g][r]
  BY DEF Publish
<1>4. Segment(pieces'[r]) /\ order'[r] # "none"
  BY <1>2, <1>3 DEF Numbered
<1>5. /\ Cardinality(pieces'[r]) \in Nat /\ Cardinality(pieces[r]) \in Nat /\ Cardinality(newPieces[g][r]) \in Nat
      /\ Cardinality(pieces[r]) <= Cardinality(pieces'[r])
      /\ Cardinality(newPieces[g][r]) <= Cardinality(pieces'[r])
  BY <1>2, <1>3, <1>4, Segments DEF Floor
<1>6. order'[r] = "started" => Cardinality(pieces'[r]) >= Pieces \/ r \in half
  <2>1. CASE newOrder[g][r] = "none"
    BY <1>2, <1>3, <1>5, <2>1, ErpInboundAssumption DEF Floor
  <2>2. CASE newOrder[g][r] # "none"
    <3>1. newOrder[g][r] \in {"none", "released", "started"}
      BY <1>1 DEF InboundTypeOK
    <3>2. Cardinality(newPieces[g][r]) = Pieces
      BY <1>2, <2>2, <3>1 DEF GeneratorWrote
    <3> QED BY <1>5, <3>2
  <2> QED BY <2>1, <2>2
<1>7. r \notin late => Cardinality(pieces'[r]) <= Pieces
  <2>1. CASE newPieces[g][r] = {}
    <3>1. pieces'[r] = pieces[r]
      BY <1>3, <2>1
    <3> QED BY <1>2, <3>1 DEF Floor
  <2>2. CASE newPieces[g][r] # {}
    <3>1. r \notin late => pieces'[r] = newPieces[g][r]
      BY <1>2, <1>3, <2>2 DEF Numbered
    <3> QED BY <1>2, <3>1 DEF GeneratorWrote
  <2> QED BY <2>1, <2>2
<1>8. Floor(r)'
  BY <1>4, <1>6, <1>7 DEF Floor
<1> QED BY <1>1, <1>4, <1>8, PublishedToOthers DEF PieceInv

\* Steps at which no session writes, publishes or gives up anything of an order.
LEMMA QuietStep ==
    ASSUME NEW r \in References, PieceInv(r),
           order' = order, pieces' = pieces, newOrder' = newOrder, newPieces' = newPieces,
           serial' = serial, half' = half, late' = late, deleted' = deleted,
           \A g \in Generators : todo'[g] = todo[g]
    PROVE  PieceInv(r)'
BY UntouchedKept DEF Untouched, GhostsGrow, Kept, StillInHand

\* A pass that is lost.
LEMMA PassLost ==
    ASSUME NEW r \in References, PieceInv(r), InboundTypeOK, NEW s \in Sessions, Discard(s),
           order' = order, pieces' = pieces, deleted' = deleted, half' = half, late' = late,
           \A g \in Generators : serial'[g][r] = serial[g][r] \/ (g = s /\ serial'[g][r] = 0),
           s \in Generators => serial'[s][r] = 0
    PROVE  PieceInv(r)'
<1>1. /\ Dropped(s, r) /\ todo'[s] = {}
      /\ \A t \in Sessions \ {s} : Kept(t, r) /\ todo'[t] = todo[t]
  BY Discarded
<1>2. \A i \in InboundLoops : Kept(i, r) \/ Dropped(i, r)
  BY <1>1 DEF Sessions
<1>3. ASSUME NEW g \in Generators PROVE StillInHand(g, r) \/ GivenUp(g, r)
  <2>1. CASE g = s
    BY <1>1, <2>1 DEF GivenUp
  <2>2. CASE g # s
    <3>1. g \in Sessions \ {s}
      BY <2>2 DEF Sessions
    <3> QED BY <1>1, <2>2, <3>1 DEF StillInHand
  <2> QED BY <2>1, <2>2
<1>4. Untouched(r)
  BY <1>2, <1>3 DEF Untouched, GhostsGrow
<1> QED BY <1>4, UntouchedKept

\* A session publishes nothing of an order it has not written.
LEMMA PublishedElsewhere ==
    ASSUME NEW r \in References, PieceInv(r), InboundTypeOK, NEW s \in Sessions, Publish(s), Discard(s), ~Held(s, r),
           deleted' = deleted, half' = half, late' = late,
           \A g \in Generators : serial'[g][r] = serial[g][r] \/ (g = s /\ serial'[g][r] = 0),
           s \in Generators => serial'[s][r] = 0
    PROVE  PieceInv(r)'
<1>1. order'[r] = order[r] /\ pieces'[r] = pieces[r]
  BY DEF Publish, Held
<1>2. /\ Dropped(s, r) /\ todo'[s] = {}
      /\ \A t \in Sessions \ {s} : Kept(t, r) /\ todo'[t] = todo[t]
  BY Discarded
<1>3. \A i \in InboundLoops : Kept(i, r) \/ Dropped(i, r)
  BY <1>2 DEF Sessions
<1>4. ASSUME NEW g \in Generators PROVE StillInHand(g, r) \/ GivenUp(g, r)
  <2>1. CASE g = s
    BY <1>2, <2>1 DEF GivenUp
  <2>2. CASE g # s
    <3>1. g \in Sessions \ {s}
      BY <2>2 DEF Sessions
    <3> QED BY <1>2, <2>2, <3>1 DEF StillInHand
  <2> QED BY <2>1, <2>2
<1>5. Untouched(r)
  BY <1>1, <1>3, <1>4 DEF Untouched, GhostsGrow
<1> QED BY <1>5, UntouchedKept

\* A generator starts a pass over the released orders.
LEMMA FoundReleased ==
    ASSUME NEW r \in References, PieceInv(r), InboundTypeOK, NEW g \in Generators, FindReleased(g)
    PROVE  PieceInv(r)'
<1>1. /\ todo[g] = {} /\ newPieces[g][r] = {} /\ newOrder[g][r] = "none"
      /\ todo'[g] = ReleasedOrders /\ \A h \in Generators \ {g} : todo'[h] = todo[h]
  BY DEF FindReleased, GeneratorIdle, Unwritten, NoPieces, InboundTypeOK, Sessions
<1>2. /\ order' = order /\ pieces' = pieces /\ newOrder' = newOrder /\ newPieces' = newPieces
      /\ serial' = serial /\ half' = half /\ late' = late /\ deleted' = deleted
  BY DEF FindReleased, orderVars
<1>3. \A s \in Sessions : Kept(s, r)
  BY <1>2 DEF Kept
<1>4. r \in ReleasedOrders => order[r] # "none"
  BY DEF ReleasedOrders
<1>5. ASSUME NEW h \in Generators PROVE StillInHand(h, r)
  <2>1. CASE h = g
    BY <1>1, <1>2, <1>4, <2>1 DEF StillInHand, Kept
  <2>2. CASE h # g
    BY <1>1, <1>2, <2>2 DEF StillInHand, Kept
  <2> QED BY <2>1, <2>2
<1>6. Untouched(r)
  BY <1>2, <1>3, <1>5 DEF Untouched, GhostsGrow, Sessions
<1> QED BY <1>6, UntouchedKept

\* A generator works on one of its orders; the others stay as they are.
LEMMA OthersInHand ==
    ASSUME NEW r \in References, PieceInv(r), NEW g \in Generators, NEW q \in References, q # r, InboundTypeOK,
           CountPieces(g, q) \/ InsertPiece(g, q)
    PROVE  PieceInv(r)'
<1>1. /\ order' = order /\ pieces' = pieces /\ half' = half /\ deleted' = deleted
      /\ r \in late => r \in late'
  BY DEF CountPieces, InsertPiece, orderVars
<1>2. /\ \A s \in Sessions : Kept(s, r)
      /\ \A h \in Generators : r \in todo'[h] <=> r \in todo[h]
      /\ \A h \in Generators : serial'[h][r] = 0 \/ serial'[h][r] = serial[h][r]
  <2>1. CASE CountPieces(g, q)
    BY <2>1 DEF CountPieces, InboundTypeOK, Kept
  <2>2. CASE InsertPiece(g, q)
    BY <2>2 DEF InsertPiece, InboundTypeOK, Kept, Sessions, NoSerial
  <2> QED BY <2>1, <2>2
<1>3. \A h \in Generators : StillInHand(h, r)
  BY <1>2 DEF StillInHand, Sessions
<1>4. Untouched(r)
  BY <1>1, <1>2, <1>3 DEF Untouched, GhostsGrow, Sessions
<1> QED BY <1>4, UntouchedKept

\* The number a generator counted is taken: it has none of its own of this order.
LEMMA TakenSkipped ==
    ASSUME NEW r \in References, PieceInv(r), NEW g \in Generators, NEW q \in References, InboundTypeOK, SerialTaken(g, q)
    PROVE  PieceInv(r)'
<1>1. order' = order /\ pieces' = pieces /\ half' = half /\ late' = late /\ deleted' = deleted
  BY DEF SerialTaken, orderVars
<1>2. g \in Sessions
  BY DEF Sessions
<1>3. CASE GeneratorAbort(g)
  <2>1. /\ Discard(g) /\ serial'[g][r] = 0 /\ \A h \in Generators \ {g} : serial'[h][r] = serial[h][r]
    BY <1>3 DEF GeneratorAbort, InboundTypeOK, NoSerial
  <2> QED BY <1>1, <1>2, <2>1, PassLost
<1>4. CASE /\ todo' = [todo EXCEPT ![g] = @ \ {q}] /\ serial' = [serial EXCEPT ![g] = NoSerial]
           /\ UNCHANGED <<newOrder, newPieces>>
  <2>1. /\ \A s \in Sessions : Kept(s, r)
        /\ todo'[g] = todo[g] \ {q} /\ serial'[g][r] = 0
        /\ \A h \in Generators \ {g} : todo'[h] = todo[h] /\ serial'[h] = serial[h]
    BY <1>4 DEF InboundTypeOK, Kept, Sessions, NoSerial
  <2>2. q = r => newOrder[g][r] # "started"
    <3>1. SUFFICES ASSUME q = r, newOrder[g][r] = "started" PROVE FALSE
      OBVIOUS
    <3>2. newPieces[g][r] # {} /\ Counted(g, r) /\ Numbered(g, r)
      BY <1>2, <3>1 DEF PieceInv, GeneratorWrote
    <3>3. serial[g][r] \in pieces[r]
      BY <3>1 DEF SerialTaken
    <3>4. Cardinality(pieces[r] \cup newPieces[g][r]) + 1 \notin pieces[r] \cup newPieces[g][r]
      BY <3>2, Segments DEF Numbered
    <3>5. Segment(pieces[r])
      BY DEF PieceInv, Floor
    <3>6. serial[g][r] # 0
      BY <3>3, <3>5 DEF Segment
    <3> QED BY <3>2, <3>3, <3>4, <3>6 DEF Counted
  <2>3. ASSUME NEW h \in Generators PROVE StillInHand(h, r)
    <3>1. Kept(h, r)
      BY <2>1 DEF Sessions
    <3>2. CASE h = g
      BY <2>1, <2>2, <3>1, <3>2 DEF StillInHand
    <3>3. CASE h # g
      BY <2>1, <3>1, <3>3 DEF StillInHand
    <3> QED BY <3>2, <3>3
  <2>4. Untouched(r)
    BY <1>1, <2>1, <2>3 DEF Untouched, GhostsGrow, Sessions
  <2> QED BY <2>4, UntouchedKept
<1> QED BY <1>3, <1>4 DEF SerialTaken

\* The processor writes one order; the others stay as they are.
LEMMA OthersNotWritten ==
    ASSUME NEW r \in References, PieceInv(r), NEW i \in InboundLoops, NEW n \in 0..Pieces, InboundTypeOK,
           MakeOrder(i, n), r # copyOf[Min(todo[i])]
    PROVE  PieceInv(r)'
<1>1. /\ order' = order /\ pieces' = pieces /\ late' = late /\ deleted' = deleted /\ serial' = serial
      /\ r \in half => r \in half'
  BY DEF MakeOrder, orderVars
<1>2. \A s \in Sessions : Kept(s, r)
  BY DEF MakeOrder, InboundTypeOK, Kept, Sessions
<1>3. \A g \in Generators : todo'[g] = todo[g]
  BY ErpInboundAssumption DEF MakeOrder, Settle, InboundTypeOK, Sessions
<1>4. Untouched(r)
  BY <1>1, <1>2, <1>3 DEF Untouched, GhostsGrow, StillInHand, Sessions
<1> QED BY <1>4, UntouchedKept

LEMMA PiecesKept == InboundTypeOK /\ PiecesInv /\ [InboundNext]_inboundVars => PiecesInv'
<1> SUFFICES ASSUME InboundTypeOK, PiecesInv, [InboundNext]_inboundVars, NEW r \in References
             PROVE  PieceInv(r)'
  BY DEF PiecesInv
<1>0. PieceInv(r)
  BY DEF PiecesInv
<1>1. ASSUME NEW y \in Syncs, NEW q \in References, SyncLook(y, q) PROVE PieceInv(r)'
  BY <1>0, <1>1, QuietStep DEF SyncLook, orderVars, loopVars
<1>2. ASSUME NEW y \in Syncs, SyncInsert(y) PROVE PieceInv(r)'
  BY <1>0, <1>2, QuietStep DEF SyncInsert, orderVars, loopVars
<1>3. ASSUME NEW c \in Copies, RetryCopy(c) PROVE PieceInv(r)'
  BY <1>0, <1>3, QuietStep DEF RetryCopy, orderVars, loopVars
<1>4. ASSUME NEW q \in References, OrderDeleted(q) PROVE PieceInv(r)'
  <2>1. /\ order' = order /\ pieces' = pieces /\ newOrder' = newOrder /\ newPieces' = newPieces /\ todo' = todo
        /\ serial' = serial /\ half' = half /\ late' = late /\ deleted' = deleted \cup {q}
        /\ \A s \in Sessions : newOrder[s][q] = "none"
    BY <1>4 DEF OrderDeleted, loopVars
  <2>2. Untouched(r)
    BY <2>1 DEF Untouched, GhostsGrow, StillInHand, Kept
  <2> QED BY <1>0, <2>2, UntouchedKept
<1>5. ASSUME NEW i \in InboundLoops, Poll(i) PROVE PieceInv(r)'
  <2>1. \A g \in Generators : todo'[g] = todo[g]
    BY <1>5, ErpInboundAssumption DEF Poll, InboundTypeOK, Sessions
  <2> QED BY <1>0, <1>5, <2>1, QuietStep DEF Poll, orderVars
<1>6. ASSUME NEW i \in InboundLoops, LookUp(i) PROVE PieceInv(r)'
  <2>1. \A g \in Generators : todo'[g] = todo[g]
    BY <1>6, ErpInboundAssumption DEF LookUp, Settle, InboundTypeOK, Sessions
  <2> QED BY <1>0, <1>6, <2>1, QuietStep DEF LookUp, orderVars
<1>7. ASSUME NEW i \in InboundLoops, NumberTaken(i) \/ LoseBatch(i) PROVE PieceInv(r)'
  <2>1. /\ order' = order /\ pieces' = pieces /\ half' = half /\ late' = late /\ deleted' = deleted
        /\ Discard(i) /\ serial' = serial /\ i \in Sessions /\ i \notin Generators
    BY <1>7, ErpInboundAssumption DEF NumberTaken, LoseBatch, InboundAbort, orderVars, Sessions
  <2> QED BY <1>0, <2>1, PassLost
<1>8. ASSUME NEW i \in InboundLoops, CommitBatch(i) PROVE PieceInv(r)'
  <2>1. /\ Publish(i) /\ InboundAbort(i) /\ half' = half /\ late' = late /\ deleted' = deleted
        /\ Discard(i) /\ serial' = serial /\ i \in Sessions /\ i \notin Generators
    BY <1>8, ErpInboundAssumption DEF CommitBatch, InboundAbort, Sessions
  <2>2. CASE Held(i, r)
    BY <1>0, <2>1, <2>2, LoopPublished
  <2>3. CASE ~Held(i, r)
    BY <1>0, <2>1, <2>3, PublishedElsewhere
  <2> QED BY <2>2, <2>3
<1>9. ASSUME NEW i \in InboundLoops, NEW n \in 0..Pieces, MakeOrder(i, n) PROVE PieceInv(r)'
  <2>1. CASE r = copyOf[Min(todo[i])]
    BY <1>0, <1>9, <2>1, WrittenWhole
  <2>2. CASE r # copyOf[Min(todo[i])]
    BY <1>0, <1>9, <2>2, OthersNotWritten
  <2> QED BY <2>1, <2>2
<1>10. ASSUME NEW g \in Generators, FindReleased(g) PROVE PieceInv(r)'
  BY <1>0, <1>10, FoundReleased
<1>11. ASSUME NEW g \in Generators, CommitPieces(g) PROVE PieceInv(r)'
  <2>1. /\ Publish(g) /\ GeneratorAbort(g) /\ half' = half /\ late' = late /\ deleted' = deleted
        /\ Discard(g) /\ g \in Sessions /\ todo[g] = {}
    BY <1>11 DEF CommitPieces, GeneratorAbort, Sessions
  <2>2. serial'[g][r] = 0 /\ \A h \in Generators \ {g} : serial'[h][r] = serial[h][r]
    BY <2>1 DEF GeneratorAbort, InboundTypeOK, NoSerial
  <2>3. CASE Held(g, r)
    BY <1>0, <2>1, <2>3, PiecesPublished
  <2>4. CASE ~Held(g, r)
    BY <1>0, <2>1, <2>2, <2>4, PublishedElsewhere
  <2> QED BY <2>3, <2>4
<1>12. ASSUME NEW g \in Generators, LosePieces(g) PROVE PieceInv(r)'
  <2>1. /\ order' = order /\ pieces' = pieces /\ half' = half /\ late' = late /\ deleted' = deleted
        /\ GeneratorAbort(g) /\ Discard(g) /\ g \in Sessions
    BY <1>12 DEF LosePieces, GeneratorAbort, orderVars, Sessions
  <2>2. serial'[g][r] = 0 /\ \A h \in Generators \ {g} : serial'[h][r] = serial[h][r]
    BY <2>1 DEF GeneratorAbort, InboundTypeOK, NoSerial
  <2> QED BY <1>0, <2>1, <2>2, PassLost
<1>13. ASSUME NEW g \in Generators, NEW q \in References, CountPieces(g, q) \/ InsertPiece(g, q)
       PROVE  PieceInv(r)'
  <2>1. CASE q = r
    BY <1>0, <1>13, <2>1, CountedNow, InsertedNext
  <2>2. CASE q # r
    BY <1>0, <1>13, <2>2, OthersInHand
  <2> QED BY <2>1, <2>2
<1>14. ASSUME NEW g \in Generators, NEW q \in References, SerialTaken(g, q) PROVE PieceInv(r)'
  BY <1>0, <1>14, TakenSkipped
<1>15. CASE UNCHANGED inboundVars
  BY <1>0, <1>15, QuietStep DEF inboundVars
<1> QED
  BY <1>1, <1>2, <1>3, <1>4, <1>5, <1>6, <1>7, <1>8, <1>9, <1>10, <1>11, <1>12, <1>13, <1>14, <1>15 DEF InboundNext

-----------------------------------------------------------------------------
\* What the sessions hold is well typed after a pass has ended.
LEMMA DiscardTyped ==
    ASSUME InboundTypeOK, NEW s \in Sessions, Discard(s)
    PROVE  /\ todo' \in [Sessions -> SUBSET (Copies \cup References)]
           /\ \A i \in InboundLoops : todo'[i] \subseteq Copies
           /\ \A g \in Generators : todo'[g] \subseteq References
           /\ newOrder' \in [Sessions -> [References -> {"none", "released", "started"}]]
           /\ newPieces' \in [Sessions -> [References -> SUBSET Serials]]
<1>1. Unwritten \in [References -> {"none", "released", "started"}] /\ NoPieces \in [References -> SUBSET Serials]
  BY DEF Unwritten, NoPieces
<1>2. /\ newOrder' \in [Sessions -> [References -> {"none", "released", "started"}]]
      /\ newPieces' \in [Sessions -> [References -> SUBSET Serials]]
  BY <1>1 DEF Discard, InboundTypeOK
<1>3. todo' \in [Sessions -> SUBSET (Copies \cup References)]
  BY DEF Discard, InboundTypeOK
<1>4. \A t \in Sessions : todo'[t] \subseteq todo[t]
  BY DEF Discard, InboundTypeOK
<1> QED BY <1>2, <1>3, <1>4 DEF InboundTypeOK, Sessions

LEMMA InboundAbortTyped ==
    ASSUME InboundTypeOK, NEW i \in InboundLoops, InboundAbort(i)
    PROVE  /\ read' \in [InboundLoops -> [Copies -> 0..InboundAttempts]]
           /\ result' \in [InboundLoops -> [Copies -> CopyStatuses \cup {"none"}]]
           /\ looked' \subseteq InboundLoops
<1>1. [c \in Copies |-> 0] \in [Copies -> 0..InboundAttempts]
  BY ErpInboundAssumption
<1>2. [c \in Copies |-> "none"] \in [Copies -> CopyStatuses \cup {"none"}]
  OBVIOUS
<1>3. read' \in [InboundLoops -> [Copies -> 0..InboundAttempts]]
  BY <1>1 DEF InboundAbort, InboundTypeOK
<1>4. result' \in [InboundLoops -> [Copies -> CopyStatuses \cup {"none"}]]
  BY <1>2 DEF InboundAbort, InboundTypeOK
<1> QED BY <1>3, <1>4 DEF InboundAbort, InboundTypeOK

LEMMA PublishTyped ==
    ASSUME InboundTypeOK, NEW s \in Sessions, Publish(s)
    PROVE  /\ order' \in [References -> {"none", "released", "started"}]
           /\ pieces' \in [References -> SUBSET Serials]
BY DEF Publish, InboundTypeOK

LEMMA SettleTyped ==
    ASSUME InboundTypeOK, NEW i \in InboundLoops, NEW c \in Copies, NEW v \in {"processed", "failed", "retry"}, Settle(i, c, v)
    PROVE  /\ todo' \in [Sessions -> SUBSET (Copies \cup References)]
           /\ \A t \in Sessions : todo'[t] \subseteq todo[t]
           /\ result' \in [InboundLoops -> [Copies -> CopyStatuses \cup {"none"}]]
<1>1. v \in CopyStatuses \cup {"none"}
  BY DEF CopyStatuses, OpenCopy
<1>2. result' \in [InboundLoops -> [Copies -> CopyStatuses \cup {"none"}]]
  BY <1>1 DEF Settle, InboundTypeOK
<1>3. todo' \in [Sessions -> SUBSET (Copies \cup References)]
  BY DEF Settle, InboundTypeOK
<1>4. \A t \in Sessions : todo'[t] \subseteq todo[t]
  BY DEF Settle, InboundTypeOK
<1> QED BY <1>2, <1>3, <1>4

LEMMA InboundTypesKept == InboundTypeOK /\ QueueInv /\ PiecesInv /\ [InboundNext]_inboundVars => InboundTypeOK'
<1> SUFFICES ASSUME InboundTypeOK, QueueInv, PiecesInv, [InboundNext]_inboundVars PROVE InboundTypeOK'
  OBVIOUS
<1> USE DEF queueVars, orderVars, loopVars
<1>0. /\ \A i \in InboundLoops : i \in Sessions /\ i \notin Generators
      /\ \A g \in Generators : g \in Sessions /\ g \notin InboundLoops
  BY ErpInboundAssumption DEF Sessions
<1>1. ASSUME NEW y \in Syncs, NEW q \in References, SyncLook(y, q) PROVE InboundTypeOK'
  BY <1>1 DEF SyncLook, InboundTypeOK
<1>2. ASSUME NEW y \in Syncs, SyncInsert(y) PROVE InboundTypeOK'
  BY <1>2 DEF SyncInsert, InboundTypeOK
<1>3. ASSUME NEW c \in Copies, RetryCopy(c) PROVE InboundTypeOK'
  <2>1. copyOf[c] \in References
    BY <1>3 DEF RetryCopy, InboundTypeOK
  <2>2. requests' \in 0..MaxRequests
    BY <1>3, ErpInboundAssumption DEF RetryCopy, InboundTypeOK
  <2>3. copyStatus' \in [Copies -> CopyStatuses] /\ tried' \in [Copies -> 0..InboundAttempts]
    BY <1>3, ErpInboundAssumption DEF RetryCopy, InboundTypeOK, CopyStatuses, OpenCopy
  <2> QED BY <1>3, <2>1, <2>2, <2>3 DEF RetryCopy, InboundTypeOK
<1>4. ASSUME NEW q \in References, OrderDeleted(q) PROVE InboundTypeOK'
  BY <1>4 DEF OrderDeleted, InboundTypeOK
<1>5. ASSUME NEW i \in InboundLoops, Poll(i) PROVE InboundTypeOK'
  <2>1. PICK taken \in SUBSET Copies :
           /\ todo' = [todo EXCEPT ![i] = taken]
           /\ read' = [read EXCEPT ![i] = [c \in Copies |-> IF c \in taken THEN tried[c] ELSE 0]]
    BY <1>5 DEF Poll, CopiesWith
  <2>2. read' \in [InboundLoops -> [Copies -> 0..InboundAttempts]]
    <3>1. [c \in Copies |-> IF c \in taken THEN tried[c] ELSE 0] \in [Copies -> 0..InboundAttempts]
      BY ErpInboundAssumption DEF InboundTypeOK
    <3> QED BY <2>1, <3>1 DEF InboundTypeOK
  <2>3. todo' \in [Sessions -> SUBSET (Copies \cup References)]
    BY <2>1 DEF InboundTypeOK
  <2>4. /\ \A j \in InboundLoops : todo'[j] \subseteq Copies
        /\ \A g \in Generators : todo'[g] \subseteq References
    BY <1>0, <2>1 DEF InboundTypeOK
  <2> QED BY <1>5, <2>2, <2>3, <2>4 DEF Poll, InboundTypeOK
<1>6. ASSUME NEW i \in InboundLoops, LookUp(i) PROVE InboundTypeOK'
  <2>1. /\ todo' \in [Sessions -> SUBSET (Copies \cup References)]
        /\ \A t \in Sessions : todo'[t] \subseteq todo[t]
        /\ result' \in [InboundLoops -> [Copies -> CopyStatuses \cup {"none"}]]
    <3>1. CASE UNCHANGED <<todo, result>>
      BY <3>1 DEF InboundTypeOK
    <3>2. CASE \E v \in {"processed", "failed", "retry"} : Settle(i, Min(todo[i]), v)
      <4>1. Min(todo[i]) \in Copies
        BY <1>6, FirstOfBatch DEF LookUp
      <4> QED BY <3>2, <4>1, SettleTyped
    <3> QED BY <1>6, <3>1, <3>2 DEF LookUp, Failed
  <2>3. /\ \A j \in InboundLoops : todo'[j] \subseteq Copies
        /\ \A g \in Generators : todo'[g] \subseteq References
    BY <1>0, <2>1 DEF InboundTypeOK
  <2>4. looked' \subseteq InboundLoops
    BY <1>6 DEF LookUp, InboundTypeOK
  <2> QED BY <1>6, <2>1, <2>3, <2>4 DEF LookUp, InboundTypeOK
<1>7. ASSUME NEW i \in InboundLoops, NumberTaken(i) \/ LoseBatch(i) PROVE InboundTypeOK'
  <2>1. InboundAbort(i) /\ Discard(i) /\ serial' = serial
    BY <1>7 DEF NumberTaken, LoseBatch, InboundAbort
  <2> QED BY <1>0, <1>7, <2>1, DiscardTyped, InboundAbortTyped DEF NumberTaken, LoseBatch, InboundTypeOK
<1>8. ASSUME NEW i \in InboundLoops, CommitBatch(i) PROVE InboundTypeOK'
  <2>1. InboundAbort(i) /\ Discard(i) /\ Publish(i) /\ serial' = serial
    BY <1>8 DEF CommitBatch, InboundAbort
  <2>2. copyStatus' \in [Copies -> CopyStatuses]
    BY <1>8 DEF CommitBatch, InboundTypeOK
  <2>3. tried' \in [Copies -> 0..InboundAttempts]
    <3>1. \A c \in Copies : read[i][c] + 1 \in 0..InboundAttempts
      BY ErpInboundAssumption DEF QueueInv, LoopSound, InboundTypeOK
    <3> QED BY <1>8, <3>1 DEF CommitBatch, InboundTypeOK
  <2>4. raced' \subseteq References
    <3>1. \A c \in Copies : result[i][c] # "none" => copyOf[c] \in References
      BY DEF QueueInv, LoopSound
    <3> QED BY <1>8, <3>1 DEF CommitBatch, InboundTypeOK
  <2>5. /\ todo' \in [Sessions -> SUBSET (Copies \cup References)]
        /\ \A j \in InboundLoops : todo'[j] \subseteq Copies
        /\ \A g \in Generators : todo'[g] \subseteq References
        /\ newOrder' \in [Sessions -> [References -> {"none", "released", "started"}]]
        /\ newPieces' \in [Sessions -> [References -> SUBSET Serials]]
    BY <1>0, <2>1, DiscardTyped
  <2> QED BY <1>0, <1>8, <2>1, <2>2, <2>3, <2>4, <2>5, InboundAbortTyped, PublishTyped
           DEF CommitBatch, InboundTypeOK
<1>9. ASSUME NEW i \in InboundLoops, NEW n \in 0..Pieces, MakeOrder(i, n) PROVE InboundTypeOK'
  <2>1. todo[i] # {}
    BY <1>9 DEF MakeOrder, QueueInv
  <2>2. Min(todo[i]) \in Copies
    BY <2>1, FirstOfBatch
  <2>3. \E v \in {"processed", "failed", "retry"} : Settle(i, Min(todo[i]), v)
    BY <1>9 DEF MakeOrder, Failed
  <2>4. /\ todo' \in [Sessions -> SUBSET (Copies \cup References)]
        /\ \A t \in Sessions : todo'[t] \subseteq todo[t]
        /\ result' \in [InboundLoops -> [Copies -> CopyStatuses \cup {"none"}]]
    BY <2>2, <2>3, SettleTyped
  <2>5. /\ \A j \in InboundLoops : todo'[j] \subseteq Copies
        /\ \A g \in Generators : todo'[g] \subseteq References
    BY <1>0, <2>4 DEF InboundTypeOK
  <2>6. copyOf[Min(todo[i])] \in References
    BY <2>1, <2>2, FirstOfBatch DEF QueueInv, LoopSound
  <2>7. newOrder' \in [Sessions -> [References -> {"none", "released", "started"}]]
    BY <1>0, <1>9 DEF MakeOrder, InboundTypeOK
  <2>8. newPieces' \in [Sessions -> [References -> SUBSET Serials]]
    <3>1. 1..n \in SUBSET Serials
      BY ErpInboundAssumption DEF Serials
    <3> QED BY <1>0, <1>9, <3>1 DEF MakeOrder, InboundTypeOK
  <2>9. half' \subseteq References /\ looked' \subseteq InboundLoops
    BY <1>9, <2>6 DEF MakeOrder, InboundTypeOK
  <2> QED BY <1>9, <2>4, <2>5, <2>7, <2>8, <2>9 DEF MakeOrder, InboundTypeOK
<1>10. ASSUME NEW g \in Generators, FindReleased(g) PROVE InboundTypeOK'
  <2>1. todo' = [todo EXCEPT ![g] = ReleasedOrders] /\ ReleasedOrders \subseteq References
    BY <1>10 DEF FindReleased, ReleasedOrders
  <2>2. todo' \in [Sessions -> SUBSET (Copies \cup References)]
    BY <2>1 DEF InboundTypeOK
  <2>3. /\ \A i \in InboundLoops : todo'[i] \subseteq Copies
        /\ \A h \in Generators : todo'[h] \subseteq References
    BY <1>0, <2>1 DEF InboundTypeOK
  <2> QED BY <1>10, <2>2, <2>3 DEF FindReleased, InboundTypeOK
<1>11. ASSUME NEW g \in Generators, CommitPieces(g) \/ LosePieces(g) PROVE InboundTypeOK'
  <2>1. GeneratorAbort(g) /\ Discard(g) /\ g \in Sessions
    BY <1>0, <1>11 DEF CommitPieces, LosePieces, GeneratorAbort
  <2>2. serial' \in [Generators -> [References -> Nat]]
    BY <2>1 DEF GeneratorAbort, NoSerial, InboundTypeOK
  <2>3. /\ order' \in [References -> {"none", "released", "started"}]
        /\ pieces' \in [References -> SUBSET Serials]
    BY <1>11, <2>1, PublishTyped DEF CommitPieces, LosePieces, InboundTypeOK
  <2> QED BY <1>11, <2>1, <2>2, <2>3, DiscardTyped DEF CommitPieces, LosePieces, GeneratorAbort, InboundTypeOK
<1>12. ASSUME NEW g \in Generators, NEW q \in References, CountPieces(g, q) PROVE InboundTypeOK'
  <2>1. NextSerial(g, q) \in Nat
    <3>1. Segment(pieces[q] \cup newPieces[g][q])
      BY <1>0 DEF PiecesInv, PieceInv, Numbered
    <3>2. Cardinality(pieces[q] \cup newPieces[g][q]) \in Nat
      BY <3>1, Segments
    <3> QED BY <3>2 DEF NextSerial
  <2>2. serial' \in [Generators -> [References -> Nat]]
    BY <1>12, <2>1 DEF CountPieces, InboundTypeOK
  <2> QED BY <1>12, <2>2 DEF CountPieces, InboundTypeOK
<1>13. ASSUME NEW g \in Generators, NEW q \in References, InsertPiece(g, q) PROVE InboundTypeOK'
  <2>1. serial[g][q] \in Serials
    BY <1>13 DEF InsertPiece, InboundTypeOK, Serials
  <2>2. newPieces' \in [Sessions -> [References -> SUBSET Serials]]
    BY <1>13, <2>1 DEF InsertPiece, InboundTypeOK
  <2>3. /\ newOrder' \in [Sessions -> [References -> {"none", "released", "started"}]]
        /\ serial' \in [Generators -> [References -> Nat]]
    BY <1>13 DEF InsertPiece, InboundTypeOK, NoSerial
  <2>4. /\ todo' \in [Sessions -> SUBSET (Copies \cup References)]
        /\ \A t \in Sessions : todo'[t] \subseteq todo[t]
    BY <1>13 DEF InsertPiece, InboundTypeOK
  <2>5. /\ \A i \in InboundLoops : todo'[i] \subseteq Copies
        /\ \A h \in Generators : todo'[h] \subseteq References
    BY <1>0, <2>4 DEF InboundTypeOK
  <2> QED BY <1>13, <2>2, <2>3, <2>4, <2>5 DEF InsertPiece, InboundTypeOK
<1>14. ASSUME NEW g \in Generators, NEW q \in References, SerialTaken(g, q) PROVE InboundTypeOK'
  <2>1. CASE GeneratorAbort(g)
    <3>1. Discard(g) /\ g \in Sessions
      BY <1>0, <2>1 DEF GeneratorAbort
    <3>2. serial' \in [Generators -> [References -> Nat]]
      BY <2>1 DEF GeneratorAbort, NoSerial, InboundTypeOK
    <3> QED BY <1>14, <2>1, <3>1, <3>2, DiscardTyped DEF SerialTaken, GeneratorAbort, InboundTypeOK
  <2>2. CASE /\ todo' = [todo EXCEPT ![g] = @ \ {q}] /\ serial' = [serial EXCEPT ![g] = NoSerial]
             /\ UNCHANGED <<read, result, looked, newOrder, newPieces>>
    <3>1. /\ todo' \in [Sessions -> SUBSET (Copies \cup References)]
          /\ \A t \in Sessions : todo'[t] \subseteq todo[t]
      BY <2>2 DEF InboundTypeOK
    <3>2. serial' \in [Generators -> [References -> Nat]]
      BY <2>2 DEF NoSerial, InboundTypeOK
    <3>3. /\ \A i \in InboundLoops : todo'[i] \subseteq Copies
          /\ \A h \in Generators : todo'[h] \subseteq References
      BY <1>0, <3>1 DEF InboundTypeOK
    <3> QED BY <1>14, <2>2, <3>1, <3>2, <3>3 DEF SerialTaken, InboundTypeOK
  <2> QED BY <1>14, <2>1, <2>2 DEF SerialTaken
<1>15. CASE UNCHANGED inboundVars
  BY <1>15 DEF inboundVars, InboundTypeOK
<1> QED
  BY <1>1, <1>2, <1>3, <1>4, <1>5, <1>6, <1>7, <1>8, <1>9, <1>10, <1>11, <1>12, <1>13, <1>14, <1>15 DEF InboundNext

-----------------------------------------------------------------------------
\* Orders stay, and copies keep their reference.
Growing ==
    /\ \A r \in References : order[r] # "none" => order'[r] # "none"
    /\ \A c \in Copies : copyOf[c] \in References => copyOf'[c] = copyOf[c]

\* What a loop has read and found out stays true while it waits.
LEMMA LoopWaits ==
    ASSUME NEW i \in InboundLoops, LoopSound(i), Growing, todo'[i] = todo[i], read'[i] = read[i],
           result'[i] = result[i], newOrder'[i] = newOrder[i]
    PROVE  LoopSound(i)'
<1> SUFFICES ASSUME NEW c \in Copies
             PROVE  /\ c \in todo[i] \/ result[i][c] # "none" => copyOf'[c] \in References
                    /\ read[i][c] < InboundAttempts
                    /\ result[i][c] = "retry" => read[i][c] + 1 < InboundAttempts
                    /\ result[i][c] # "pending"
                    /\ result[i][c] = "processed" => order'[copyOf'[c]] # "none" \/ newOrder[i][copyOf'[c]] # "none"
  BY DEF LoopSound, InSession
<1>1. /\ c \in todo[i] \/ result[i][c] # "none" => copyOf[c] \in References /\ copyOf'[c] = copyOf[c]
      /\ result[i][c] = "processed" => order[copyOf[c]] # "none" \/ newOrder[i][copyOf[c]] # "none"
  BY DEF LoopSound, InSession, Growing
<1>2. /\ read[i][c] < InboundAttempts
      /\ result[i][c] = "retry" => read[i][c] + 1 < InboundAttempts
      /\ result[i][c] # "pending"
  BY DEF LoopSound
<1>3. result[i][c] = "processed" => order'[copyOf'[c]] # "none" \/ newOrder[i][copyOf'[c]] # "none"
  BY <1>1 DEF Growing
<1> QED BY <1>1, <1>2, <1>3

LEMMA LoopEnds ==
    ASSUME NEW i \in InboundLoops, InboundTypeOK, InboundAbort(i)
    PROVE  /\ LoopSound(i)' /\ i \notin looked'
           /\ \A j \in InboundLoops \ {i} : /\ todo'[j] = todo[j] /\ read'[j] = read[j] /\ result'[j] = result[j]
                                            /\ newOrder'[j] = newOrder[j]
<1>1. /\ todo'[i] = {} /\ read'[i] = [c \in Copies |-> 0] /\ result'[i] = [c \in Copies |-> "none"]
      /\ i \notin looked'
  BY DEF InboundAbort, Discard, InboundTypeOK, Sessions
<1>2. LoopSound(i)'
  BY <1>1, ErpInboundAssumption DEF LoopSound
<1>3. \A j \in InboundLoops \ {i} : /\ todo'[j] = todo[j] /\ read'[j] = read[j] /\ result'[j] = result[j]
                                    /\ newOrder'[j] = newOrder[j]
  BY DEF InboundAbort, Discard, InboundTypeOK, Sessions
<1> QED BY <1>1, <1>2, <1>3

\* A copy whose row is not written.
LEMMA CopyWaits ==
    ASSUME NEW c \in Copies, CopySound(c), Growing, copyStatus'[c] = copyStatus[c], tried'[c] = tried[c]
    PROVE  CopySound(c)'
BY DEF CopySound, Growing

LEMMA PublishGrows == ASSUME NEW s \in Sessions, Publish(s) PROVE \A r \in References : order[r] # "none" => order'[r] # "none"
BY DEF Publish

\* Steps of the generators leave the inbound loops and the queue alone.
LEMMA GeneratorsApart ==
    ASSUME QueueInv, Growing, copyStatus' = copyStatus, tried' = tried, read' = read, result' = result,
           looked' = looked, looked \subseteq InboundLoops,
           \A i \in InboundLoops : todo'[i] = todo[i] /\ newOrder'[i] = newOrder[i]
    PROVE  QueueInv'
<1>1. \A i \in InboundLoops : LoopSound(i)'
  BY LoopWaits DEF QueueInv
<1>2. \A c \in Copies : CopySound(c)'
  BY CopyWaits DEF QueueInv
<1> QED BY <1>1, <1>2 DEF QueueInv

\* A loop is done with the copy in hand.
LEMMA SettledSoundly ==
    ASSUME InboundTypeOK, NEW i \in InboundLoops, LoopSound(i), NEW c \in todo[i], c \in Copies,
           NEW v \in {"processed", "failed", "retry"}, Settle(i, c, v), Growing, read' = read,
           v = "retry" => read[i][c] + 1 < InboundAttempts,
           v = "processed" => order'[copyOf[c]] # "none" \/ newOrder'[i][copyOf[c]] # "none",
           \A r \in References : newOrder[i][r] # "none" => newOrder'[i][r] # "none"
    PROVE  LoopSound(i)'
<1>1. /\ todo'[i] = todo[i] \ {c} /\ result'[i][c] = v
      /\ \A d \in Copies \ {c} : result'[i][d] = result[i][d]
  BY DEF Settle, InboundTypeOK, Sessions
<1>2. ASSUME NEW d \in Copies
      PROVE  /\ d \in todo'[i] \/ result'[i][d] # "none" => copyOf'[d] \in References
             /\ read'[i][d] < InboundAttempts
             /\ result'[i][d] = "retry" => read'[i][d] + 1 < InboundAttempts
             /\ result'[i][d] # "pending"
             /\ result'[i][d] = "processed" => order'[copyOf'[d]] # "none" \/ newOrder'[i][copyOf'[d]] # "none"
  <2>1. d \in todo[i] \/ result[i][d] # "none" => copyOf[d] \in References /\ copyOf'[d] = copyOf[d]
    BY DEF LoopSound, Growing
  <2>2. CASE d = c
    BY <1>1, <2>1, <2>2 DEF LoopSound
  <2>3. CASE d # c
    <3>1. result[i][d] = "processed" => order[copyOf[d]] # "none" \/ newOrder[i][copyOf[d]] # "none"
      BY DEF LoopSound, InSession
    <3>2. result'[i][d] = "processed" => order'[copyOf'[d]] # "none" \/ newOrder'[i][copyOf'[d]] # "none"
      BY <1>1, <2>1, <2>3, <3>1 DEF Growing
    <3> QED BY <1>1, <2>1, <2>3, <3>2 DEF LoopSound
  <2> QED BY <2>2, <2>3
<1> QED BY <1>2 DEF LoopSound, InSession

LEMMA QueueKept == InboundTypeOK /\ QueueInv /\ [InboundNext]_inboundVars => QueueInv'
<1> SUFFICES ASSUME InboundTypeOK, QueueInv, [InboundNext]_inboundVars PROVE QueueInv'
  OBVIOUS
<1> USE DEF queueVars, orderVars, loopVars
<1>0. /\ \A i \in InboundLoops : i \in Sessions /\ i \notin Generators /\ LoopSound(i)
      /\ \A g \in Generators : g \in Sessions /\ g \notin InboundLoops
      /\ \A c \in Copies : CopySound(c)
      /\ looked \subseteq InboundLoops /\ \A i \in looked : todo[i] # {}
  BY ErpInboundAssumption DEF Sessions, QueueInv, InboundTypeOK
<1>1. ASSUME NEW y \in Syncs, NEW q \in References, SyncLook(y, q) PROVE QueueInv'
  BY <1>0, <1>1, GeneratorsApart DEF SyncLook, Growing
<1>2. ASSUME NEW y \in Syncs, SyncInsert(y) PROVE QueueInv'
  <2>1. Growing
    BY <1>2, ErpInboundAssumption DEF SyncInsert, NextCopy, Growing, InboundTypeOK
  <2> QED BY <1>0, <1>2, <2>1, GeneratorsApart DEF SyncInsert
<1>3. ASSUME NEW c \in Copies, RetryCopy(c) PROVE QueueInv'
  <2>1. Growing /\ UNCHANGED loopVars /\ copyOf' = copyOf
    BY <1>3 DEF RetryCopy, Growing
  <2>2. \A i \in InboundLoops : LoopSound(i)'
    BY <1>0, <2>1, LoopWaits
  <2>3. ASSUME NEW d \in Copies PROVE CopySound(d)'
    <3>1. CASE d = c
      <4>1. copyStatus'[d] = "pending" /\ tried'[d] = 0
        BY <1>3, <3>1 DEF RetryCopy, InboundTypeOK
      <4> QED BY <4>1, ErpInboundAssumption DEF CopySound
    <3>2. CASE d # c
      <4>1. copyStatus'[d] = copyStatus[d] /\ tried'[d] = tried[d]
        BY <1>3, <3>2 DEF RetryCopy, InboundTypeOK
      <4> QED BY <1>0, <2>1, <4>1, CopyWaits
    <3> QED BY <3>1, <3>2
  <2> QED BY <1>0, <2>1, <2>2, <2>3 DEF QueueInv
<1>4. ASSUME NEW q \in References, OrderDeleted(q) PROVE QueueInv'
  BY <1>0, <1>4, GeneratorsApart DEF OrderDeleted, Growing
<1>5. ASSUME NEW i \in InboundLoops, Poll(i) PROVE QueueInv'
  <2>1. PICK elapsed \in SUBSET CopiesWith("retry") :
          LET due == CopiesWith("pending") \cup elapsed
              taken == {c \in due : Cardinality({k \in due : k < c}) < InboundBatch} IN
          /\ todo' = [todo EXCEPT ![i] = taken]
          /\ read' = [read EXCEPT ![i] = [c \in Copies |-> IF c \in taken THEN tried[c] ELSE 0]]
          /\ taken # {}
    BY <1>5 DEF Poll
  <2> DEFINE due == CopiesWith("pending") \cup elapsed
             taken == {c \in due : Cardinality({k \in due : k < c}) < InboundBatch}
  <2>2. taken \subseteq CopiesWith("pending") \cup CopiesWith("retry") /\ taken # {}
    BY <2>1
  <2>3. /\ todo' = [todo EXCEPT ![i] = taken]
        /\ read' = [read EXCEPT ![i] = [c \in Copies |-> IF c \in taken THEN tried[c] ELSE 0]]
    BY <2>1
  <2> HIDE DEF due, taken
  <2>4. /\ todo'[i] = taken /\ \A c \in Copies : read'[i][c] = IF c \in taken THEN tried[c] ELSE 0
        /\ \A j \in InboundLoops \ {i} : todo'[j] = todo[j] /\ read'[j] = read[j]
    BY <1>0, <2>3 DEF InboundTypeOK
  <2>5. /\ result' = result /\ newOrder' = newOrder /\ looked' = looked /\ copyOf' = copyOf
        /\ copyStatus' = copyStatus /\ tried' = tried /\ order' = order
        /\ \A c \in Copies : result[i][c] = "none"
    BY <1>5 DEF Poll, InboundIdle
  <2>6. LoopSound(i)'
    <3>1. \A c \in taken : c \in Copies /\ copyOf[c] \in References /\ copyStatus[c] \in OpenCopy
      BY <2>2 DEF CopiesWith, OpenCopy, InboundTypeOK
    <3>2. \A c \in Copies : read'[i][c] < InboundAttempts
      BY <1>0, <2>4, <3>1, ErpInboundAssumption DEF CopySound
    <3> QED BY <2>4, <2>5, <3>1, <3>2 DEF LoopSound
  <2>7. Growing
    BY <2>5 DEF Growing
  <2>8. \A j \in InboundLoops : LoopSound(j)'
    BY <1>0, <2>4, <2>5, <2>6, <2>7, LoopWaits
  <2>9. \A c \in Copies : CopySound(c)'
    BY <1>0, <2>5, <2>7, CopyWaits
  <2>10. \A j \in looked' : todo'[j] # {}
    BY <1>0, <2>2, <2>4, <2>5
  <2> QED BY <2>8, <2>9, <2>10 DEF QueueInv
<1>6. ASSUME NEW i \in InboundLoops, LookUp(i) PROVE QueueInv'
  <2> DEFINE c == Min(todo[i])
  <2>1. c \in todo[i] /\ c \in Copies /\ i \notin looked
    BY <1>6, FirstOfBatch DEF LookUp
  <2>2. /\ Growing /\ read' = read /\ newOrder' = newOrder /\ order' = order
        /\ copyStatus' = copyStatus /\ tried' = tried
    BY <1>6 DEF LookUp, Growing
  <2>3. \A d \in Copies : CopySound(d)'
    BY <1>0, <2>2, CopyWaits
  <2>4. CASE UNCHANGED <<todo, result>> /\ looked' = looked \cup {i}
    <3>1. \A j \in InboundLoops : LoopSound(j)'
      BY <1>0, <2>2, <2>4, LoopWaits
    <3>2. \A j \in looked' : todo'[j] # {}
      BY <1>0, <2>1, <2>4
    <3> QED BY <2>3, <3>1, <3>2 DEF QueueInv
  <2>5. ASSUME NEW v \in {"processed", "failed", "retry"}, Settle(i, c, v), looked' = looked,
               v = "retry" => read[i][c] + 1 < InboundAttempts,
               v = "processed" => InSession(i, copyOf[c])
        PROVE  QueueInv'
    <3>1. LoopSound(i)'
      <4> HIDE DEF c
      <4> QED BY <1>0, <2>1, <2>2, <2>5, SettledSoundly DEF InSession
    <3>2. \A j \in InboundLoops \ {i} : todo'[j] = todo[j] /\ result'[j] = result[j]
      <4> HIDE DEF c
      <4> QED BY <1>0, <2>5 DEF Settle, InboundTypeOK
    <3>3. \A j \in InboundLoops : LoopSound(j)'
      BY <1>0, <2>2, <3>1, <3>2, LoopWaits
    <3>4. \A j \in looked' : todo'[j] # {}
      BY <1>0, <2>1, <2>5, <3>2
    <3> QED BY <2>3, <3>3, <3>4 DEF QueueInv
  <2>6. Failed(i, c) \in {"failed", "retry"} /\ (Failed(i, c) = "retry" => read[i][c] + 1 < InboundAttempts)
    <3>1. read[i][c] \in Nat
      BY <2>1, ErpInboundAssumption DEF InboundTypeOK
    <3> QED BY <3>1, ErpInboundAssumption DEF Failed
  <2>7. \/ UNCHANGED <<todo, result>> /\ looked' = looked \cup {i}
        \/ Settle(i, c, "processed") /\ InSession(i, copyOf[c]) /\ looked' = looked
        \/ Settle(i, c, Failed(i, c)) /\ looked' = looked
    BY <1>6 DEF LookUp, ActiveOrder
  <2> HIDE DEF c
  <2> QED BY <2>4, <2>5, <2>6, <2>7
<1>7. ASSUME NEW i \in InboundLoops, NumberTaken(i) \/ LoseBatch(i) PROVE QueueInv'
  <2>1. /\ InboundAbort(i) /\ Growing /\ copyStatus' = copyStatus /\ tried' = tried
        /\ looked' = looked \ {i}
    BY <1>7 DEF NumberTaken, LoseBatch, InboundAbort, Growing
  <2>2. \A j \in InboundLoops : LoopSound(j)'
    BY <1>0, <2>1, LoopEnds, LoopWaits
  <2>3. \A d \in Copies : CopySound(d)'
    BY <1>0, <2>1, CopyWaits
  <2>4. \A j \in looked' : todo'[j] # {}
    BY <1>0, <2>1, LoopEnds
  <2> QED BY <2>2, <2>3, <2>4 DEF QueueInv
<1>8. ASSUME NEW i \in InboundLoops, CommitBatch(i) PROVE QueueInv'
  <2>1. InboundAbort(i) /\ Publish(i) /\ copyOf' = copyOf /\ looked' = looked \ {i}
    BY <1>8 DEF CommitBatch, InboundAbort
  <2>2. Growing
    BY <1>0, <2>1, PublishGrows DEF Growing
  <2>3. \A j \in InboundLoops : LoopSound(j)'
    BY <1>0, <2>1, <2>2, LoopEnds, LoopWaits
  <2>4. ASSUME NEW c \in Copies PROVE CopySound(c)'
    <3>1. CASE result[i][c] = "none"
      <4>1. copyStatus'[c] = copyStatus[c] /\ tried'[c] = tried[c]
        BY <1>8, <3>1 DEF CommitBatch
      <4> QED BY <1>0, <2>2, <4>1, CopyWaits
    <3>2. CASE result[i][c] # "none"
      <4>1. copyStatus'[c] = result[i][c] /\ tried'[c] = read[i][c] + 1
        BY <1>8, <3>2 DEF CommitBatch
      <4>2. /\ copyOf[c] \in References /\ result[i][c] # "pending"
            /\ result[i][c] = "retry" => read[i][c] + 1 < InboundAttempts
            /\ result[i][c] = "processed" => order[copyOf[c]] # "none" \/ newOrder[i][copyOf[c]] # "none"
        BY <1>0, <3>2 DEF LoopSound, InSession
      <4>3. result[i][c] = "processed" => order'[copyOf[c]] # "none"
        BY <2>1, <4>2 DEF Publish
      <4> QED BY <2>1, <4>1, <4>2, <4>3 DEF CopySound, OpenCopy
    <3> QED BY <3>1, <3>2
  <2>5. \A j \in looked' : todo'[j] # {}
    BY <1>0, <2>1, LoopEnds
  <2> QED BY <2>3, <2>4, <2>5 DEF QueueInv
<1>9. ASSUME NEW i \in InboundLoops, NEW n \in 0..Pieces, MakeOrder(i, n) PROVE QueueInv'
  <2> DEFINE c == Min(todo[i])
             v == IF n = Pieces THEN "processed" ELSE Failed(i, c)
  <2>1. c \in todo[i] /\ c \in Copies /\ copyOf[c] \in References /\ i \in looked
    BY <1>0, <1>9, FirstOfBatch DEF MakeOrder, LoopSound
  <2>2. /\ Growing /\ read' = read /\ copyStatus' = copyStatus /\ tried' = tried /\ order' = order
        /\ Settle(i, c, v) /\ looked' = looked \ {i}
        /\ newOrder' = [newOrder EXCEPT ![i][copyOf[c]] = IF n = 0 THEN "released" ELSE "started"]
    BY <1>9 DEF MakeOrder, Growing
  <2>3. \A d \in Copies : CopySound(d)'
    BY <1>0, <2>2, CopyWaits
  <2>4. v \in {"processed", "failed", "retry"} /\ (v = "retry" => read[i][c] + 1 < InboundAttempts)
    <3>1. read[i][c] \in Nat
      BY <2>1, ErpInboundAssumption DEF InboundTypeOK
    <3> QED BY <3>1, ErpInboundAssumption DEF Failed
  <2> HIDE DEF c, v
  <2>5. /\ newOrder'[i][copyOf[c]] # "none"
        /\ \A r \in References : newOrder[i][r] # "none" => newOrder'[i][r] # "none"
        /\ \A j \in InboundLoops \ {i} : newOrder'[j] = newOrder[j]
    BY <1>0, <2>1, <2>2 DEF InboundTypeOK
  <2>6. LoopSound(i)'
    BY <1>0, <2>1, <2>2, <2>4, <2>5, SettledSoundly
  <2>7. \A j \in InboundLoops \ {i} : todo'[j] = todo[j] /\ result'[j] = result[j]
    BY <1>0, <2>2 DEF Settle, InboundTypeOK
  <2>8. \A j \in InboundLoops : LoopSound(j)'
    BY <1>0, <2>2, <2>5, <2>6, <2>7, LoopWaits
  <2>9. \A j \in looked' : todo'[j] # {}
    BY <1>0, <2>2, <2>7
  <2> QED BY <2>3, <2>8, <2>9 DEF QueueInv
<1>10. ASSUME NEW g \in Generators, FindReleased(g) PROVE QueueInv'
  <2>1. \A i \in InboundLoops : todo'[i] = todo[i]
    BY <1>0, <1>10 DEF FindReleased, InboundTypeOK
  <2> QED BY <1>0, <1>10, <2>1, GeneratorsApart DEF FindReleased, Growing
<1>11. ASSUME NEW g \in Generators, CommitPieces(g) \/ LosePieces(g) PROVE QueueInv'
  <2>1. /\ GeneratorAbort(g) /\ Discard(g) /\ copyOf' = copyOf /\ copyStatus' = copyStatus /\ tried' = tried
        /\ read' = read /\ result' = result /\ looked' = looked
    BY <1>11 DEF CommitPieces, LosePieces, GeneratorAbort
  <2>2. Growing
    BY <1>0, <1>11, <2>1, PublishGrows DEF CommitPieces, LosePieces, Growing
  <2>3. \A i \in InboundLoops : todo'[i] = todo[i] /\ newOrder'[i] = newOrder[i]
    BY <1>0, <2>1 DEF Discard, InboundTypeOK
  <2> QED BY <1>0, <2>1, <2>2, <2>3, GeneratorsApart
<1>12. ASSUME NEW g \in Generators, NEW q \in References, CountPieces(g, q) PROVE QueueInv'
  BY <1>0, <1>12, GeneratorsApart DEF CountPieces, Growing
<1>13. ASSUME NEW g \in Generators, NEW q \in References, InsertPiece(g, q) PROVE QueueInv'
  <2>1. \A i \in InboundLoops : todo'[i] = todo[i] /\ newOrder'[i] = newOrder[i]
    BY <1>0, <1>13 DEF InsertPiece, InboundTypeOK
  <2> QED BY <1>0, <1>13, <2>1, GeneratorsApart DEF InsertPiece, Growing
<1>14. ASSUME NEW g \in Generators, NEW q \in References, SerialTaken(g, q) PROVE QueueInv'
  <2>1. \A i \in InboundLoops : todo'[i] = todo[i] /\ newOrder'[i] = newOrder[i]
    BY <1>0, <1>14 DEF SerialTaken, GeneratorAbort, Discard, InboundTypeOK
  <2>2. read' = read /\ result' = result /\ looked' = looked
    BY <1>14 DEF SerialTaken, GeneratorAbort
  <2> QED BY <1>0, <1>14, <2>1, <2>2, GeneratorsApart DEF SerialTaken, Growing
<1>15. CASE UNCHANGED inboundVars
  BY <1>0, <1>15, GeneratorsApart DEF inboundVars, Growing
<1> QED
  BY <1>1, <1>2, <1>3, <1>4, <1>5, <1>6, <1>7, <1>8, <1>9, <1>10, <1>11, <1>12, <1>13, <1>14, <1>15 DEF InboundNext

-----------------------------------------------------------------------------
\* A step that opens no copy of a reference and lets no sync look for it.
LEMMA NothingOpened ==
    ASSUME CopiesInv, raced \subseteq raced',
           \A r \in References \ raced' : OpenCopies(r)' \subseteq OpenCopies(r),
           \A r \in References \ raced', y \in Syncs : sync'[y] = r => sync[y] = r
    PROVE  CopiesInv'
<1> SUFFICES ASSUME NEW r \in References \ raced'
             PROVE  /\ \A c, d \in OpenCopies(r)' : c = d
                    /\ \A y, z \in Syncs : sync'[y] = r /\ sync'[z] = r => y = z
                    /\ \A y \in Syncs : sync'[y] = r => OpenCopies(r)' = {}
  BY DEF CopiesInv
<1>1. /\ \A c, d \in OpenCopies(r) : c = d
      /\ \A y, z \in Syncs : sync[y] = r /\ sync[z] = r => y = z
      /\ \A y \in Syncs : sync[y] = r => OpenCopies(r) = {}
  BY DEF CopiesInv
<1>2. OpenCopies(r)' \subseteq OpenCopies(r) /\ \A y \in Syncs : sync'[y] = r => sync[y] = r
  OBVIOUS
<1> QED BY <1>1, <1>2

LEMMA CopiesKept == InboundTypeOK /\ CopiesInv /\ [InboundNext]_inboundVars => CopiesInv'
<1> SUFFICES ASSUME InboundTypeOK, CopiesInv, [InboundNext]_inboundVars PROVE CopiesInv'
  OBVIOUS
<1> USE DEF queueVars
<1>1. ASSUME copyOf' = copyOf, copyStatus' = copyStatus, sync' = sync, raced' = raced PROVE CopiesInv'
  BY <1>1, NothingOpened DEF OpenCopies
<1>2. ASSUME NEW y \in Syncs, NEW q \in References, SyncLook(y, q) PROVE CopiesInv'
  <2>1. /\ OpenCopies(q) = {} /\ copyOf' = copyOf /\ copyStatus' = copyStatus /\ raced \subseteq raced'
        /\ q \notin raced' => \A z \in Syncs : sync[z] # q
        /\ sync'[y] = q /\ \A z \in Syncs \ {y} : sync'[z] = sync[z]
    BY <1>2 DEF SyncLook, InboundTypeOK
  <2> SUFFICES ASSUME NEW r \in References \ raced'
               PROVE  /\ \A c, d \in OpenCopies(r)' : c = d
                      /\ \A x, z \in Syncs : sync'[x] = r /\ sync'[z] = r => x = z
                      /\ \A z \in Syncs : sync'[z] = r => OpenCopies(r)' = {}
    BY DEF CopiesInv
  <2>2. OpenCopies(r)' = OpenCopies(r)
    BY <2>1 DEF OpenCopies
  <2>3. /\ \A c, d \in OpenCopies(r) : c = d
        /\ \A x, z \in Syncs : sync[x] = r /\ sync[z] = r => x = z
        /\ \A z \in Syncs : sync[z] = r => OpenCopies(r) = {}
    BY <2>1 DEF CopiesInv
  <2>4. CASE r = q
    BY <2>1, <2>2, <2>4
  <2>5. CASE r # q
    BY <2>1, <2>2, <2>3, <2>5
  <2> QED BY <2>4, <2>5
<1>3. ASSUME NEW y \in Syncs, SyncInsert(y) PROVE CopiesInv'
  <2>1. PICK c \in Copies : copyOf[c] = Nothing /\ copyOf' = [copyOf EXCEPT ![c] = sync[y]]
    BY <1>3 DEF SyncInsert, NextCopy
  <2>2. /\ sync[y] \in References /\ sync'[y] = Nothing /\ \A z \in Syncs \ {y} : sync'[z] = sync[z]
        /\ copyStatus' = copyStatus /\ raced' = raced
    BY <1>3 DEF SyncInsert, InboundTypeOK
  <2>3. copyOf'[c] = sync[y] /\ \A d \in Copies \ {c} : copyOf'[d] = copyOf[d]
    BY <2>1 DEF InboundTypeOK
  <2> SUFFICES ASSUME NEW r \in References \ raced
               PROVE  /\ \A d, e \in OpenCopies(r)' : d = e
                      /\ \A x, z \in Syncs : sync'[x] = r /\ sync'[z] = r => x = z
                      /\ \A z \in Syncs : sync'[z] = r => OpenCopies(r)' = {}
    BY <2>2 DEF CopiesInv
  <2>4. /\ \A d, e \in OpenCopies(r) : d = e
        /\ \A x, z \in Syncs : sync[x] = r /\ sync[z] = r => x = z
        /\ \A z \in Syncs : sync[z] = r => OpenCopies(r) = {}
    BY DEF CopiesInv
  <2>5. CASE r = sync[y]
    <3>1. OpenCopies(r)' \subseteq {c}
      BY <2>2, <2>3, <2>4, <2>5 DEF OpenCopies
    <3>2. \A z \in Syncs : sync'[z] # r
      BY <2>2, <2>4, <2>5, ErpInboundAssumption
    <3> QED BY <3>1, <3>2
  <2>6. CASE r # sync[y]
    <3>1. OpenCopies(r)' = OpenCopies(r)
      BY <2>1, <2>2, <2>3, <2>6, ErpInboundAssumption DEF OpenCopies
    <3>2. \A z \in Syncs : sync'[z] = r => sync[z] = r
      BY <2>2, ErpInboundAssumption
    <3> QED BY <2>4, <3>1, <3>2
  <2> QED BY <2>5, <2>6
<1>4. ASSUME NEW c \in Copies, RetryCopy(c) PROVE CopiesInv'
  <2>1. /\ raced' = raced \cup {copyOf[c]} /\ sync' = sync /\ copyOf' = copyOf
        /\ \A d \in Copies \ {c} : copyStatus'[d] = copyStatus[d]
    BY <1>4 DEF RetryCopy, InboundTypeOK
  <2>2. \A r \in References \ raced' : OpenCopies(r)' \subseteq OpenCopies(r)
    BY <2>1 DEF OpenCopies
  <2> QED BY <2>1, <2>2, NothingOpened
<1>5. ASSUME NEW i \in InboundLoops, CommitBatch(i) PROVE CopiesInv'
  <2>1. /\ copyOf' = copyOf /\ sync' = sync /\ raced \subseteq raced'
        /\ \A c \in Copies : copyStatus'[c] # copyStatus[c] =>
              result[i][c] # "none" /\ copyStatus'[c] = result[i][c]
        /\ \A c \in Copies : result[i][c] # "none" /\ copyStatus[c] \notin OpenCopy /\ result[i][c] \in OpenCopy
              => copyOf[c] \in raced'
    BY <1>5 DEF CommitBatch
  <2>2. \A r \in References \ raced' : OpenCopies(r)' \subseteq OpenCopies(r)
    BY <2>1 DEF OpenCopies
  <2> QED BY <2>1, <2>2, NothingOpened
<1>6. ASSUME NEW i \in InboundLoops,
             \/ Poll(i) \/ LookUp(i) \/ NumberTaken(i) \/ LoseBatch(i)
             \/ \E n \in 0..Pieces : MakeOrder(i, n)
      PROVE  CopiesInv'
  BY <1>1, <1>6 DEF Poll, LookUp, NumberTaken, LoseBatch, MakeOrder
<1>7. ASSUME NEW g \in Generators, NEW q \in References,
             CountPieces(g, q) \/ InsertPiece(g, q) \/ SerialTaken(g, q)
      PROVE  CopiesInv'
  BY <1>1, <1>7 DEF CountPieces, InsertPiece, SerialTaken
<1>8. ASSUME NEW g \in Generators, FindReleased(g) \/ CommitPieces(g) \/ LosePieces(g) PROVE CopiesInv'
  BY <1>1, <1>8 DEF FindReleased, CommitPieces, LosePieces
<1>9. ASSUME NEW q \in References, OrderDeleted(q) PROVE CopiesInv'
  BY <1>1, <1>9 DEF OrderDeleted
<1>10. CASE UNCHANGED inboundVars
  BY <1>1, <1>10 DEF inboundVars
<1> QED
  BY <1>2, <1>3, <1>4, <1>5, <1>6, <1>7, <1>8, <1>9, <1>10 DEF InboundNext

LEMMA InboundInitHolds == InboundInit => InboundInv
<1> SUFFICES ASSUME InboundInit PROVE InboundInv
  OBVIOUS
<1> USE ErpInboundAssumption DEF InboundInit, Unwritten, NoPieces, NoSerial
<1>1. InboundTypeOK
  BY DEF InboundTypeOK, CopyStatuses, OpenCopy, Sessions
<1>2. QueueInv
  <2>1. /\ 0 < InboundAttempts /\ looked = {}
        /\ \A i \in InboundLoops : todo[i] = {} /\ \A c \in Copies : read[i][c] = 0 /\ result[i][c] = "none"
        /\ \A c \in Copies : copyStatus[c] = "pending" /\ tried[c] = 0
    BY DEF Sessions
  <2>2. \A i \in InboundLoops : LoopSound(i)
    BY <2>1 DEF LoopSound
  <2>3. \A c \in Copies : CopySound(c)
    BY <2>1 DEF CopySound
  <2> QED BY <2>1, <2>2, <2>3 DEF QueueInv
<1>3. CopiesInv
  BY DEF CopiesInv, OpenCopies
<1>4. ASSUME NEW r \in References PROVE PieceInv(r)
  <2>1. /\ pieces[r] = {} /\ order[r] = "none"
        /\ \A s \in Sessions : newPieces[s][r] = {} /\ newOrder[s][r] = "none" /\ todo[s] = {}
        /\ \A g \in Generators : serial[g][r] = 0
    OBVIOUS
  <2>2. Cardinality({}) = 0 /\ 0 <= Pieces /\ {} \cup {} = {}
    BY FS_EmptySet
  <2>3. Floor(r)
    BY <2>1, <2>2, NoneIsSegment DEF Floor
  <2>4. \A s \in Sessions : Numbered(s, r) /\ ~Held(s, r)
    BY <2>1, <2>2, NoneIsSegment DEF Numbered, Held
  <2>5. \A i \in InboundLoops : LoopWrote(i, r)
    BY <2>1, <2>4 DEF LoopWrote, Sessions
  <2>6. \A g \in Generators : GeneratorWrote(g, r)
    BY <2>1, <2>2, <2>4 DEF GeneratorWrote, Counted, Sessions
  <2> QED BY <2>3, <2>4, <2>5, <2>6 DEF PieceInv
<1> QED BY <1>1, <1>2, <1>3, <1>4 DEF InboundInv, PiecesInv

\* The inbound queue, the orders and the pieces: the invariant of all sessions.
THEOREM InboundIsInductive == InboundSpec => []InboundInv
<1>1. InboundInv /\ [InboundNext]_inboundVars => InboundInv'
  BY InboundTypesKept, QueueKept, CopiesKept, PiecesKept DEF InboundInv
<1> QED BY <1>1, InboundInitHolds, PTL DEF InboundSpec

\* ProcessedMeansOrder: CommitBatch writes the word and the order together, and
\* LookUp says it only of an order it sees.
THEOREM ProcessedHaveOrders == InboundSpec => []ProcessedMeansOrder
<1>1. InboundInv => ProcessedMeansOrder
  BY DEF InboundInv, QueueInv, CopySound, ProcessedMeansOrder
<1> QED BY <1>1, InboundIsInductive, PTL

\* PiecesExplained: whatever sessions overlap, are lost, or work from old reads, an
\* order is short of pieces only after a processor that failed half way, and has
\* too many only after a generator that counted pieces others had committed.
THEOREM PiecesHaveCauses == InboundSpec => []PiecesExplained
<1>1. InboundInv => PiecesExplained
  <2> SUFFICES ASSUME InboundInv, NEW r \in References
               PROVE  /\ order[r] = "started" => Cardinality(pieces[r]) >= Pieces \/ r \in half
                      /\ Cardinality(pieces[r]) > Pieces => r \in late
    BY DEF PiecesExplained, StartedOrdersComplete, SurplusExplained
  <2>1. Floor(r)
    BY DEF InboundInv, PiecesInv, PieceInv
  <2>2. Cardinality(pieces[r]) \in Nat /\ Pieces \in Nat
    BY <2>1, Segments, ErpInboundAssumption DEF Floor
  <2> QED BY <2>1, <2>2 DEF Floor
<1> QED BY <1>1, InboundIsInductive, PTL

\* DoubledCopiesExplained: two open copies of one order come from two syncs, or a
\* retry and a loop, that overlapped.
THEOREM DoubledCopiesHaveCauses == InboundSpec => []DoubledCopiesExplained
<1>1. InboundInv => DoubledCopiesExplained
  <2> SUFFICES ASSUME InboundInv, NEW r \in References, r \notin raced
               PROVE  ~(Cardinality(OpenCopies(r)) > 1)
    BY DEF DoubledCopiesExplained
  <2>1. \A c, d \in OpenCopies(r) : c = d
    BY DEF InboundInv, CopiesInv
  <2>2. CASE OpenCopies(r) = {}
    BY <2>2, FS_EmptySet
  <2>3. CASE OpenCopies(r) # {}
    <3>1. PICK c : OpenCopies(r) = {c}
      BY <2>1, <2>3
    <3> QED BY <3>1, FS_Singleton
  <2> QED BY <2>2, <2>3
<1> QED BY <1>1, InboundIsInductive, PTL

-----------------------------------------------------------------------------
(***************************************************************************)
(* ErpSync.  A sync that reads pages of a list that stays has read the     *)
(* list as far as its offset; what it read is no newer than the ERP, and   *)
(* while it is alone no older than a row has ever been.                    *)
(***************************************************************************)

\* The codes a sync has read.
CodesRead(s) == {pull[s].got[i][1] : i \in DOMAIN pull[s].got}

PullRecord == [at : {"idle", "fetching", "applying", "committed"}, offset : Nat,
               got : Seq(MaterialCodes \X Versions), steady : SUBSET MaterialCodes, moved : BOOLEAN,
               done : SUBSET MaterialCodes, alone : BOOLEAN]

\* What was read is no newer than the ERP, and while the sync is alone no older than a row has been.
ReadingsFresh(s) ==
    \A i \in DOMAIN pull[s].got :
        /\ pull[s].got[i][2] <= erpVersion[pull[s].got[i][1]]
        /\ origin # "simulator" /\ pull[s].alone /\ Busy(s) => newest[pull[s].got[i][1]] <= pull[s].got[i][2]

\* Only one that is alone says so.
AloneIsAlone(s) == Busy(s) /\ pull[s].alone => \A t \in Pulls : Busy(t) => t = s

\* The list as far as it was read, while it stays.
ReadSoFar(s) ==
    pull[s].at = "fetching" =>
        /\ pull[s].done = {}
        /\ origin # "oracle" => pull[s].got = << >> /\ pull[s].offset = 0
        /\ ~pull[s].moved =>
             /\ pull[s].steady = ToSet(erpList)
             /\ pull[s].offset <= Len(erpList)
             /\ \A i \in 1..pull[s].offset : erpList[i] \in CodesRead(s)

\* The excuses of a sync for what it misses.
Excused(s) == pull[s].moved \/ (origin = "sap" /\ Cardinality(pull[s].steady) > PageSize)

ReadAll(s) ==
    /\ pull[s].at = "applying" => /\ pull[s].done \subseteq CodesRead(s)
                                  /\ pull[s].steady \subseteq CodesRead(s) \/ Excused(s)
    /\ pull[s].at = "committed" => pull[s].steady \subseteq pull[s].done \/ Excused(s)

PullInv(s) == ReadingsFresh(s) /\ AloneIsAlone(s) /\ ReadSoFar(s) /\ ReadAll(s)

RowSynced(m) ==
    /\ newest[m] <= erpVersion[m]
    /\ origin # "simulator" /\ m \notin crossed /\ material[m].there => newest[m] <= material[m].version

RowsTyped ==
    /\ origin \in {"sap", "oracle", "simulator"}
    /\ erpList \in Seq(MaterialCodes) /\ erpVersion \in [MaterialCodes -> Versions]
    /\ material \in [MaterialCodes -> MaterialRow] /\ newest \in [MaterialCodes -> Versions]
    /\ crossed \subseteq MaterialCodes

SyncInv ==
    /\ RowsTyped /\ pull \in [Pulls -> PullRecord]
    /\ IsInjective(erpList)
    /\ \A m \in MaterialCodes : RowSynced(m)
    /\ \A s \in Pulls : PullInv(s)

(***************************************************************************)
(* Lists and pages.                                                        *)
(***************************************************************************)

\* An element removed from a sequence.
LEMMA RemovedAt ==
    ASSUME NEW S, NEW list \in Seq(S), NEW i \in 1..Len(list)
    PROVE  /\ RemoveAt(list, i) \in Seq(S)
           /\ Len(RemoveAt(list, i)) = Len(list) - 1
           /\ \A j \in 1..(Len(list) - 1) : RemoveAt(list, i)[j] = IF j < i THEN list[j] ELSE list[j + 1]
<1> DEFINE left == SubSeq(list, 1, i - 1)
           right == SubSeq(list, i + 1, Len(list))
<1>1. Len(list) \in Nat /\ \A j \in 1..Len(list) : list[j] \in S
  BY LenProperties
<1>2. left \in Seq(S) /\ Len(left) = i - 1 /\ \A j \in 1..(i - 1) : left[j] = list[j]
  BY <1>1, SubSeqProperties
<1>3. right \in Seq(S) /\ Len(right) = Len(list) - i /\ \A j \in 1..(Len(list) - i) : right[j] = list[i + j]
  BY <1>1, SubSeqProperties
<1>4. /\ left \o right \in Seq(S) /\ Len(left \o right) = Len(left) + Len(right)
      /\ \A j \in 1..(Len(left) + Len(right)) : (left \o right)[j] = IF j <= Len(left) THEN left[j] ELSE right[j - Len(left)]
  BY <1>2, <1>3, ConcatProperties
<1> HIDE DEF left, right
<1>5. ASSUME NEW j \in 1..(Len(list) - 1)
      PROVE  (left \o right)[j] = IF j < i THEN list[j] ELSE list[j + 1]
  <2>1. CASE j < i
    BY <1>1, <1>2, <1>3, <1>4, <2>1
  <2>2. CASE ~(j < i)
    <3>1. j - (i - 1) \in 1..(Len(list) - i) /\ i + (j - (i - 1)) = j + 1
      BY <1>1, <2>2
    <3>2. right[j - (i - 1)] = list[i + (j - (i - 1))]
      BY <1>3, <3>1
    <3>3. (left \o right)[j] = right[j - Len(left)]
      BY <1>1, <1>2, <1>3, <1>4, <2>2
    <3>4. (left \o right)[j] = right[j - (i - 1)]
      BY <1>2, <3>3
    <3> QED BY <2>2, <3>1, <3>2, <3>4
  <2> QED BY <2>1, <2>2
<1>6. RemoveAt(list, i) = left \o right
  BY DEF RemoveAt, left, right
<1>7. Len(left \o right) = Len(list) - 1
  BY <1>1, <1>2, <1>3, <1>4
<1> QED BY <1>4, <1>5, <1>6, <1>7

\* The sequence new is list with an element more at a place.
WithInserted(S, list, i, e, new) ==
    /\ new \in Seq(S)
    /\ Len(new) = Len(list) + 1
    /\ \A j \in 1..(Len(list) + 1) :
          new[j] = IF j < i THEN list[j] ELSE IF j = i THEN e ELSE list[j - 1]

\* An element inserted into a sequence.
LEMMA InsertedAt ==
    ASSUME NEW S, NEW list \in Seq(S), NEW i \in 1..(Len(list) + 1), NEW e \in S
    PROVE  WithInserted(S, list, i, e, InsertAt(list, i, e))
<1> DEFINE left == SubSeq(list, 1, i - 1)
           right == SubSeq(list, i, Len(list))
           start == left \o <<e>>
<1>1. Len(list) \in Nat /\ \A j \in 1..Len(list) : list[j] \in S
  BY LenProperties
<1>2. left \in Seq(S) /\ Len(left) = i - 1 /\ \A j \in 1..(i - 1) : left[j] = list[j]
  BY <1>1, SubSeqProperties
<1>3. right \in Seq(S) /\ Len(right) = Len(list) - i + 1
      /\ \A j \in 1..(Len(list) - i + 1) : right[j] = list[i + j - 1]
  BY <1>1, SubSeqProperties
<1>4. <<e>> \in Seq(S) /\ Len(<<e>>) = 1 /\ <<e>>[1] = e
  OBVIOUS
<1>5. /\ start \in Seq(S) /\ Len(start) = i
      /\ \A j \in 1..i : start[j] = IF j < i THEN list[j] ELSE e
  <2>1. /\ start \in Seq(S) /\ Len(start) = Len(left) + Len(<<e>>)
        /\ \A j \in 1..(Len(left) + Len(<<e>>)) :
              start[j] = IF j <= Len(left) THEN left[j] ELSE <<e>>[j - Len(left)]
    BY <1>2, <1>4, ConcatProperties
  <2> HIDE DEF left, start
  <2> QED BY <1>2, <1>4, <2>1
<1>6. /\ start \o right \in Seq(S) /\ Len(start \o right) = Len(start) + Len(right)
      /\ \A j \in 1..(Len(start) + Len(right)) :
            (start \o right)[j] = IF j <= Len(start) THEN start[j] ELSE right[j - Len(start)]
  BY <1>3, <1>5, ConcatProperties
<1> HIDE DEF start, right
<1>7. ASSUME NEW j \in 1..(Len(list) + 1)
      PROVE  (start \o right)[j] = IF j < i THEN list[j] ELSE IF j = i THEN e ELSE list[j - 1]
  <2>1. CASE j <= i
    BY <1>1, <1>3, <1>5, <1>6, <2>1
  <2>2. CASE ~(j <= i)
    <3>1. j - i \in 1..(Len(list) - i + 1) /\ i + (j - i) - 1 = j - 1 /\ ~(j < i) /\ j # i
      BY <1>1, <2>2
    <3>2. right[j - i] = list[i + (j - i) - 1]
      BY <1>3, <3>1
    <3>3. (start \o right)[j] = right[j - Len(start)]
      BY <1>1, <1>3, <1>5, <1>6, <2>2
    <3>4. (start \o right)[j] = right[j - i]
      BY <1>5, <3>3
    <3>5. list[i + (j - i) - 1] = list[j - 1]
      BY <3>1
    <3>6. (start \o right)[j] = list[j - 1]
      BY <3>2, <3>4, <3>5
    <3>7. ~(j < i) /\ ~(j = i)
      BY <3>1
    <3> QED BY <3>6, <3>7
  <2> QED BY <2>1, <2>2
<1>8. InsertAt(list, i, e) = start \o right
  BY DEF InsertAt, start, right
<1>9. Len(start \o right) = Len(list) + 1
  BY <1>1, <1>3, <1>5, <1>6
<1>10. WithInserted(S, list, i, e, start \o right)
  BY <1>6, <1>7, <1>9 DEF WithInserted
<1> QED BY <1>8, <1>10

\* A sequence without repetitions has as many elements as places.
LEMMA PlacesOfList ==
    ASSUME NEW S, NEW list \in Seq(S), IsInjective(list)
    PROVE  Cardinality(ToSet(list)) = Len(list)
<1>1. Len(list) \in Nat /\ DOMAIN list = 1..Len(list) /\ list \in [1..Len(list) -> ToSet(list)]
  BY LenProperties DEF ToSet
<1>2. list \in Bijection(1..Len(list), ToSet(list))
  BY <1>1 DEF Bijection, Injection, Surjection, ToSet
<1>3. ExistsBijection(1..Len(list), ToSet(list))
  BY <1>2 DEF ExistsBijection
<1> QED BY <1>1, <1>3, FS_CountingElements

\* The page of the ERP's list at an offset.
LEMMA PageOfList ==
    ASSUME NEW offset \in Nat, erpList \in Seq(MaterialCodes)
    PROVE  /\ Page(offset) \in Seq(MaterialCodes)
           /\ \A i \in 1..Len(Page(offset)) : offset + i <= Len(erpList) /\ Page(offset)[i] = erpList[offset + i]
           /\ offset <= Len(erpList) =>
                 offset + Len(Page(offset)) = IF offset + PageSize < Len(erpList) THEN offset + PageSize ELSE Len(erpList)
<1> DEFINE last == IF offset + PageSize < Len(erpList) THEN offset + PageSize ELSE Len(erpList)
<1>1. Len(erpList) \in Nat /\ \A j \in 1..Len(erpList) : erpList[j] \in MaterialCodes
  BY LenProperties
<1>2. PageSize \in Nat \ {0}
  BY SyncAssumption
<1>3. offset + 1 \in Int /\ last \in Int /\ last <= Len(erpList)
  BY <1>1, <1>2
<1>4. \A j \in (offset + 1)..last : erpList[j] \in MaterialCodes
  BY <1>1, <1>3
<1>5. /\ SubSeq(erpList, offset + 1, last) \in Seq(MaterialCodes)
      /\ Len(SubSeq(erpList, offset + 1, last)) = IF offset + 1 <= last THEN last - (offset + 1) + 1 ELSE 0
      /\ \A i \in 1..(last - (offset + 1) + 1) : SubSeq(erpList, offset + 1, last)[i] = erpList[offset + 1 + i - 1]
  BY <1>3, <1>4, SubSeqProperties
<1>6. Page(offset) = SubSeq(erpList, offset + 1, last)
  BY DEF Page
<1>7. offset <= Len(erpList) => offset <= last
  BY <1>1, <1>2
<1> HIDE DEF last
<1>8. ASSUME NEW i \in 1..Len(Page(offset))
      PROVE  offset + i <= Len(erpList) /\ Page(offset)[i] = erpList[offset + i]
  <2>1. offset + 1 <= last /\ i \in 1..(last - (offset + 1) + 1)
    BY <1>3, <1>5, <1>6
  <2>2. offset + 1 + i - 1 = offset + i /\ offset + i <= last
    BY <1>3, <2>1
  <2> QED BY <1>1, <1>3, <1>5, <1>6, <2>1, <2>2
<1>9. offset <= Len(erpList) => offset + Len(Page(offset)) = last
  BY <1>3, <1>5, <1>6, <1>7
<1> QED BY <1>5, <1>6, <1>8, <1>9 DEF last

(***************************************************************************)
(* What a sync reads.                                                      *)
(***************************************************************************)

\* The next material is one that was read and is not done.
LEMMA NextIsRead ==
    ASSUME NEW s \in Pulls, pull[s].got \in Seq(MaterialCodes \X Versions), Pending(s) # {}
    PROVE  /\ NextDto(s) \in DOMAIN pull[s].got
           /\ pull[s].got[NextDto(s)][1] \in CodesRead(s) \ pull[s].done
<1>0. PICK got \in Seq(MaterialCodes \X Versions) : got = pull[s].got
  OBVIOUS
<1> DEFINE Todo == {i \in DOMAIN got : got[i][1] \notin pull[s].done}
<1>1. DOMAIN got = 1..Len(got) /\ Len(got) \in Nat
  BY LenProperties
<1>2. Todo \in SUBSET Nat /\ Todo # {}
  BY <1>0, <1>1 DEF Pending
<1>3. PICK n \in Todo : \A k \in Todo : n <= k
  BY <1>2, LeastOfSet
<1>4. n \in DOMAIN got /\ got[n][1] \notin pull[s].done /\ \A j \in 1..(n - 1) : got[j][1] \in pull[s].done
  <2>1. n \in DOMAIN got /\ got[n][1] \notin pull[s].done
    BY <1>3
  <2>2. ASSUME NEW j \in 1..(n - 1), got[j][1] \notin pull[s].done
        PROVE  FALSE
    <3>1. j \in DOMAIN got /\ ~(n <= j)
      BY <1>1, <2>1
    <3> QED BY <1>3, <2>2, <3>1
  <2> QED BY <2>1, <2>2
<1>5. /\ NextDto(s) \in DOMAIN got
      /\ got[NextDto(s)][1] \notin pull[s].done
  BY <1>0, <1>4 DEF NextDto
<1> QED BY <1>0, <1>5 DEF CodesRead

\* What a sync writes to a row it has read.
LEMMA GotIsRead ==
    ASSUME NEW s \in Pulls, pull[s].got \in Seq(MaterialCodes \X Versions), NEW m \in CodesRead(s)
    PROVE  \E i \in DOMAIN pull[s].got : pull[s].got[i][1] = m /\ Got(s, m) = pull[s].got[i][2]
<1>0. PICK got \in Seq(MaterialCodes \X Versions) : got = pull[s].got
  OBVIOUS
<1> DEFINE FromEnd == {n \in 0..Len(got) : n < Len(got) /\ got[Len(got) - n][1] = m}
<1>1. DOMAIN got = 1..Len(got) /\ Len(got) \in Nat
  BY LenProperties
<1>2. FromEnd \in SUBSET Nat /\ FromEnd # {}
  <2>1. PICK i \in DOMAIN got : got[i][1] = m
    BY <1>0 DEF CodesRead
  <2>2. Len(got) - i \in 0..Len(got) /\ Len(got) - i < Len(got) /\ Len(got) - (Len(got) - i) = i
    BY <1>1
  <2>3. Len(got) - i \in FromEnd
    BY <2>1, <2>2
  <2> QED BY <1>1, <2>3
<1>3. PICK n \in FromEnd : \A k \in FromEnd : n <= k
  BY <1>2, LeastOfSet
<1>4. Len(got) - n \in DOMAIN got /\ got[Len(got) - n][1] = m
  BY <1>1, <1>3
<1>5. ASSUME NEW j \in DOMAIN got, got[j][1] = m
      PROVE  j <= Len(got) - n
  <2>1. Len(got) - j \in 0..Len(got) /\ Len(got) - j < Len(got) /\ Len(got) - (Len(got) - j) = j
    BY <1>1
  <2>2. n <= Len(got) - j
    BY <1>3, <1>5, <2>1
  <2> QED BY <1>1, <1>3, <2>2
<1>6. \E i \in DOMAIN got : got[i][1] = m /\ \A j \in DOMAIN got : got[j][1] = m => j <= i
  BY <1>4, <1>5
<1> HIDE DEF FromEnd
<1> DEFINE last == CHOOSE i \in DOMAIN got : got[i][1] = m /\ \A j \in DOMAIN got : got[j][1] = m => j <= i
<1>7. last \in DOMAIN got /\ got[last][1] = m
  BY <1>6
<1>8. Got(s, m) = got[last][2]
  BY <1>0 DEF Got
<1> QED BY <1>0, <1>7, <1>8

\* A page that was read is appended to what was read before.
LEMMA ReadingsOfPage ==
    ASSUME SyncInv, NEW s \in Pulls, NEW page \in Seq(MaterialCodes)
    PROVE  /\ pull[s].got \o Readings(page) \in Seq(MaterialCodes \X Versions)
           /\ {(pull[s].got \o Readings(page))[i][1] : i \in DOMAIN (pull[s].got \o Readings(page))}
                = CodesRead(s) \cup ToSet(page)
           /\ \A i \in DOMAIN (pull[s].got \o Readings(page)) :
                 \/ i \in DOMAIN pull[s].got /\ (pull[s].got \o Readings(page))[i] = pull[s].got[i]
                 \/ \E c \in ToSet(page) : (pull[s].got \o Readings(page))[i] = <<c, erpVersion[c]>>
<1>0. PICK got : got = pull[s].got
  OBVIOUS
<1> DEFINE new == Readings(page)
           all == got \o new
<1>1. got \in Seq(MaterialCodes \X Versions) /\ DOMAIN got = 1..Len(got) /\ Len(got) \in Nat
  <2>1. got \in Seq(MaterialCodes \X Versions)
    BY <1>0 DEF SyncInv, PullRecord
  <2> QED BY <2>1, LenProperties
<1>2. /\ DOMAIN page = 1..Len(page) /\ Len(page) \in Nat
      /\ \A i \in DOMAIN page : page[i] \in MaterialCodes /\ page[i] \in ToSet(page)
  BY LenProperties DEF ToSet
<1>3. /\ new \in Seq(MaterialCodes \X Versions) /\ Len(new) = Len(page)
      /\ \A i \in DOMAIN page : new[i] = <<page[i], erpVersion[page[i]]>>
  <2>1. erpVersion \in [MaterialCodes -> Versions]
    BY DEF SyncInv, RowsTyped
  <2>2. new \in [1..Len(page) -> MaterialCodes \X Versions]
    BY <1>2, <2>1 DEF Readings
  <2>3. new \in Seq(MaterialCodes \X Versions)
    BY <1>2, <2>2, SeqDef
  <2>4. Len(new) = Len(page)
    BY <1>2, <2>2, <2>3, LenProperties
  <2> QED BY <1>2, <2>3, <2>4 DEF Readings
<1>4. /\ all \in Seq(MaterialCodes \X Versions) /\ Len(all) = Len(got) + Len(new)
      /\ \A i \in 1..(Len(got) + Len(new)) : all[i] = IF i <= Len(got) THEN got[i] ELSE new[i - Len(got)]
  BY <1>1, <1>3, ConcatProperties
<1>5. DOMAIN all = 1..(Len(got) + Len(page))
  BY <1>3, <1>4, LenProperties
<1> HIDE DEF new, all
<1>6. \A i \in DOMAIN got : i \in DOMAIN all /\ all[i] = got[i]
  BY <1>1, <1>2, <1>3, <1>4, <1>5
<1>7. \A k \in DOMAIN page : Len(got) + k \in DOMAIN all /\ all[Len(got) + k] = <<page[k], erpVersion[page[k]]>>
  <2> TAKE k \in DOMAIN page
  <2>1. Len(got) + k \in 1..(Len(got) + Len(page)) /\ ~(Len(got) + k <= Len(got)) /\ Len(got) + k - Len(got) = k
    BY <1>1, <1>2
  <2>2. all[Len(got) + k] = new[Len(got) + k - Len(got)]
    BY <1>3, <1>4, <2>1
  <2> QED BY <1>3, <1>5, <2>1, <2>2
<1>8. ASSUME NEW i \in DOMAIN all, i \notin DOMAIN got
      PROVE  \E k \in DOMAIN page : i = Len(got) + k
  <2>1. i - Len(got) \in 1..Len(page) /\ i = Len(got) + (i - Len(got))
    BY <1>1, <1>2, <1>5, <1>8
  <2> QED BY <1>2, <2>1
<1>9. \A i \in DOMAIN all : \/ i \in DOMAIN got /\ all[i] = got[i]
                            \/ \E c \in ToSet(page) : all[i] = <<c, erpVersion[c]>>
  <2> TAKE i \in DOMAIN all
  <2>1. CASE i \in DOMAIN got
    BY <1>6, <2>1
  <2>2. CASE i \notin DOMAIN got
    <3>1. PICK k \in DOMAIN page : i = Len(got) + k
      BY <1>8, <2>2
    <3>2. all[i] = <<page[k], erpVersion[page[k]]>> /\ page[k] \in ToSet(page)
      BY <1>2, <1>7, <3>1
    <3> QED BY <3>2
  <2> QED BY <2>1, <2>2
<1>10. {all[i][1] : i \in DOMAIN all} = CodesRead(s) \cup ToSet(page)
  <2>1. \A i \in DOMAIN all : all[i][1] \in CodesRead(s) \cup ToSet(page)
    BY <1>0, <1>9 DEF CodesRead
  <2>2. \A c \in CodesRead(s) : \E i \in DOMAIN all : all[i][1] = c
    BY <1>0, <1>6 DEF CodesRead
  <2>3. \A c \in ToSet(page) : \E i \in DOMAIN all : all[i][1] = c
    BY <1>7 DEF ToSet
  <2> QED BY <2>1, <2>2, <2>3
<1> QED BY <1>0, <1>4, <1>9, <1>10 DEF new, all

\* A list keeps its places apart when one is removed, and when a new code is inserted.
LEMMA StillApart ==
    ASSUME NEW list \in Seq(MaterialCodes), IsInjective(list)
    PROVE  /\ \A i \in 1..Len(list) : IsInjective(RemoveAt(list, i))
           /\ \A i \in 1..(Len(list) + 1), m \in MaterialCodes :
                 ~Contains(list, m) => IsInjective(InsertAt(list, i, m))
<1>1. Len(list) \in Nat /\ DOMAIN list = 1..Len(list)
  BY LenProperties
<1>2. ASSUME NEW a \in 1..Len(list), NEW b \in 1..Len(list), list[a] = list[b]
      PROVE  a = b
  BY <1>1, <1>2 DEF IsInjective
<1>3. ASSUME NEW i \in 1..Len(list)
      PROVE  IsInjective(RemoveAt(list, i))
  <2>1. PICK new : new = RemoveAt(list, i)
    OBVIOUS
  <2>2. /\ DOMAIN new = 1..(Len(list) - 1)
        /\ \A j \in 1..(Len(list) - 1) : new[j] = IF j < i THEN list[j] ELSE list[j + 1]
    BY <2>1, RemovedAt, LenProperties
  <2>3. ASSUME NEW a \in DOMAIN new, NEW b \in DOMAIN new, new[a] = new[b]
        PROVE  a = b
    <3>1. a \in 1..Len(list) /\ a + 1 \in 1..Len(list) /\ b \in 1..Len(list) /\ b + 1 \in 1..Len(list)
      BY <1>1, <2>2
    <3>2. /\ new[a] = IF a < i THEN list[a] ELSE list[a + 1]
          /\ new[b] = IF b < i THEN list[b] ELSE list[b + 1]
      BY <2>2
    <3>3. CASE a < i /\ b < i
      BY <1>2, <2>3, <3>1, <3>2, <3>3
    <3>4. CASE a < i /\ ~(b < i)
      <4>1. a = b + 1
        BY <1>2, <2>3, <3>1, <3>2, <3>4
      <4> QED BY <3>1, <3>4, <4>1
    <3>5. CASE ~(a < i) /\ b < i
      <4>1. a + 1 = b
        BY <1>2, <2>3, <3>1, <3>2, <3>5
      <4> QED BY <3>1, <3>5, <4>1
    <3>6. CASE ~(a < i) /\ ~(b < i)
      <4>1. a + 1 = b + 1
        BY <1>2, <2>3, <3>1, <3>2, <3>6
      <4> QED BY <3>1, <4>1
    <3> QED BY <3>3, <3>4, <3>5, <3>6
  <2> QED BY <2>1, <2>3 DEF IsInjective
<1>4. ASSUME NEW i \in 1..(Len(list) + 1), NEW m \in MaterialCodes, ~Contains(list, m)
      PROVE  IsInjective(InsertAt(list, i, m))
  <2>0. WithInserted(MaterialCodes, list, i, m, InsertAt(list, i, m))
    BY InsertedAt
  <2>1. PICK new : new = InsertAt(list, i, m)
    OBVIOUS
  <2>2. /\ DOMAIN new = 1..(Len(list) + 1)
        /\ \A j \in 1..(Len(list) + 1) :
              new[j] = IF j < i THEN list[j] ELSE IF j = i THEN m ELSE list[j - 1]
    <3>1. /\ new \in Seq(MaterialCodes) /\ Len(new) = Len(list) + 1
          /\ \A j \in 1..(Len(list) + 1) :
                new[j] = IF j < i THEN list[j] ELSE IF j = i THEN m ELSE list[j - 1]
      BY <2>0, <2>1 DEF WithInserted
    <3>2. DOMAIN new = 1..Len(new)
      BY <3>1, LenProperties
    <3> QED BY <3>1, <3>2
  <2>3. \A j \in 1..Len(list) : list[j] # m
    BY <1>4 DEF Contains
  <2>4. ASSUME NEW a \in DOMAIN new
        PROVE  \/ a < i /\ a \in 1..Len(list) /\ new[a] = list[a]
               \/ a = i /\ new[a] = m
               \/ a > i /\ a - 1 \in 1..Len(list) /\ new[a] = list[a - 1]
    <3>1. a \in Int /\ i \in Int /\ 1 <= a /\ a <= Len(list) + 1 /\ 1 <= i /\ i <= Len(list) + 1
      BY <1>1, <2>2
    <3>2. new[a] = IF a < i THEN list[a] ELSE IF a = i THEN m ELSE list[a - 1]
      BY <2>2
    <3>3. CASE a < i
      BY <1>1, <3>1, <3>2, <3>3
    <3>4. CASE a = i
      BY <3>1, <3>2, <3>4
    <3>5. CASE a > i
      <4>1. ~(a < i) /\ ~(a = i) /\ a - 1 \in 1..Len(list)
        BY <1>1, <3>1, <3>5
      <4> QED BY <3>2, <3>5, <4>1
    <3> QED BY <3>1, <3>3, <3>4, <3>5
  <2>5. ASSUME NEW a \in DOMAIN new, NEW b \in DOMAIN new, new[a] = new[b]
        PROVE  a = b
    <3>1. a \in Int /\ b \in Int /\ i \in Int
      BY <1>1, <2>2
    <3>2. CASE a = i \/ b = i
      BY <2>3, <2>4, <2>5, <3>1, <3>2
    <3>3. CASE a < i
      <4>1. a \in 1..Len(list) /\ new[a] = list[a]
        BY <2>4, <3>1, <3>3
      <4>2. CASE b < i
        <5>1. b \in 1..Len(list) /\ new[b] = list[b]
          BY <2>4, <3>1, <4>2
        <5> QED BY <1>2, <2>5, <4>1, <5>1
      <4>3. CASE b > i
        <5>1. b - 1 \in 1..Len(list) /\ new[b] = list[b - 1]
          BY <2>4, <3>1, <4>3
        <5>2. a = b - 1
          BY <1>2, <2>5, <4>1, <5>1
        <5> QED BY <3>1, <3>3, <4>3, <5>2
      <4> QED BY <3>1, <3>2, <4>2, <4>3
    <3>4. CASE a > i
      <4>1. a - 1 \in 1..Len(list) /\ new[a] = list[a - 1]
        BY <2>4, <3>1, <3>4
      <4>2. CASE b < i
        <5>1. b \in 1..Len(list) /\ new[b] = list[b]
          BY <2>4, <3>1, <4>2
        <5>2. a - 1 = b
          BY <1>2, <2>5, <4>1, <5>1
        <5> QED BY <3>1, <3>4, <4>2, <5>2
      <4>3. CASE b > i
        <5>1. b - 1 \in 1..Len(list) /\ new[b] = list[b - 1]
          BY <2>4, <3>1, <4>3
        <5>2. a - 1 = b - 1
          BY <1>2, <2>5, <4>1, <5>1
        <5> QED BY <3>1, <5>2
      <4> QED BY <3>1, <3>2, <4>2, <4>3
    <3> QED BY <3>1, <3>2, <3>3, <3>4
  <2> QED BY <2>1, <2>5 DEF IsInjective
<1> QED BY <1>3, <1>4

(***************************************************************************)
(* The steps.                                                              *)
(***************************************************************************)

\* The types that SyncTypeOK names follow from those of the invariant.
LEMMA SyncTyped == SyncInv => SyncTypeOK
<1> SUFFICES ASSUME SyncInv
             PROVE  SyncTypeOK
  OBVIOUS
<1>1. ASSUME NEW s \in Pulls
      PROVE  /\ pull[s].at \in {"idle", "fetching", "applying", "committed"}
             /\ pull[s].offset \in Nat /\ pull[s].got \in Seq(MaterialCodes \X Versions)
             /\ pull[s].steady \subseteq MaterialCodes /\ pull[s].done \subseteq MaterialCodes
             /\ pull[s].moved \in BOOLEAN /\ pull[s].alone \in BOOLEAN
  <2>1. pull[s] \in PullRecord
    BY DEF SyncInv
  <2> QED BY <2>1 DEF PullRecord
<1> QED BY <1>1 DEF SyncInv, RowsTyped, SyncTypeOK

\* A sync at rest.
LEMMA IdleIsTyped == IdlePull \in PullRecord
<1>1. << >> \in Seq(MaterialCodes \X Versions)
  BY EmptySeq
<1> QED BY <1>1 DEF IdlePull, PullRecord

\* A list that changes while its pages are read marks the syncs that read them.
LEMMA ListMoves ==
    ASSUME SyncInv, NEW left \in SUBSET MaterialCodes, Shift(left), UNCHANGED <<origin, erpVersion, newest>>
    PROVE  pull' \in [Pulls -> PullRecord] /\ \A s \in Pulls : PullInv(s)'
<1>1. ASSUME NEW s \in Pulls
      PROVE  /\ pull'[s] \in PullRecord
             /\ pull'[s].at = pull[s].at /\ pull'[s].got = pull[s].got /\ pull'[s].alone = pull[s].alone
             /\ pull'[s].done = pull[s].done /\ pull'[s].offset = pull[s].offset
             /\ pull[s].at = "fetching" => pull'[s].moved
             /\ pull[s].at # "fetching" => pull'[s] = pull[s]
  BY DEF SyncInv, PullRecord, Shift
<1>2. pull' \in [Pulls -> PullRecord]
  BY <1>1 DEF Shift
<1>3. \A s \in Pulls : Busy(s)' = Busy(s)
  BY <1>1 DEF Busy
<1>4. ASSUME NEW s \in Pulls
      PROVE  PullInv(s)'
  <2>1. ReadingsFresh(s) /\ AloneIsAlone(s) /\ ReadSoFar(s) /\ ReadAll(s)
    BY DEF SyncInv, PullInv
  <2>2. ReadingsFresh(s)'
    BY <1>1, <1>3, <2>1 DEF ReadingsFresh
  <2>3. AloneIsAlone(s)'
    BY <1>1, <1>3, <2>1 DEF AloneIsAlone
  <2>4. ReadSoFar(s)'
    BY <1>1, <2>1 DEF ReadSoFar
  <2>5. ReadAll(s)'
    <3>1. pull[s].at # "fetching" => CodesRead(s)' = CodesRead(s) /\ Excused(s)' = Excused(s)
      BY <1>1 DEF CodesRead, Excused
    <3> QED BY <1>1, <2>1, <3>1 DEF ReadAll
  <2> QED BY <2>2, <2>3, <2>4, <2>5 DEF PullInv
<1> QED BY <1>2, <1>4

\* A row that no step touches.
LEMMA RowsStay ==
    ASSUME SyncInv, UNCHANGED <<origin, erpVersion, newest, crossed>>,
           \A m \in MaterialCodes : material'[m].there = material[m].there /\ material'[m].version = material[m].version
    PROVE  \A m \in MaterialCodes : RowSynced(m)'
BY DEF SyncInv, RowSynced

\* ListMaterial keeps the invariant.
LEMMA ListStep ==
    ASSUME SyncInv, NEW m \in MaterialCodes, ListMaterial(m)
    PROVE  SyncInv'
<1>1. erpList \in Seq(MaterialCodes) /\ IsInjective(erpList)
  BY DEF SyncInv, RowsTyped
<1>2. PICK i \in 1..(Len(erpList) + 1) : erpList' = InsertAt(erpList, i, m)
  BY DEF ListMaterial
<1>3. erpList' \in Seq(MaterialCodes)
  BY <1>1, <1>2, InsertedAt DEF WithInserted
<1>4. IsInjective(erpList)'
  BY <1>1, <1>2, StillApart DEF ListMaterial
<1>5. pull' \in [Pulls -> PullRecord] /\ \A s \in Pulls : PullInv(s)'
  BY ListMoves DEF ListMaterial
<1>6. \A c \in MaterialCodes : RowSynced(c)'
  BY RowsStay DEF ListMaterial
<1>7. RowsTyped'
  BY <1>3 DEF SyncInv, RowsTyped, ListMaterial
<1> QED BY <1>4, <1>5, <1>6, <1>7 DEF SyncInv

\* UnlistMaterial keeps the invariant.
LEMMA UnlistStep ==
    ASSUME SyncInv, NEW m \in MaterialCodes, UnlistMaterial(m)
    PROVE  SyncInv'
<1>1. erpList \in Seq(MaterialCodes) /\ IsInjective(erpList) /\ DOMAIN erpList = 1..Len(erpList)
  BY LenProperties DEF SyncInv, RowsTyped
<1>2. PICK i \in 1..Len(erpList) : erpList' = RemoveAt(erpList, i)
  BY <1>1 DEF UnlistMaterial
<1>3. erpList' \in Seq(MaterialCodes)
  BY <1>1, <1>2, RemovedAt
<1>4. IsInjective(erpList)'
  BY <1>1, <1>2, StillApart
<1>5. pull' \in [Pulls -> PullRecord] /\ \A s \in Pulls : PullInv(s)'
  BY ListMoves DEF UnlistMaterial
<1>6. /\ material' \in [MaterialCodes -> MaterialRow]
      /\ \A c \in MaterialCodes : material'[c].there = material[c].there /\ material'[c].version = material[c].version
  <2>1. material \in [MaterialCodes -> MaterialRow]
    BY DEF SyncInv, RowsTyped
  <2>2. material' = material \/ material' = [material EXCEPT ![m].active = FALSE]
    BY DEF UnlistMaterial
  <2>3. material' \in [MaterialCodes -> MaterialRow]
    BY <2>1, <2>2 DEF MaterialRow
  <2>4. ASSUME NEW c \in MaterialCodes
        PROVE  material'[c].there = material[c].there /\ material'[c].version = material[c].version
    <3>1. material[c] \in MaterialRow
      BY <2>1
    <3>2. material'[c] = material[c] \/ material'[c] = [material[c] EXCEPT !.active = FALSE]
      BY <2>1, <2>2
    <3> QED BY <3>1, <3>2 DEF MaterialRow
  <2> QED BY <2>3, <2>4
<1>7. \A c \in MaterialCodes : RowSynced(c)'
  BY <1>6, RowsStay DEF UnlistMaterial
<1>8. RowsTyped'
  BY <1>3, <1>6 DEF SyncInv, RowsTyped, UnlistMaterial
<1> QED BY <1>4, <1>5, <1>7, <1>8 DEF SyncInv

\* ChangeMaterial keeps the invariant.
LEMMA ChangeStep ==
    ASSUME SyncInv, NEW m \in MaterialCodes, ChangeMaterial(m)
    PROVE  SyncInv'
<1>1. /\ erpVersion \in [MaterialCodes -> Versions] /\ newest \in [MaterialCodes -> Versions]
      /\ material \in [MaterialCodes -> MaterialRow] /\ MaxVersions \in Nat
  BY SyncAssumption DEF SyncInv, RowsTyped
<1>2. /\ erpVersion' \in [MaterialCodes -> Versions]
      /\ erpVersion'[m] = erpVersion[m] + 1 /\ \A c \in MaterialCodes \ {m} : erpVersion'[c] = erpVersion[c]
  BY <1>1 DEF ChangeMaterial, Versions
<1>3. \A c \in MaterialCodes : erpVersion[c] \in Nat /\ newest[c] \in Nat /\ erpVersion[c] <= erpVersion'[c]
  BY <1>1, <1>2 DEF Versions
<1>4. \/ UNCHANGED <<material, newest>>
      \/ /\ origin = "simulator"
         /\ material' = [material EXCEPT ![m].version = erpVersion[m] + 1]
         /\ newest' = [newest EXCEPT ![m] = erpVersion[m] + 1]
  BY DEF ChangeMaterial
<1>5. material' \in [MaterialCodes -> MaterialRow] /\ newest' \in [MaterialCodes -> Versions]
  <2>1. erpVersion[m] + 1 \in Versions
    BY <1>1, <1>2
  <2> QED BY <1>1, <1>4, <2>1 DEF MaterialRow
<1>6. RowsTyped'
  BY <1>2, <1>5 DEF SyncInv, RowsTyped, ChangeMaterial
<1>7. ASSUME NEW c \in MaterialCodes
      PROVE  RowSynced(c)'
  <2>1. RowSynced(c)
    BY DEF SyncInv
  <2>2. origin' = origin /\ crossed' = crossed
    BY DEF ChangeMaterial
  <2>3. newest'[c] <= erpVersion'[c]
    BY <1>1, <1>2, <1>3, <1>4, <2>1 DEF RowSynced
  <2> QED BY <1>4, <2>1, <2>2, <2>3 DEF RowSynced
<1>8. ASSUME NEW s \in Pulls
      PROVE  PullInv(s)'
  <2>1. ReadingsFresh(s) /\ AloneIsAlone(s) /\ ReadSoFar(s) /\ ReadAll(s)
    BY DEF SyncInv, PullInv
  <2>2. pull' = pull /\ origin' = origin /\ erpList' = erpList
    BY DEF ChangeMaterial
  <2>3. ReadingsFresh(s)'
    <3>1. pull[s].got \in Seq(MaterialCodes \X Versions)
      BY DEF SyncInv, PullRecord
    <3>2. \A i \in DOMAIN pull[s].got : pull[s].got[i][1] \in MaterialCodes /\ pull[s].got[i][2] \in Nat
      BY <3>1, LenProperties DEF Versions
    <3>3. \A i \in DOMAIN pull[s].got : pull[s].got[i][2] <= erpVersion'[pull[s].got[i][1]]
      <4> TAKE i \in DOMAIN pull[s].got
      <4>1. pull[s].got[i][2] <= erpVersion[pull[s].got[i][1]]
        BY <2>1 DEF ReadingsFresh
      <4>2. PICK c \in MaterialCodes, v \in Nat : c = pull[s].got[i][1] /\ v = pull[s].got[i][2]
        BY <3>2
      <4>3. v <= erpVersion'[c]
        BY <1>2, <1>3, <4>1, <4>2 DEF Versions
      <4> QED BY <4>2, <4>3
    <3>4. origin # "simulator" => newest' = newest
      BY <1>4
    <3>5. Busy(s)' = Busy(s)
      BY <2>2 DEF Busy
    <3> QED BY <2>1, <2>2, <3>3, <3>4, <3>5 DEF ReadingsFresh
  <2>4. AloneIsAlone(s)'
    BY <2>1, <2>2 DEF AloneIsAlone, Busy
  <2>5. ReadSoFar(s)'
    BY <2>1, <2>2 DEF ReadSoFar, CodesRead
  <2>6. ReadAll(s)'
    BY <2>1, <2>2 DEF ReadAll, CodesRead, Excused
  <2> QED BY <2>3, <2>4, <2>5, <2>6 DEF PullInv
<1>9. IsInjective(erpList)' /\ pull' \in [Pulls -> PullRecord]
  BY DEF SyncInv, ChangeMaterial
<1> QED BY <1>6, <1>7, <1>8, <1>9 DEF SyncInv

\* A step of one sync leaves the invariants of the others alone, and its own solitude.
LEMMA OthersKept ==
    ASSUME SyncInv, NEW s \in Pulls, pull'[s] \in PullRecord, pull' = [pull EXCEPT ![s] = pull'[s]],
           Busy(s)' => Busy(s) /\ pull'[s].alone = pull[s].alone,
           UNCHANGED <<origin, erpList, erpVersion>>, newest' = newest \/ Busy(s)
    PROVE  /\ pull' \in [Pulls -> PullRecord]
           /\ AloneIsAlone(s)'
           /\ \A t \in Pulls \ {s} : PullInv(t)'
<1>1. pull' \in [Pulls -> PullRecord] /\ \A t \in Pulls \ {s} : pull'[t] = pull[t]
  BY DEF SyncInv
<1>2. \A t \in Pulls \ {s} : Busy(t)' = Busy(t)
  BY <1>1 DEF Busy
<1>3. \A t \in Pulls : AloneIsAlone(t) /\ ReadingsFresh(t) /\ ReadSoFar(t) /\ ReadAll(t)
  BY DEF SyncInv, PullInv
<1>4. AloneIsAlone(s)'
  BY <1>2, <1>3 DEF AloneIsAlone
<1>5. ASSUME NEW t \in Pulls \ {s}
      PROVE  PullInv(t)'
  <2>1. pull'[t] = pull[t] /\ Busy(t)' = Busy(t)
    BY <1>1, <1>2
  <2>2. AloneIsAlone(t)'
    BY <1>2, <1>3, <2>1 DEF AloneIsAlone
  <2>3. Busy(t) /\ pull[t].alone => newest' = newest
    BY <1>3 DEF AloneIsAlone
  <2>4. ReadingsFresh(t)'
    BY <1>3, <2>1, <2>3 DEF ReadingsFresh
  <2>5. ReadSoFar(t)'
    BY <1>3, <2>1 DEF ReadSoFar, CodesRead
  <2>6. ReadAll(t)'
    BY <1>3, <2>1 DEF ReadAll, CodesRead, Excused
  <2> QED BY <2>2, <2>4, <2>5, <2>6 DEF PullInv
<1> QED BY <1>1, <1>4, <1>5

\* A sync that ends without a commit keeps the invariant.
LEMMA BackToIdle ==
    ASSUME SyncInv, NEW s \in Pulls, pull' = [pull EXCEPT ![s] = IdlePull],
           UNCHANGED <<origin, erpList, erpVersion, material, newest, crossed>>
    PROVE  SyncInv'
<1>1. pull \in [Pulls -> PullRecord] /\ RowsTyped /\ IsInjective(erpList)
  BY DEF SyncInv
<1>2. pull'[s] = IdlePull
  BY <1>1
<1>3. ~Busy(s)'
  BY <1>2 DEF Busy, IdlePull
<1>4. pull'[s] \in PullRecord /\ pull' = [pull EXCEPT ![s] = pull'[s]]
  BY <1>2, IdleIsTyped
<1>5. /\ pull' \in [Pulls -> PullRecord] /\ AloneIsAlone(s)'
      /\ \A t \in Pulls \ {s} : PullInv(t)'
  BY <1>3, <1>4, OthersKept
<1>6. ReadingsFresh(s)' /\ ReadSoFar(s)' /\ ReadAll(s)'
  <2>1. pull'[s].got = << >> /\ pull'[s].at = "idle"
    BY <1>2 DEF IdlePull
  <2> QED BY <2>1 DEF ReadingsFresh, ReadSoFar, ReadAll
<1>7. \A t \in Pulls : PullInv(t)'
  BY <1>5, <1>6 DEF PullInv
<1>8. \A m \in MaterialCodes : RowSynced(m)'
  BY RowsStay
<1>9. RowsTyped' /\ IsInjective(erpList)'
  BY <1>1 DEF RowsTyped
<1> QED BY <1>5, <1>7, <1>8, <1>9 DEF SyncInv

\* BeginPull keeps the invariant.
LEMMA BeginStep ==
    ASSUME SyncInv, NEW s \in Pulls, BeginPull(s)
    PROVE  SyncInv'
<1>1. pull \in [Pulls -> PullRecord] /\ RowsTyped /\ IsInjective(erpList)
  BY DEF SyncInv
<1>2. UNCHANGED <<origin, erpList, erpVersion, material, newest, crossed>>
  BY DEF BeginPull
<1>3. /\ DOMAIN pull' = Pulls
      /\ pull'[s] = [IdlePull EXCEPT !.at = "fetching", !.steady = ToSet(erpList),
                                    !.alone = \A u \in Pulls \ {s} : ~Busy(u)]
      /\ \A t \in Pulls \ {s} : pull'[t] = IF Busy(t) THEN [pull[t] EXCEPT !.alone = FALSE] ELSE pull[t]
  BY DEF BeginPull
<1>4. /\ pull'[s].at = "fetching" /\ pull'[s].got = << >> /\ pull'[s].offset = 0 /\ pull'[s].done = {}
      /\ pull'[s].moved = FALSE /\ pull'[s].steady = ToSet(erpList)
      /\ pull'[s].alone <=> \A u \in Pulls \ {s} : ~Busy(u)
  BY <1>3 DEF IdlePull
<1>5. ToSet(erpList) \in SUBSET MaterialCodes /\ Len(erpList) \in Nat
  BY <1>1, LenProperties DEF RowsTyped, ToSet
<1>6. pull'[s] \in PullRecord
  <2>1. pull'[s] = [at |-> "fetching", offset |-> 0, got |-> << >>, steady |-> ToSet(erpList), moved |-> FALSE,
                    done |-> {}, alone |-> \A u \in Pulls \ {s} : ~Busy(u)]
    BY <1>3 DEF IdlePull
  <2>2. << >> \in Seq(MaterialCodes \X Versions)
    BY EmptySeq
  <2>3. (\A u \in Pulls \ {s} : ~Busy(u)) \in BOOLEAN
    OBVIOUS
  <2> HIDE DEF Busy
  <2> QED BY <1>5, <2>1, <2>2, <2>3 DEF PullRecord
<1>7. ASSUME NEW t \in Pulls \ {s}
      PROVE  /\ pull'[t] \in PullRecord
             /\ pull'[t].at = pull[t].at /\ pull'[t].got = pull[t].got /\ pull'[t].done = pull[t].done
             /\ pull'[t].offset = pull[t].offset /\ pull'[t].steady = pull[t].steady
             /\ pull'[t].moved = pull[t].moved
             /\ pull'[t].alone => pull[t].alone /\ ~Busy(t)
  <2>1. pull[t] \in PullRecord
    BY <1>1
  <2>2. CASE Busy(t)
    <3>1. pull'[t] = [pull[t] EXCEPT !.alone = FALSE]
      BY <1>3, <2>2
    <3> QED BY <2>1, <3>1 DEF PullRecord
  <2>3. CASE ~Busy(t)
    <3>1. pull'[t] = pull[t]
      BY <1>3, <2>3
    <3> QED BY <2>1, <2>3, <3>1
  <2> QED BY <2>2, <2>3
<1>8. pull' \in [Pulls -> PullRecord]
  <2>1. \A t \in Pulls : pull'[t] \in PullRecord
    BY <1>6, <1>7
  <2> QED BY <2>1 DEF BeginPull
<1>9. \A t \in Pulls \ {s} : Busy(t)' = Busy(t)
  BY <1>7 DEF Busy
<1>10. PullInv(s)'
  <2>1. ReadingsFresh(s)'
    BY <1>4 DEF ReadingsFresh
  <2>2. AloneIsAlone(s)'
    BY <1>4, <1>9 DEF AloneIsAlone
  <2>3. ReadSoFar(s)'
    BY <1>2, <1>4, <1>5 DEF ReadSoFar
  <2>4. ReadAll(s)'
    BY <1>4 DEF ReadAll
  <2> QED BY <2>1, <2>2, <2>3, <2>4 DEF PullInv
<1>11. ASSUME NEW t \in Pulls \ {s}
       PROVE  PullInv(t)'
  <2>1. ReadingsFresh(t) /\ ReadSoFar(t) /\ ReadAll(t)
    BY DEF SyncInv, PullInv
  <2>2. ReadingsFresh(t)'
    BY <1>2, <1>7, <1>9, <2>1 DEF ReadingsFresh
  <2>3. AloneIsAlone(t)'
    BY <1>7, <1>9 DEF AloneIsAlone
  <2>4. ReadSoFar(t)'
    BY <1>2, <1>7, <2>1 DEF ReadSoFar, CodesRead
  <2>5. ReadAll(t)'
    BY <1>2, <1>7, <2>1 DEF ReadAll, CodesRead, Excused
  <2> QED BY <2>2, <2>3, <2>4, <2>5 DEF PullInv
<1>12. \A m \in MaterialCodes : RowSynced(m)'
  BY <1>2, RowsStay
<1>13. RowsTyped' /\ IsInjective(erpList)'
  BY <1>1, <1>2 DEF RowsTyped
<1> QED BY <1>8, <1>10, <1>11, <1>12, <1>13 DEF SyncInv

\* A page that was read keeps the invariant, where the sync goes on only as far as
\* the list, and stops only when it has all of it or an excuse.
LEMMA CollectStep ==
    ASSUME SyncInv, NEW s \in Pulls, NEW page \in Seq(MaterialCodes), NEW at \in {"fetching", "applying"},
           Collect(s, page, at),
           at = "fetching" => origin = "oracle",
           at = "fetching" /\ ~pull[s].moved =>
              /\ pull[s].offset + Len(page) <= Len(erpList)
              /\ \A i \in 1..Len(page) : page[i] = erpList[pull[s].offset + i],
           at = "applying" /\ ~pull[s].moved =>
              \/ ToSet(erpList) \subseteq CodesRead(s) \cup ToSet(page)
              \/ origin = "sap" /\ Cardinality(ToSet(erpList)) > PageSize
    PROVE  SyncInv'
<1>1. pull \in [Pulls -> PullRecord] /\ RowsTyped /\ IsInjective(erpList)
  BY DEF SyncInv
<1>2. UNCHANGED <<origin, erpList, erpVersion, material, newest, crossed>>
  BY DEF Collect
<1>3. PICK all : all = pull[s].got \o Readings(page)
  OBVIOUS
<1>4. /\ all \in Seq(MaterialCodes \X Versions)
      /\ {all[i][1] : i \in DOMAIN all} = CodesRead(s) \cup ToSet(page)
      /\ \A i \in DOMAIN all : \/ i \in DOMAIN pull[s].got /\ all[i] = pull[s].got[i]
                              \/ \E c \in ToSet(page) : all[i] = <<c, erpVersion[c]>>
  BY <1>3, ReadingsOfPage
<1>5. Len(page) \in Nat /\ DOMAIN page = 1..Len(page) /\ ToSet(page) \subseteq MaterialCodes
  BY LenProperties DEF ToSet
<1>6. /\ pull[s] \in PullRecord /\ pull[s].at = "fetching"
      /\ pull[s].offset \in Nat
  BY <1>1 DEF Collect, PullRecord
<1>7. pull'[s] = [pull[s] EXCEPT !.got = all, !.offset = @ + Len(page), !.at = at]
  BY <1>1, <1>3 DEF Collect
<1>8. /\ pull'[s].at = at /\ pull'[s].got = all /\ pull'[s].offset = pull[s].offset + Len(page)
      /\ pull'[s].done = pull[s].done /\ pull'[s].steady = pull[s].steady
      /\ pull'[s].moved = pull[s].moved /\ pull'[s].alone = pull[s].alone
  BY <1>6, <1>7 DEF PullRecord
<1>9. pull'[s] \in PullRecord
  <2>1. pull[s].offset + Len(page) \in Nat /\ at \in {"idle", "fetching", "applying", "committed"}
    BY <1>5, <1>6
  <2> QED BY <1>4, <1>6, <1>7, <2>1 DEF PullRecord
<1>10. pull' = [pull EXCEPT ![s] = pull'[s]]
  BY <1>1, <1>3, <1>7 DEF Collect
<1>11. Busy(s)' /\ Busy(s)
  BY <1>6, <1>8 DEF Busy
<1>12. /\ pull' \in [Pulls -> PullRecord] /\ AloneIsAlone(s)'
       /\ \A t \in Pulls \ {s} : PullInv(t)'
  BY <1>2, <1>8, <1>9, <1>10, <1>11, OthersKept
<1>13. ReadingsFresh(s) /\ ReadSoFar(s)
  BY DEF SyncInv, PullInv
<1>14. CodesRead(s)' = CodesRead(s) \cup ToSet(page)
  <2>1. CodesRead(s)' = {all[i][1] : i \in DOMAIN all}
    BY <1>8 DEF CodesRead
  <2> QED BY <1>4, <2>1
<1>15. ReadingsFresh(s)'
  <2>1. ASSUME NEW i \in DOMAIN all
        PROVE  /\ all[i][2] <= erpVersion[all[i][1]]
               /\ origin # "simulator" /\ pull[s].alone => newest[all[i][1]] <= all[i][2]
    <3>1. CASE i \in DOMAIN pull[s].got /\ all[i] = pull[s].got[i]
      BY <1>11, <1>13, <3>1 DEF ReadingsFresh
    <3>2. CASE \E c \in ToSet(page) : all[i] = <<c, erpVersion[c]>>
      <4>1. PICK c \in MaterialCodes : all[i] = <<c, erpVersion[c]>>
        BY <1>5, <3>2
      <4>2. erpVersion[c] \in Nat /\ newest[c] <= erpVersion[c]
        BY <1>1 DEF SyncInv, RowSynced, RowsTyped, Versions
      <4>3. all[i][1] = c /\ all[i][2] = erpVersion[c]
        BY <4>1
      <4> QED BY <4>2, <4>3
    <3> QED BY <1>4, <3>1, <3>2
  <2> QED BY <1>2, <1>8, <2>1 DEF ReadingsFresh
<1>16. ReadSoFar(s)'
  <2>1. ASSUME at = "fetching", ~pull[s].moved, NEW i \in 1..(pull[s].offset + Len(page))
        PROVE  erpList[i] \in CodesRead(s)'
    <3>1. CASE i <= pull[s].offset
      <4>1. i \in 1..pull[s].offset
        BY <1>5, <1>6, <3>1
      <4> QED BY <1>6, <1>13, <1>14, <2>1, <4>1 DEF ReadSoFar
    <3>2. CASE ~(i <= pull[s].offset)
      <4>1. i - pull[s].offset \in 1..Len(page) /\ pull[s].offset + (i - pull[s].offset) = i
        BY <1>5, <1>6, <3>2
      <4>2. page[i - pull[s].offset] = erpList[i]
        BY <2>1, <4>1
      <4> QED BY <1>5, <1>14, <4>1, <4>2 DEF ToSet
    <3> QED BY <3>1, <3>2
  <2>2. at = "fetching" /\ ~pull[s].moved =>
           pull[s].steady = ToSet(erpList) /\ pull[s].offset + Len(page) <= Len(erpList)
    BY <1>6, <1>13 DEF ReadSoFar
  <2>3. pull[s].done = {} /\ (at = "fetching" => origin = "oracle")
    BY <1>6, <1>13 DEF ReadSoFar
  <2> QED BY <1>2, <1>8, <2>1, <2>2, <2>3 DEF ReadSoFar
<1>17. ReadAll(s)'
  <2>1. pull[s].done = {} /\ (~pull[s].moved => pull[s].steady = ToSet(erpList))
    BY <1>6, <1>13 DEF ReadSoFar
  <2>2. at = "applying" => pull[s].steady \subseteq CodesRead(s)' \/ Excused(s)'
    BY <1>2, <1>8, <1>14, <2>1 DEF Excused
  <2>3. at # "committed" /\ {} \subseteq CodesRead(s)'
    OBVIOUS
  <2> QED BY <1>8, <2>1, <2>2, <2>3 DEF ReadAll
<1>18. \A m \in MaterialCodes : RowSynced(m)'
  BY <1>2, RowsStay
<1>19. RowsTyped' /\ IsInjective(erpList)'
  BY <1>1, <1>2 DEF RowsTyped
<1> QED BY <1>12, <1>15, <1>16, <1>17, <1>18, <1>19 DEF SyncInv, PullInv

\* The three fetches keep the invariant.
LEMMA FetchStep ==
    ASSUME SyncInv, NEW s \in Pulls,
           FetchFromSap(s) \/ FetchFromOracle(s) \/ FetchFromSimulator(s)
    PROVE  SyncInv'
<1>1. /\ pull[s] \in PullRecord /\ erpList \in Seq(MaterialCodes) /\ IsInjective(erpList)
      /\ ReadSoFar(s)
  BY DEF SyncInv, RowsTyped, PullInv
<1>2. /\ pull[s].at = "fetching" /\ pull[s].offset \in Nat /\ pull[s].done = {}
      /\ origin # "oracle" => pull[s].offset = 0
      /\ ~pull[s].moved => /\ pull[s].offset <= Len(erpList)
                           /\ \A i \in 1..pull[s].offset : erpList[i] \in CodesRead(s)
  BY <1>1 DEF ReadSoFar, PullRecord, FetchFromSap, FetchFromOracle, FetchFromSimulator, Collect
<1>3. PICK page : page = PageAt(s)
  OBVIOUS
<1>4. /\ page \in Seq(MaterialCodes)
      /\ \A i \in 1..Len(page) : pull[s].offset + i <= Len(erpList) /\ page[i] = erpList[pull[s].offset + i]
      /\ pull[s].offset <= Len(erpList) =>
            pull[s].offset + Len(page) =
               IF pull[s].offset + PageSize < Len(erpList) THEN pull[s].offset + PageSize ELSE Len(erpList)
  BY <1>1, <1>2, <1>3, PageOfList DEF PageAt
<1>5. Len(erpList) \in Nat /\ DOMAIN erpList = 1..Len(erpList) /\ PageSize \in Nat \ {0} /\ Len(page) \in Nat
      /\ DOMAIN page = 1..Len(page)
  BY <1>1, <1>4, LenProperties, SyncAssumption
<1>6. ASSUME ~pull[s].moved, pull[s].offset + Len(page) = Len(erpList)
      PROVE  ToSet(erpList) \subseteq CodesRead(s) \cup ToSet(page)
  <2>1. ASSUME NEW i \in 1..Len(erpList)
        PROVE  erpList[i] \in CodesRead(s) \cup ToSet(page)
    <3>1. CASE i <= pull[s].offset
      <4>1. i \in 1..pull[s].offset
        BY <1>2, <1>5, <3>1
      <4> QED BY <1>2, <1>6, <4>1
    <3>2. CASE ~(i <= pull[s].offset)
      <4>1. i - pull[s].offset \in 1..Len(page) /\ pull[s].offset + (i - pull[s].offset) = i
        BY <1>2, <1>5, <1>6, <3>2
      <4>2. page[i - pull[s].offset] = erpList[i]
        BY <1>4, <4>1
      <4> QED BY <1>5, <4>1, <4>2 DEF ToSet
    <3> QED BY <3>1, <3>2
  <2> QED BY <1>5, <2>1 DEF ToSet
<1>7. CASE FetchFromSap(s)
  <2>1. origin = "sap" /\ pull[s].offset = 0 /\ Collect(s, page, "applying")
    BY <1>2, <1>3, <1>7 DEF FetchFromSap
  <2>2. ASSUME ~pull[s].moved
        PROVE  \/ ToSet(erpList) \subseteq CodesRead(s) \cup ToSet(page)
               \/ Cardinality(ToSet(erpList)) > PageSize
    <3>1. CASE PageSize < Len(erpList)
      <4>1. Cardinality(ToSet(erpList)) = Len(erpList)
        BY <1>1, PlacesOfList
      <4> QED BY <1>5, <3>1, <4>1
    <3>2. CASE ~(PageSize < Len(erpList))
      <4>1. pull[s].offset + Len(page) = Len(erpList)
        BY <1>4, <1>5, <2>1, <3>2
      <4> QED BY <1>6, <2>2, <4>1
    <3> QED BY <3>1, <3>2
  <2> QED BY <1>4, <2>1, <2>2, CollectStep
<1>8. CASE FetchFromSimulator(s)
  <2>1. Collect(s, erpList, "applying")
    BY <1>8 DEF FetchFromSimulator
  <2> QED BY <1>1, <2>1, CollectStep
<1>9. CASE FetchFromOracle(s)
  <2> DEFINE more == pull[s].offset + PageSize < Len(erpList) /\ page # << >>
  <2>1. origin = "oracle" /\ Collect(s, page, IF more THEN "fetching" ELSE "applying")
    BY <1>3, <1>9 DEF FetchFromOracle
  <2>2. CASE more
    <3>1. Collect(s, page, "fetching")
      BY <2>1, <2>2
    <3>2. ~pull[s].moved => pull[s].offset + Len(page) <= Len(erpList)
      BY <1>2, <1>4, <1>5, <2>2
    <3> QED BY <1>4, <2>1, <3>1, <3>2, CollectStep
  <2>3. CASE ~more
    <3>1. Collect(s, page, "applying")
      BY <2>1, <2>3
    <3>2. page = << >> => Len(page) = 0
      OBVIOUS
    <3>3. ~pull[s].moved => pull[s].offset + Len(page) = Len(erpList)
      BY <1>2, <1>4, <1>5, <2>3, <3>2
    <3>4. ~pull[s].moved => ToSet(erpList) \subseteq CodesRead(s) \cup ToSet(page)
      BY <1>6, <3>3
    <3> QED BY <1>4, <2>1, <3>1, <3>4, CollectStep
  <2> QED BY <2>2, <2>3
<1> QED BY <1>7, <1>8, <1>9

\* ApplyMaterial keeps the invariant.
LEMMA ApplyStep ==
    ASSUME SyncInv, NEW s \in Pulls, ApplyMaterial(s)
    PROVE  SyncInv'
<1>1. pull \in [Pulls -> PullRecord] /\ RowsTyped /\ IsInjective(erpList)
  BY DEF SyncInv
<1>2. pull[s] \in PullRecord /\ pull[s].got \in Seq(MaterialCodes \X Versions)
  BY <1>1 DEF PullRecord
<1>3. PICK m : m = pull[s].got[NextDto(s)][1]
  OBVIOUS
<1>4. /\ pull[s].at = "applying"
      /\ UNCHANGED <<origin, erpList, erpVersion, material, newest, crossed>>
      /\ \/ pull' = [pull EXCEPT ![s] = IdlePull]
         \/ pull' = [pull EXCEPT ![s].done = @ \cup {m}]
  BY <1>3 DEF ApplyMaterial
<1>5. m \in CodesRead(s) /\ m \in MaterialCodes
  <2>1. NextDto(s) \in DOMAIN pull[s].got /\ m \in CodesRead(s)
    BY <1>2, <1>3, NextIsRead DEF ApplyMaterial
  <2>2. pull[s].got[NextDto(s)] \in MaterialCodes \X Versions
    BY <1>2, <2>1, LenProperties
  <2> QED BY <1>3, <2>1, <2>2
<1>6. CASE pull' = [pull EXCEPT ![s] = IdlePull]
  BY <1>4, <1>6, BackToIdle
<1>7. CASE pull' = [pull EXCEPT ![s].done = @ \cup {m}]
  <2>1. pull'[s] = [pull[s] EXCEPT !.done = @ \cup {m}]
    BY <1>1, <1>7
  <2>2. /\ pull'[s].at = "applying" /\ pull'[s].got = pull[s].got /\ pull'[s].done = pull[s].done \cup {m}
        /\ pull'[s].steady = pull[s].steady /\ pull'[s].moved = pull[s].moved
        /\ pull'[s].alone = pull[s].alone
    BY <1>2, <1>4, <2>1 DEF PullRecord
  <2>3. pull'[s] \in PullRecord
    BY <1>2, <1>5, <2>1 DEF PullRecord
  <2>4. pull' = [pull EXCEPT ![s] = pull'[s]]
    BY <1>1, <1>7, <2>1
  <2>5. Busy(s)' /\ Busy(s)
    BY <1>4, <2>2 DEF Busy
  <2>6. /\ pull' \in [Pulls -> PullRecord] /\ AloneIsAlone(s)'
        /\ \A t \in Pulls \ {s} : PullInv(t)'
    BY <1>4, <2>2, <2>3, <2>4, <2>5, OthersKept
  <2>7. ReadingsFresh(s) /\ ReadAll(s)
    BY DEF SyncInv, PullInv
  <2>8. ReadingsFresh(s)'
    BY <1>4, <2>2, <2>5, <2>7 DEF ReadingsFresh
  <2>9. ReadSoFar(s)'
    BY <2>2 DEF ReadSoFar
  <2>10. ReadAll(s)'
    <3>1. CodesRead(s)' = CodesRead(s) /\ Excused(s)' = Excused(s)
      BY <1>4, <2>2 DEF CodesRead, Excused
    <3> QED BY <1>4, <1>5, <2>2, <2>7, <3>1 DEF ReadAll
  <2>11. \A c \in MaterialCodes : RowSynced(c)'
    BY <1>4, RowsStay
  <2>12. RowsTyped' /\ IsInjective(erpList)'
    BY <1>1, <1>4 DEF RowsTyped
  <2> QED BY <2>6, <2>8, <2>9, <2>10, <2>11, <2>12 DEF SyncInv, PullInv
<1> QED BY <1>4, <1>6, <1>7

\* CommitPull keeps the invariant: what it writes is what it read, and as long as it was
\* alone that is no older than the row.
LEMMA SyncCommitStep ==
    ASSUME SyncInv, NEW s \in Pulls, CommitPull(s)
    PROVE  SyncInv'
<1>1. pull \in [Pulls -> PullRecord] /\ RowsTyped /\ IsInjective(erpList) /\ PullInv(s)
  BY DEF SyncInv
<1>2. /\ pull[s] \in PullRecord /\ pull[s].got \in Seq(MaterialCodes \X Versions)
      /\ pull[s].done \subseteq MaterialCodes /\ pull[s].at = "applying"
  BY <1>1 DEF CommitPull, PullRecord
<1>3. UNCHANGED <<origin, erpList, erpVersion>>
  BY DEF CommitPull
<1>4. \A i \in DOMAIN pull[s].got : pull[s].got[i][1] \in MaterialCodes /\ pull[s].got[i][2] \in Versions
  <2>1. \A i \in DOMAIN pull[s].got : pull[s].got[i] \in MaterialCodes \X Versions
    BY <1>2, LenProperties
  <2> QED BY <2>1
<1>5. pull[s].done = CodesRead(s)
  <2>1. pull[s].done \subseteq CodesRead(s)
    BY <1>1, <1>2 DEF PullInv, ReadAll
  <2>2. ASSUME NEW m \in CodesRead(s), m \notin pull[s].done
        PROVE  FALSE
    <3>1. m \in MaterialCodes /\ \E i \in DOMAIN pull[s].got : pull[s].got[i][1] = m
      BY <1>4 DEF CodesRead
    <3> QED BY <2>2, <3>1 DEF CommitPull, Pending
  <2> QED BY <2>1, <2>2
<1>6. pull[s].steady \subseteq pull[s].done \/ Excused(s)
  BY <1>1, <1>2, <1>5 DEF PullInv, ReadAll
<1>7. Busy(s)
  BY <1>2 DEF Busy
<1>8. ASSUME NEW m \in pull[s].done
      PROVE  /\ m \in MaterialCodes /\ Got(s, m) \in Versions /\ Got(s, m) <= erpVersion[m]
             /\ origin # "simulator" /\ pull[s].alone => newest[m] <= Got(s, m)
  <2>1. PICK i \in DOMAIN pull[s].got : pull[s].got[i][1] = m /\ Got(s, m) = pull[s].got[i][2]
    BY <1>2, <1>5, GotIsRead
  <2> QED BY <1>1, <1>4, <1>7, <2>1 DEF PullInv, ReadingsFresh
<1>9. /\ material' = [m \in MaterialCodes |-> IF m \in pull[s].done
                            THEN [there |-> TRUE, active |-> TRUE, version |-> Got(s, m)]
                            ELSE material[m]]
      /\ newest' = [m \in MaterialCodes |-> IF m \in pull[s].done /\ Got(s, m) > newest[m]
                               THEN Got(s, m) ELSE newest[m]]
      /\ crossed' = crossed \cup {m \in pull[s].done : Got(s, m) < newest[m] /\ ~pull[s].alone}
  BY DEF CommitPull
<1>10. /\ material \in [MaterialCodes -> MaterialRow] /\ newest \in [MaterialCodes -> Versions]
       /\ erpVersion \in [MaterialCodes -> Versions] /\ crossed \subseteq MaterialCodes
  BY <1>1 DEF RowsTyped
<1>11. RowsTyped'
  <2>1. material' \in [MaterialCodes -> MaterialRow]
    BY <1>8, <1>9, <1>10 DEF MaterialRow
  <2>2. newest' \in [MaterialCodes -> Versions]
    BY <1>8, <1>9, <1>10
  <2>3. crossed' \subseteq MaterialCodes
    BY <1>2, <1>9, <1>10
  <2> QED BY <1>1, <1>3, <2>1, <2>2, <2>3 DEF RowsTyped
<1>12. ASSUME NEW m \in MaterialCodes
       PROVE  RowSynced(m)'
  <2>1. RowSynced(m)
    BY DEF SyncInv
  <2>2. newest[m] \in Nat /\ erpVersion[m] \in Nat /\ (m \in pull[s].done => Got(s, m) \in Nat)
    BY <1>8, <1>10, SyncAssumption DEF Versions
  <2>3. crossed \subseteq crossed'
    BY <1>9
  <2>4. CASE m \notin pull[s].done
    <3>1. material'[m] = material[m] /\ newest'[m] = newest[m]
      BY <1>9, <2>4
    <3> QED BY <1>3, <2>1, <2>3, <3>1 DEF RowSynced
  <2>5. CASE m \in pull[s].done
    <3>1. material'[m].version = Got(s, m) /\ newest'[m] = IF Got(s, m) > newest[m] THEN Got(s, m) ELSE newest[m]
      BY <1>9, <2>5
    <3>2. newest'[m] <= erpVersion[m]
      BY <1>8, <2>1, <2>2, <2>5, <3>1 DEF RowSynced
    <3>3. CASE Got(s, m) < newest[m] /\ ~pull[s].alone
      <4>1. m \in crossed'
        BY <1>9, <2>5, <3>3
      <4> QED BY <1>3, <3>2, <4>1 DEF RowSynced
    <3>4. CASE ~(Got(s, m) < newest[m])
      <4>1. newest'[m] <= material'[m].version
        BY <2>2, <2>5, <3>1, <3>4
      <4> QED BY <1>3, <3>2, <4>1 DEF RowSynced
    <3>5. CASE Got(s, m) < newest[m] /\ pull[s].alone
      <4>1. origin = "simulator"
        BY <1>8, <2>2, <2>5, <3>5
      <4> QED BY <1>3, <3>2, <4>1 DEF RowSynced
    <3> QED BY <3>3, <3>4, <3>5
  <2> QED BY <2>4, <2>5
<1>13. pull'[s] = [pull[s] EXCEPT !.at = "committed", !.got = << >>, !.offset = 0, !.alone = TRUE]
  BY <1>1 DEF CommitPull
<1>14. /\ pull'[s].at = "committed" /\ pull'[s].got = << >> /\ pull'[s].done = pull[s].done
       /\ pull'[s].steady = pull[s].steady /\ pull'[s].moved = pull[s].moved
  BY <1>2, <1>13 DEF PullRecord
<1>15. pull'[s] \in PullRecord
  <2>1. << >> \in Seq(MaterialCodes \X Versions)
    BY EmptySeq
  <2>2. pull'[s] = [at |-> "committed", offset |-> 0, got |-> << >>, steady |-> pull[s].steady,
                    moved |-> pull[s].moved, done |-> pull[s].done, alone |-> TRUE]
    BY <1>2, <1>13 DEF PullRecord
  <2>3. pull[s].steady \in SUBSET MaterialCodes /\ pull[s].moved \in BOOLEAN /\ pull[s].done \in SUBSET MaterialCodes
    BY <1>2 DEF PullRecord
  <2> QED BY <2>1, <2>2, <2>3 DEF PullRecord
<1>16. pull' = [pull EXCEPT ![s] = pull'[s]]
  BY <1>1, <1>13 DEF CommitPull
<1>17. ~Busy(s)'
  BY <1>14 DEF Busy
<1>18. /\ pull' \in [Pulls -> PullRecord] /\ AloneIsAlone(s)'
       /\ \A t \in Pulls \ {s} : PullInv(t)'
  BY <1>3, <1>7, <1>15, <1>16, <1>17, OthersKept
<1>19. ReadingsFresh(s)' /\ ReadSoFar(s)'
  BY <1>14 DEF ReadingsFresh, ReadSoFar
<1>20. ReadAll(s)'
  <2>1. Excused(s)' = Excused(s)
    BY <1>3, <1>14 DEF Excused
  <2> QED BY <1>6, <1>14, <2>1 DEF ReadAll
<1>21. IsInjective(erpList)'
  BY <1>1, <1>3
<1> QED BY <1>11, <1>12, <1>18, <1>19, <1>20, <1>21 DEF SyncInv, PullInv

\* The first states satisfy the invariant.
LEMMA SyncBegins == SyncInit => SyncInv
<1> SUFFICES ASSUME SyncInit
             PROVE  SyncInv
  OBVIOUS
<1>1. << >> \in Seq(MaterialCodes) /\ 0 \in Versions
  BY EmptySeq, SyncAssumption DEF Versions
<1>2. RowsTyped
  <2>1. {NoMaterial, [NoMaterial EXCEPT !.there = TRUE],
         [NoMaterial EXCEPT !.there = TRUE, !.active = TRUE]} \subseteq MaterialRow
    <3>1. NoMaterial \in MaterialRow
      BY <1>1 DEF MaterialRow, NoMaterial
    <3>2. [NoMaterial EXCEPT !.there = TRUE] \in MaterialRow
      BY <3>1 DEF MaterialRow
    <3>3. [NoMaterial EXCEPT !.there = TRUE, !.active = TRUE] \in MaterialRow
      BY <3>1 DEF MaterialRow
    <3> QED BY <3>1, <3>2, <3>3
  <2>2. material \in [MaterialCodes -> MaterialRow]
    BY <2>1 DEF SyncInit
  <2>3. erpVersion \in [MaterialCodes -> Versions] /\ newest \in [MaterialCodes -> Versions]
    BY <1>1 DEF SyncInit
  <2>4. erpList \in Seq(MaterialCodes) /\ crossed \subseteq MaterialCodes
    BY <1>1 DEF SyncInit
  <2>5. origin \in {"sap", "oracle", "simulator"}
    BY DEF SyncInit
  <2> QED BY <2>2, <2>3, <2>4, <2>5 DEF RowsTyped
<1>3. pull \in [Pulls -> PullRecord]
  BY IdleIsTyped DEF SyncInit
<1>4. IsInjective(erpList)
  BY DEF SyncInit, IsInjective
<1>5. \A m \in MaterialCodes : RowSynced(m)
  <2>1. \A m \in MaterialCodes : newest[m] = 0 /\ erpVersion[m] = 0 /\ material[m].version \in Nat
    <3> TAKE m \in MaterialCodes
    <3>1. material[m] \in MaterialRow
      BY <1>2 DEF RowsTyped
    <3> QED BY <3>1 DEF SyncInit, MaterialRow, Versions
  <2>2. \A m \in MaterialCodes : 0 <= material[m].version
    BY <2>1
  <2> QED BY <2>1, <2>2 DEF RowSynced
<1>6. \A s \in Pulls : PullInv(s)
  <2>1. \A s \in Pulls : pull[s].at = "idle" /\ pull[s].got = << >>
    BY DEF SyncInit, IdlePull
  <2> QED BY <2>1 DEF PullInv, ReadingsFresh, AloneIsAlone, ReadSoFar, ReadAll, Busy
<1> QED BY <1>2, <1>3, <1>4, <1>5, <1>6 DEF SyncInv

\* Every step keeps the invariant.
LEMMA SyncStep == SyncInv /\ [SyncNext]_syncVars => SyncInv'
<1> SUFFICES ASSUME SyncInv, [SyncNext]_syncVars
             PROVE  SyncInv'
  OBVIOUS
<1>1. ASSUME NEW m \in MaterialCodes, ListMaterial(m) \/ ChangeMaterial(m) \/ UnlistMaterial(m)
      PROVE  SyncInv'
  BY <1>1, ListStep, ChangeStep, UnlistStep
<1>2. ASSUME NEW s \in Pulls, BeginPull(s) \/ ApplyMaterial(s) \/ CommitPull(s)
      PROVE  SyncInv'
  BY <1>2, BeginStep, ApplyStep, SyncCommitStep
<1>3. ASSUME NEW s \in Pulls, FetchFromSap(s) \/ FetchFromOracle(s) \/ FetchFromSimulator(s)
      PROVE  SyncInv'
  BY <1>3, FetchStep
<1>4. ASSUME NEW s \in Pulls, RollBackPull(s)
      PROVE  SyncInv'
  BY <1>4, BackToIdle DEF RollBackPull
<1>5. CASE UNCHANGED syncVars
  BY <1>5 DEF syncVars, SyncInv, RowsTyped, RowSynced, PullInv, ReadingsFresh, AloneIsAlone, ReadSoFar, ReadAll,
              CodesRead, Excused, Busy
<1> QED BY <1>1, <1>2, <1>3, <1>4, <1>5 DEF SyncNext

\* Every reachable state of ErpSync is well typed and satisfies the invariant, for any
\* number of syncs, any page size and any list.
THEOREM SyncIsInductive == SyncSpec => [](SyncTypeOK /\ SyncInv)
<1>1. SyncSpec => []SyncInv
  BY SyncBegins, SyncStep, PTL DEF SyncSpec
<1> QED BY <1>1, SyncTyped, PTL

\* A sync that committed (import of materials, adapters/erp/routes.py) has updated all
\* the ERP listed, and no row goes back, but for the causes SyncExplained names.
THEOREM SyncsHaveExcuses == SyncSpec => []SyncExplained
<1>1. SyncInv => SyncExplained
  <2> SUFFICES ASSUME SyncInv
               PROVE  SyncExplained
    OBVIOUS
  <2>1. ASSUME NEW s \in Pulls, pull[s].at = "committed"
        PROVE  \/ pull[s].steady \subseteq pull[s].done
               \/ pull[s].moved
               \/ origin = "sap" /\ Cardinality(pull[s].steady) > PageSize
    BY <2>1 DEF SyncInv, PullInv, ReadAll, Excused
  <2>2. ASSUME NEW m \in MaterialCodes, material[m].there, material[m].version < newest[m]
        PROVE  m \in crossed \/ origin = "simulator"
    <3>1. material[m].version \in Nat /\ newest[m] \in Nat /\ RowSynced(m)
      BY DEF SyncInv, RowsTyped, MaterialRow, Versions
    <3> QED BY <2>2, <3>1 DEF RowSynced
  <2> QED BY <2>1, <2>2 DEF SyncExplained
<1> QED BY <1>1, SyncIsInductive, PTL
=============================================================================
