---------------------------- MODULE ServerProofs ----------------------------
(***************************************************************************)
(* What the server and its gateway guarantee, for every value of the       *)
(* constants: the calls of the ERP, the reports of completed steps, the    *)
(* rows of production counters, the state log of the equipment, the events *)
(* told to browsers, and the counters and status of production orders.     *)
(*                                                                         *)
(* Each part has an inductive invariant, the lemmas that its steps keep    *)
(* it, and the theorem it is for.                                          *)
(***************************************************************************)
EXTENDS ErpCalls, CompletionReports, CounterRows, EquipmentState, Events, OrderRequests,
        Sums, TLAPS

(***************************************************************************)
(* The reports clients post to the ERP.                                    *)
(***************************************************************************)

\* Before its end a call has booked nothing, except one whose answer was lost, which is
\* about to be queued.
CallSoFar(d) ==
    /\ direct[d] \in {"idle", "asking", "authorized", "ready"} => posted[d] = 0 /\ enqueued[d] = 0
    /\ direct[d] = "queueing" => enqueued[d] = 0 /\ (posted[d] = 1 => "unanswered" \in doubts[d])

CallsInv == ErpCallTypeOK /\ CallsExplained /\ \A d \in DirectCalls : CallSoFar(d)

\* No call was made.
LEMMA CallsBegin == ErpCallInit => CallsInv
BY DEF ErpCallInit, CallsInv, ErpCallTypeOK, CallsExplained, CallSoFar, InFlightCalls, Disconnected, ClientStates

\* A call goes through the token, the request and the answer, each of which may fail.
LEMMA CallsStep == CallsInv /\ [ErpCallNext]_erpCallVars => CallsInv'
<1> SUFFICES ASSUME CallsInv, [ErpCallNext]_erpCallVars PROVE CallsInv'
  OBVIOUS
<1> DEFINE Calls == <<direct, posted, enqueued, doubts>>
           CallTypeOK == /\ direct \in [DirectCalls -> InFlightCalls \cup
                                        {"idle", "posted", "queued", "failed", "unavailable"}]
                         /\ posted \in [DirectCalls -> 0..1] /\ enqueued \in [DirectCalls -> 0..1]
                         /\ doubts \in [DirectCalls -> SUBSET {"unanswered", "refused", "cut"}]
<1>t. ErpCallTypeOK <=> erp \in Erps /\ session \in ClientStates /\ CallTypeOK
  BY DEF ErpCallTypeOK
<1>q. \A d \in DirectCalls : NotReached(d) \in {"queueing", "failed"}
  BY DEF NotReached
<1>1. erp' \in Erps /\ session' \in ClientStates
  <2>1. \A s \in ClientStates : /\ \A b \in {"good", "due", "revoked"} : [s EXCEPT !.bearer = b] \in ClientStates
                               /\ \A t \in {"none", "good", "ended"} : [s EXCEPT !.csrf = t] \in ClientStates
    BY DEF ClientStates
  <2>2. Disconnected \in ClientStates /\ [on |-> TRUE, bearer |-> "good", csrf |-> "none"] \in ClientStates
    BY DEF ClientStates, Disconnected
  <2>3. erp' = erp
    BY DEF ErpCallNext, ConnectErp, DisconnectErp, TokensAge, ErpServerEnds, CallErp, RenewBearer,
           FetchCsrf, PostToSap, PostToOracle, PostToSimulator, Book, RefuseReport, LoseReport, QueueReport, erpCallVars
  <2>4. session' \in ClientStates
    <3>1. \/ session' \in {session, Disconnected, [on |-> TRUE, bearer |-> "good", csrf |-> "none"]}
          \/ \E b \in {"due", "revoked", "good"} : session' = [session EXCEPT !.bearer = b]
          \/ \E t \in {"none", "good", "ended"} : session' = [session EXCEPT !.csrf = t]
      BY DEF ErpCallNext, ConnectErp, DisconnectErp, TokensAge, ErpServerEnds, CallErp, RenewBearer,
             FetchCsrf, PostToSap, PostToOracle, PostToSimulator, Book, RefuseReport, LoseReport, QueueReport, erpCallVars
    <3> QED BY <2>1, <2>2, <3>1 DEF CallsInv, ErpCallTypeOK
  <2> QED BY <2>3, <2>4 DEF CallsInv, ErpCallTypeOK
<1>2. CASE UNCHANGED Calls
  BY <1>1, <1>2 DEF CallsInv, CallsExplained, CallSoFar, ErpCallTypeOK
<1>3. CASE ErpServerEnds
  <2>1. CallTypeOK'
    BY <1>3 DEF ErpServerEnds, CallsInv, ErpCallTypeOK, Books, InFlightCalls
  <2>2. ASSUME NEW d \in DirectCalls PROVE CallSoFar(d)'
    BY <1>3 DEF ErpServerEnds, CallsInv, ErpCallTypeOK, Books, InFlightCalls, CallSoFar
  <2>3. CallsExplained'
    BY <1>3 DEF ErpServerEnds, CallsInv, ErpCallTypeOK, Books, InFlightCalls, CallSoFar, CallsExplained
  <2> QED BY <1>1, <2>1, <2>2, <2>3 DEF CallsInv, ErpCallTypeOK
<1>4. ASSUME NEW c \in DirectCalls,
             CallErp(c) \/ RenewBearer(c) \/ FetchCsrf(c)
      PROVE  CallsInv'
  <2>1. /\ direct[c] \in {"idle", "asking", "authorized"}
        /\ \E s \in {"asking", "unavailable", "authorized", "ready", "queueing", "failed"} :
               direct' = [direct EXCEPT ![c] = s]
        /\ UNCHANGED <<posted, enqueued, doubts>>
    BY <1>4, <1>q DEF CallErp, RenewBearer, FetchCsrf, Books
  <2> QED BY <1>1, <2>1 DEF CallsInv, ErpCallTypeOK, CallsExplained, CallSoFar, InFlightCalls
<1>5. ASSUME NEW c \in DirectCalls,
             PostToSap(c) \/ PostToOracle(c) \/ PostToSimulator(c)
      PROVE  CallsInv'
  <2>1. /\ direct[c] = "ready" /\ posted' = [posted EXCEPT ![c] = 1] /\ UNCHANGED enqueued
        /\ Answered(c) \/ Unanswered(c)
    BY <1>5 DEF PostToSap, PostToOracle, PostToSimulator, Book
  <2>2. CASE Answered(c)
    BY <1>1, <2>1, <2>2 DEF Answered, CallsInv, ErpCallTypeOK, CallsExplained, CallSoFar, InFlightCalls
  <2>3. CASE Unanswered(c)
    <3>1. /\ \E s \in {"queueing", "failed"} : direct' = [direct EXCEPT ![c] = s]
          /\ doubts' = [doubts EXCEPT ![c] = @ \cup {"unanswered"}]
      BY <2>3, <1>q DEF Unanswered
    <3> QED BY <1>1, <2>1, <3>1 DEF CallsInv, ErpCallTypeOK, CallsExplained, CallSoFar, InFlightCalls
  <2> QED BY <2>1, <2>2, <2>3
<1>6. ASSUME NEW c \in DirectCalls, RefuseReport(c) \/ LoseReport(c)
      PROVE  CallsInv'
  <2>1. /\ direct[c] = "ready" /\ UNCHANGED <<posted, enqueued>>
        /\ \E s \in {"queueing", "failed"} : direct' = [direct EXCEPT ![c] = s]
        /\ \/ UNCHANGED doubts
           \/ doubts' = [doubts EXCEPT ![c] = @ \cup {"refused"}]
    BY <1>6, <1>q DEF RefuseReport, LoseReport, Books
  <2> QED BY <1>1, <2>1 DEF CallsInv, ErpCallTypeOK, CallsExplained, CallSoFar, InFlightCalls
<1>7. ASSUME NEW c \in DirectCalls, QueueReport(c) PROVE CallsInv'
  BY <1>1, <1>7 DEF QueueReport, CallsInv, ErpCallTypeOK, CallsExplained, CallSoFar, InFlightCalls
<1>8. ConnectErp \/ DisconnectErp \/ TokensAge => UNCHANGED Calls
  BY DEF ConnectErp, DisconnectErp, TokensAge, Books
<1> QED BY <1>2, <1>3, <1>4, <1>5, <1>6, <1>7, <1>8 DEF ErpCallNext, erpCallVars

\* A caller told of a success has its report booked or queued, both only if the answer of the
\* ERP was lost; one told of a failure has neither, unless an answer was lost or the process
\* ended: for any number of direct calls, whichever of their steps fails.
THEOREM CallersToldTheTruth == ErpCallSpec => []CallsExplained
<1>1. CallsInv => CallsExplained
  BY DEF CallsInv
<1> QED BY <1>1, CallsBegin, CallsStep, PTL DEF ErpCallSpec
-----------------------------------------------------------------------------
(***************************************************************************)
(* The reports of completed steps.                                         *)
(***************************************************************************)

Reporters == {c \in Completions : completion[c].told}

\* A request that has the row of the visit, in hand or closed for good.
HasRow(c) ==
    /\ completion[c].row
    /\ completion[c].at \in {"looked", "flushed", "heard"} \/ c \in completed

WithRow == {c \in completed : completion[c].row}

\* Reports are told one by one, and so are the actuals.
Tallied ==
    /\ IsFiniteSet(Reporters) /\ reported = Cardinality(Reporters)
    /\ IsFiniteSet(WithRow) /\ actuals = Cardinality(WithRow)
    /\ IsFiniteSet(completed)

\* What has become of a request, and what is on record about it.
Traced(c) ==
    /\ c \in completed => completion[c].at = "ended"
    /\ c \in completed /\ c \notin Reporters => "unheard" \in strays
    /\ c \in Reporters => completion[c].at \in {"heard", "ended"}
    /\ c \in Reporters /\ completion[c].at = "ended" /\ c \notin completed => "rolledBack" \in strays
    /\ completion[c].at \in {"flushed", "heard"} /\ ~completion[c].row => "repeated" \in strays
    /\ completion[c].at = "looked" /\ ~completion[c].row => "repeated" \in strays
    /\ c \in completed /\ ~completion[c].row => "repeated" \in strays
    /\ completion[c].at = "heard" /\ c \notin Reporters => "unheard" \in strays
    /\ c \in completed /\ completion[c].row => visit # "open"
    /\ completion[c].row => completion[c].at \in {"looked", "flushed", "heard", "ended"}

CompletionInv ==
    /\ CompletionTypeOK /\ Tallied
    /\ \A c \in Completions : Traced(c)
    /\ "overlapped" \notin strays => \A c, d \in Completions : HasRow(c) /\ HasRow(d) => c = d

\* No operation was completed.
LEMMA CompletionBegins == CompletionInit => CompletionInv
<1> SUFFICES ASSUME CompletionInit PROVE CompletionInv
  OBVIOUS
<1>1. \A c \in Completions : /\ completion[c] = [at |-> "none", row |-> FALSE, told |-> FALSE]
                             /\ ~completion[c].told /\ ~completion[c].row /\ completion[c].at = "none"
  BY DEF CompletionInit
<1>2. Reporters = {} /\ WithRow = {}
  BY <1>1 DEF Reporters, WithRow, CompletionInit
<1>3. Tallied
  BY <1>2, FS_EmptySet DEF Tallied, CompletionInit
<1>4. CompletionTypeOK
  BY CompletionAssumption DEF CompletionTypeOK, CompletionInit, CompletionStages
<1>5. \A c \in Completions : Traced(c) /\ ~HasRow(c)
  BY <1>1, <1>2 DEF Traced, HasRow, CompletionInit
<1> QED BY <1>3, <1>4, <1>5 DEF CompletionInv

\* The fields of a request.
LEMMA CompletionSteps ==
    ASSUME CompletionTypeOK, NEW c \in Completions
    PROVE  completion[c].at \in CompletionStages /\ completion[c].row \in BOOLEAN /\ completion[c].told \in BOOLEAN
BY DEF CompletionTypeOK

\* The steps of a request as whole records.
LEMMA CompletionForms ==
    ASSUME CompletionTypeOK, NEW c \in Completions
    PROVE  /\ \A s \in CompletionStages : [completion EXCEPT ![c].at = s] =
                [completion EXCEPT ![c] = [at |-> s, row |-> completion[c].row, told |-> completion[c].told]]
           /\ \A b \in BOOLEAN : [completion EXCEPT ![c].at = "looked", ![c].row = b] =
                [completion EXCEPT ![c] = [at |-> "looked", row |-> b, told |-> completion[c].told]]
           /\ [completion EXCEPT ![c].at = "heard", ![c].told = TRUE] =
                [completion EXCEPT ![c] = [at |-> "heard", row |-> completion[c].row, told |-> TRUE]]
<1> DEFINE Progress == [at : CompletionStages, row : BOOLEAN, told : BOOLEAN]
<1>0. completion[c] \in Progress /\ completion \in [Completions -> Progress]
  BY DEF CompletionTypeOK
<1>1. \A r \in Progress, s \in CompletionStages : [r EXCEPT !.at = s] = [at |-> s, row |-> r.row, told |-> r.told]
  OBVIOUS
<1>2. \A r \in Progress, b \in BOOLEAN :
         [r EXCEPT !.at = "looked", !.row = b] = [at |-> "looked", row |-> b, told |-> r.told]
  <2> SUFFICES ASSUME NEW r \in Progress, NEW b \in BOOLEAN
               PROVE  [r EXCEPT !.at = "looked", !.row = b] = [at |-> "looked", row |-> b, told |-> r.told]
    OBVIOUS
  <2> DEFINE x == [r EXCEPT !.at = "looked", !.row = b]
             y == [at |-> "looked", row |-> b, told |-> r.told]
  <2>1. x \in Progress /\ x.at = "looked" /\ x.row = b /\ x.told = r.told
    BY DEF CompletionStages
  <2>2. y \in Progress /\ y.at = "looked" /\ y.row = b /\ y.told = r.told
    BY DEF CompletionStages
  <2> HIDE DEF x, y
  <2>3. x = y
    BY <2>1, <2>2
  <2> QED BY <2>3 DEF x, y
<1>3. \A r \in Progress : [r EXCEPT !.at = "heard", !.told = TRUE] = [at |-> "heard", row |-> r.row, told |-> TRUE]
  <2> SUFFICES ASSUME NEW r \in Progress
               PROVE  [r EXCEPT !.at = "heard", !.told = TRUE] = [at |-> "heard", row |-> r.row, told |-> TRUE]
    OBVIOUS
  <2> DEFINE x == [r EXCEPT !.at = "heard", !.told = TRUE]
             y == [at |-> "heard", row |-> r.row, told |-> TRUE]
  <2>1. x \in Progress /\ x.at = "heard" /\ x.row = r.row /\ x.told = TRUE
    BY DEF CompletionStages
  <2>2. y \in Progress /\ y.at = "heard" /\ y.row = r.row /\ y.told = TRUE
    BY DEF CompletionStages
  <2> HIDE DEF x, y
  <2>3. x = y
    BY <2>1, <2>2
  <2> QED BY <2>3 DEF x, y
<1> HIDE DEF Progress
<1> QED BY <1>0, <1>1, <1>2, <1>3

\* One request goes on: the others stay where they are.
LEMMA OneCompletion ==
    ASSUME CompletionInv, NEW c \in Completions, NEW s \in CompletionStages, NEW b \in BOOLEAN, NEW t \in BOOLEAN,
           completion' = [completion EXCEPT ![c] = [at |-> s, row |-> b, told |-> t]]
    PROVE  /\ completion' \in [Completions -> [at : CompletionStages, row : BOOLEAN, told : BOOLEAN]]
           /\ completion'[c].at = s /\ completion'[c].row = b /\ completion'[c].told = t
           /\ \A d \in Completions \ {c} : completion'[d] = completion[d]
BY DEF CompletionInv, CompletionTypeOK

\* Before its handler a request changes neither tally.
LEMMA EarlySteps ==
    ASSUME CompletionInv, NEW c \in Completions, Admit(c) \/ LookForRow(c) \/ CloseVisit(c)
    PROVE  CompletionInv'
<1>0. CompletionTypeOK /\ Tallied /\ Traced(c) /\ completion[c].told \in BOOLEAN /\ completion[c].row \in BOOLEAN
  BY CompletionSteps DEF CompletionInv
<1>1. PICK s \in {"admitted", "looked", "flushed"}, b \in BOOLEAN :
         /\ completion' = [completion EXCEPT ![c] = [at |-> s, row |-> b, told |-> completion[c].told]]
         /\ UNCHANGED <<visit, actuals, reported, completed>>
         /\ s = "looked" => /\ completion[c].at = "admitted" /\ (b <=> visit = "open")
                            /\ strays' = strays \cup (IF visit # "open" THEN {"repeated"} ELSE {})
                                                \cup (IF RowReaders # {} THEN {"overlapped"} ELSE {})
         /\ s = "admitted" => completion[c].at = "none" /\ strays' = strays /\ b = completion[c].row
         /\ s = "flushed" => completion[c].at = "looked" /\ strays' = strays /\ b = completion[c].row
  <2>1. CASE Admit(c)
    <3>1. completion' = [completion EXCEPT ![c] = [at |-> "admitted", row |-> completion[c].row, told |-> completion[c].told]]
      BY <1>0, <2>1, CompletionForms DEF Admit, CompletionStages
    <3> QED BY <1>0, <2>1, <3>1 DEF Admit
  <2>2. CASE LookForRow(c)
    <3>2. OpenRow \in BOOLEAN /\ (OpenRow <=> visit = "open")
      BY DEF OpenRow
    <3>1. completion' = [completion EXCEPT ![c] = [at |-> "looked", row |-> OpenRow, told |-> completion[c].told]]
      <4>1. completion' = [completion EXCEPT ![c].at = "looked", ![c].row = OpenRow]
        BY <2>2 DEF LookForRow
      <4>2. \A r \in BOOLEAN : [completion EXCEPT ![c].at = "looked", ![c].row = r] =
                [completion EXCEPT ![c] = [at |-> "looked", row |-> r, told |-> completion[c].told]]
        BY <1>0, CompletionForms
      <4> QED BY <3>2, <4>1, <4>2
    <3> QED BY <1>0, <2>2, <3>1, <3>2 DEF LookForRow
  <2>3. CASE CloseVisit(c)
    <3>1. completion' = [completion EXCEPT ![c] = [at |-> "flushed", row |-> completion[c].row, told |-> completion[c].told]]
      BY <1>0, <2>3, CompletionForms DEF CloseVisit, CompletionStages
    <3> QED BY <1>0, <2>3, <3>1 DEF CloseVisit
  <2> QED BY <2>1, <2>2, <2>3
<1>2. /\ completion' \in [Completions -> [at : CompletionStages, row : BOOLEAN, told : BOOLEAN]]
      /\ completion'[c].at = s /\ completion'[c].row = b /\ (completion'[c].told <=> completion[c].told)
      /\ \A d \in Completions \ {c} : completion'[d] = completion[d]
  <2>1. s \in CompletionStages
    BY <1>1 DEF CompletionStages
  <2> QED BY <1>0, <1>1, <2>1, OneCompletion
<1>3. c \notin completed /\ c \notin Reporters /\ ~completion[c].told
  BY <1>0, <1>1 DEF Traced, Reporters
<1>4. strays \subseteq strays' /\ strays' \subseteq {"unheard", "rolledBack", "overlapped", "repeated"}
      /\ ("overlapped" \notin strays' => "overlapped" \notin strays)
  BY <1>0, <1>1 DEF CompletionTypeOK
<1>5. Reporters' = Reporters /\ WithRow' = WithRow /\ completed' = completed
  BY <1>0, <1>1, <1>2, <1>3 DEF Reporters, WithRow, CompletionTypeOK
<1>6. CompletionTypeOK' /\ Tallied'
  BY <1>0, <1>1, <1>2, <1>4, <1>5 DEF CompletionTypeOK, Tallied
<1>7. ASSUME NEW d \in Completions PROVE Traced(d)'
  <2>1. CASE d = c
    <3>1. s = "looked" /\ ~b => "repeated" \in strays'
      BY <1>1
    <3>2. s = "flushed" /\ ~b => "repeated" \in strays'
      BY <1>0, <1>1 DEF Traced
    <3>3. b => s # "admitted"
      BY <1>0, <1>1 DEF Traced
    <3> QED BY <1>1, <1>2, <1>3, <1>5, <2>1, <3>1, <3>2, <3>3 DEF Traced
  <2>2. CASE d # c
    BY <1>1, <1>2, <1>4, <1>5, <2>2 DEF CompletionInv, Traced
  <2> QED BY <2>1, <2>2
<1>8. ASSUME "overlapped" \notin strays', NEW d \in Completions, NEW e \in Completions, HasRow(d)', HasRow(e)' PROVE d = e
  <2>1. \A x \in Completions \ {c} : HasRow(x)' => HasRow(x)
    BY <1>1, <1>2 DEF HasRow
  <2>2. CASE s = "looked"
    <3>1. \A x \in Completions \ {c} : HasRow(x)' => ~HasRow(c)'
      <4> SUFFICES ASSUME NEW x \in Completions \ {c}, HasRow(x)', HasRow(c)' PROVE FALSE
        OBVIOUS
      <4>1. visit = "open" /\ RowReaders = {}
        BY <1>1, <1>2, <1>8, <2>2 DEF HasRow
      <4>2. x \notin completed
        BY <2>1, <4>1 DEF HasRow, CompletionInv, Traced
      <4> QED BY <2>1, <4>1, <4>2 DEF HasRow, RowReaders
    <3> QED BY <1>4, <1>8, <2>1, <3>1 DEF CompletionInv
  <2>3. CASE s # "looked"
    <3>1. HasRow(c)' => HasRow(c)
      BY <1>1, <1>2, <1>3, <2>3 DEF HasRow
    <3> QED BY <1>4, <1>8, <2>1, <3>1 DEF CompletionInv
  <2> QED BY <2>2, <2>3
<1> QED BY <1>6, <1>7, <1>8 DEF CompletionInv

\* The handler commits a report on a session of its own, before the request commits.
LEMMA HearStep == ASSUME CompletionInv, NEW c \in Completions, Hear(c) PROVE CompletionInv'
<1>0. CompletionTypeOK /\ Tallied /\ Traced(c) /\ completion[c].told \in BOOLEAN /\ completion[c].row \in BOOLEAN
  BY CompletionSteps DEF CompletionInv
<1>1. /\ completion[c].at = "flushed" /\ c \notin completed /\ c \notin Reporters /\ ~completion[c].told
      /\ UNCHANGED <<visit, actuals, completed>>
  BY <1>0 DEF Hear, Traced, Reporters
<1>2. PICK t \in BOOLEAN :
         /\ completion' = [completion EXCEPT ![c] = [at |-> "heard", row |-> completion[c].row, told |-> t]]
         /\ t => reported < MaxReported /\ reported' = reported + 1 /\ strays' = strays
         /\ ~t => reported' = reported /\ strays' = strays \cup {"unheard"}
  <2>1. CASE EnqueueCompletion(c)
    <3>1. completion' = [completion EXCEPT ![c] = [at |-> "heard", row |-> completion[c].row, told |-> TRUE]]
      BY <1>0, <2>1, CompletionForms DEF EnqueueCompletion
    <3> QED BY <2>1, <3>1 DEF EnqueueCompletion
  <2>2. CASE ~EnqueueCompletion(c)
    <3>1. /\ completion' = [completion EXCEPT ![c].at = "heard"]
          /\ strays' = strays \cup {"unheard"} /\ UNCHANGED reported
      BY <2>2 DEF Hear
    <3>2. completion' = [completion EXCEPT ![c] = [at |-> "heard", row |-> completion[c].row, told |-> completion[c].told]]
      BY <1>0, <3>1, CompletionForms DEF CompletionStages
    <3>3. completion[c].told = FALSE
      BY <1>0, <1>1
    <3> QED BY <3>1, <3>2, <3>3
  <2> QED BY <2>1, <2>2
<1>3. /\ completion' \in [Completions -> [at : CompletionStages, row : BOOLEAN, told : BOOLEAN]]
      /\ completion'[c].at = "heard" /\ (completion'[c].row <=> completion[c].row) /\ (completion'[c].told <=> t)
      /\ \A d \in Completions \ {c} : completion'[d] = completion[d]
  BY <1>0, <1>2, OneCompletion DEF CompletionStages
<1>4. strays \subseteq strays' /\ strays' \subseteq {"unheard", "rolledBack", "overlapped", "repeated"}
      /\ ("overlapped" \notin strays' => "overlapped" \notin strays) /\ (~t => "unheard" \in strays')
  BY <1>0, <1>2 DEF CompletionTypeOK
<1>5. WithRow' = WithRow /\ completed' = completed
  BY <1>0, <1>1, <1>3 DEF WithRow, CompletionTypeOK
<1>6. Reporters' = IF t THEN Reporters \cup {c} ELSE Reporters
  BY <1>1, <1>3 DEF Reporters
<1>7. Tallied'
  <2>1. IsFiniteSet(Reporters \cup {c}) /\ Cardinality(Reporters \cup {c}) = Cardinality(Reporters) + 1
    BY <1>0, <1>1, FS_AddElement DEF Tallied
  <2> QED BY <1>0, <1>1, <1>2, <1>5, <1>6, <2>1 DEF Tallied
<1>8. CompletionTypeOK'
  <2>1. reported' \in 0..MaxReported
    BY <1>0, <1>2, CompletionAssumption DEF CompletionTypeOK
  <2> QED BY <1>0, <1>1, <1>3, <1>4, <2>1 DEF CompletionTypeOK
<1>9. ASSUME NEW d \in Completions PROVE Traced(d)'
  <2>1. CASE d = c
    BY <1>0, <1>1, <1>3, <1>4, <1>5, <1>6, <2>1 DEF Traced
  <2>2. CASE d # c
    BY <1>1, <1>3, <1>4, <1>5, <1>6, <2>2 DEF CompletionInv, Traced
  <2> QED BY <2>1, <2>2
<1>10. \A d \in Completions : HasRow(d)' => HasRow(d)
  BY <1>1, <1>3 DEF HasRow
<1> QED BY <1>4, <1>7, <1>8, <1>9, <1>10 DEF CompletionInv

\* The request commits: the completion is there.
LEMMA CommitStep == ASSUME CompletionInv, NEW c \in Completions, CommitCompletion(c) PROVE CompletionInv'
<1>0. CompletionTypeOK /\ Tallied /\ Traced(c) /\ completion[c].told \in BOOLEAN /\ completion[c].row \in BOOLEAN
  BY CompletionSteps DEF CompletionInv
<1>1. /\ completion[c].at = "heard" /\ c \notin completed /\ completed' = completed \cup {c}
      /\ UNCHANGED <<reported, strays>>
      /\ completion[c].row => visit' = (IF visit = "open" THEN "closed" ELSE visit) /\ actuals' = actuals + 1
      /\ ~completion[c].row => UNCHANGED <<visit, actuals>>
  BY <1>0 DEF CommitCompletion, Traced
<1>2. completion' = [completion EXCEPT ![c] = [at |-> "ended", row |-> completion[c].row, told |-> completion[c].told]]
  BY <1>0, CompletionForms DEF CommitCompletion, CompletionStages
<1>3. /\ completion' \in [Completions -> [at : CompletionStages, row : BOOLEAN, told : BOOLEAN]]
      /\ completion'[c].at = "ended" /\ (completion'[c].row <=> completion[c].row)
      /\ (completion'[c].told <=> completion[c].told)
      /\ \A d \in Completions \ {c} : completion'[d] = completion[d]
  BY <1>0, <1>2, OneCompletion DEF CompletionStages
<1>4. Reporters' = Reporters
  BY <1>3 DEF Reporters
<1>5. c \notin WithRow /\ WithRow' = IF completion[c].row THEN WithRow \cup {c} ELSE WithRow
  BY <1>0, <1>1, <1>3 DEF WithRow, CompletionTypeOK
<1>6. Tallied'
  <2>1. IsFiniteSet(WithRow \cup {c}) /\ Cardinality(WithRow \cup {c}) = Cardinality(WithRow) + 1
    BY <1>0, <1>5, FS_AddElement DEF Tallied
  <2>2. IsFiniteSet(completed \cup {c})
    BY <1>0, FS_AddElement DEF Tallied
  <2> QED BY <1>0, <1>1, <1>4, <1>5, <2>1, <2>2 DEF Tallied
<1>7. CompletionTypeOK'
  BY <1>0, <1>1, <1>3 DEF CompletionTypeOK
<1>8. visit' # "open" \/ visit' = visit
  BY <1>1
<1>9. ASSUME NEW d \in Completions PROVE Traced(d)'
  <2>1. CASE d = c
    BY <1>0, <1>1, <1>3, <1>4, <2>1 DEF Traced
  <2>2. CASE d # c
    BY <1>1, <1>3, <1>4, <1>8, <2>2 DEF CompletionInv, Traced
  <2> QED BY <2>1, <2>2
<1>10. \A d \in Completions : HasRow(d)' => HasRow(d)
  BY <1>1, <1>3 DEF HasRow
<1> QED BY <1>1, <1>6, <1>7, <1>9, <1>10 DEF CompletionInv

\* The request is rolled back, whatever was reported of it.
LEMMA AbandonStep == ASSUME CompletionInv, NEW c \in Completions, AbandonCompletion(c) PROVE CompletionInv'
<1>0. CompletionTypeOK /\ Tallied /\ Traced(c) /\ completion[c].told \in BOOLEAN /\ completion[c].row \in BOOLEAN
  BY CompletionSteps DEF CompletionInv
<1>1. /\ completion[c].at # "none" /\ c \notin completed
      /\ strays' = strays \cup (IF completion[c].told THEN {"rolledBack"} ELSE {})
      /\ UNCHANGED <<visit, actuals, reported, completed>>
  BY <1>0 DEF AbandonCompletion, Traced
<1>2. completion' = [completion EXCEPT ![c] = [at |-> "ended", row |-> completion[c].row, told |-> completion[c].told]]
  BY <1>0, CompletionForms DEF AbandonCompletion, CompletionStages
<1>3. /\ completion' \in [Completions -> [at : CompletionStages, row : BOOLEAN, told : BOOLEAN]]
      /\ completion'[c].at = "ended" /\ (completion'[c].row <=> completion[c].row)
      /\ (completion'[c].told <=> completion[c].told)
      /\ \A d \in Completions \ {c} : completion'[d] = completion[d]
  BY <1>0, <1>2, OneCompletion DEF CompletionStages
<1>4. strays \subseteq strays' /\ strays' \subseteq {"unheard", "rolledBack", "overlapped", "repeated"}
      /\ ("overlapped" \notin strays' => "overlapped" \notin strays)
      /\ (completion[c].told => "rolledBack" \in strays')
  BY <1>0, <1>1 DEF CompletionTypeOK
<1>5. Reporters' = Reporters /\ WithRow' = WithRow /\ completed' = completed
  BY <1>0, <1>1, <1>3 DEF Reporters, WithRow, CompletionTypeOK
<1>6. Tallied' /\ CompletionTypeOK'
  BY <1>0, <1>1, <1>3, <1>4, <1>5 DEF CompletionTypeOK, Tallied
<1>7. ASSUME NEW d \in Completions PROVE Traced(d)'
  <2>1. CASE d = c
    BY <1>0, <1>1, <1>3, <1>4, <1>5, <2>1 DEF Traced, Reporters
  <2>2. CASE d # c
    BY <1>1, <1>3, <1>4, <1>5, <2>2 DEF CompletionInv, Traced
  <2> QED BY <2>1, <2>2
<1>8. \A d \in Completions : HasRow(d)' => HasRow(d)
  BY <1>1, <1>3 DEF HasRow
<1> QED BY <1>4, <1>6, <1>7, <1>8 DEF CompletionInv

\* Every step of the completions of one visit keeps the invariant.
LEMMA CompletionKept == CompletionInv /\ [CompletionNext]_completionVars => CompletionInv'
<1> SUFFICES ASSUME CompletionInv, [CompletionNext]_completionVars PROVE CompletionInv'
  OBVIOUS
<1>1. CASE UNCHANGED completionVars
  <2>1. Reporters' = Reporters /\ WithRow' = WithRow
    BY <1>1 DEF completionVars, Reporters, WithRow
  <2>2. CompletionTypeOK' /\ Tallied'
    BY <1>1, <2>1 DEF completionVars, CompletionInv, CompletionTypeOK, Tallied
  <2>3. \A c \in Completions : Traced(c)' /\ (HasRow(c)' => HasRow(c))
    BY <1>1, <2>1 DEF completionVars, CompletionInv, Traced, HasRow
  <2> QED BY <1>1, <2>2, <2>3 DEF completionVars, CompletionInv
<1>2. CASE MoveOn
  <2>1. Reporters' = Reporters /\ WithRow' = WithRow /\ visit' = "left" /\ UNCHANGED <<actuals, reported, completion, completed, strays>>
    BY <1>2 DEF MoveOn, Reporters, WithRow
  <2>2. CompletionTypeOK' /\ Tallied'
    BY <2>1 DEF CompletionInv, CompletionTypeOK, Tallied
  <2>3. \A c \in Completions : Traced(c)' /\ (HasRow(c)' => HasRow(c))
    BY <2>1 DEF CompletionInv, Traced, HasRow
  <2> QED BY <2>1, <2>2, <2>3 DEF CompletionInv
<1> QED BY <1>1, <1>2, EarlySteps, HearStep, CommitStep, AbandonStep DEF CompletionNext

\* A set without two different members has one member at most.
LEMMA AtMostOne ==
    ASSUME NEW S, IsFiniteSet(S), \A x, y \in S : x = y
    PROVE  Cardinality(S) \in {0, 1}
<1>1. CASE S = {}
  BY <1>1, FS_EmptySet
<1>2. CASE S # {}
  <2>1. PICK x \in S : TRUE
    BY <1>2
  <2>2. S = {x}
    BY <2>1
  <2> QED BY <2>2, FS_Singleton
<1> QED BY <1>1, <1>2

\* Every committed completion has its report unless the handler failed, and there are more only
\* if a request was rolled back after its handler committed; actuals are there twice only if two
\* requests had the open row in hand: for any number of requests that complete one visit.
THEOREM CompletionsHaveReports == CompletionSpec => []CompletionsReported
<1>1. ASSUME CompletionInv PROVE CompletionsReported
  <2> DEFINE working == \E c \in Completions : completion[c].told /\ completion[c].at = "heard"
  <2>0. Tallied /\ completed \subseteq Completions /\ Reporters \subseteq Completions /\ reported \in Nat
    BY <1>1, CompletionAssumption DEF CompletionInv, CompletionTypeOK, Reporters
  <2>1. reported < Cardinality(completed) => "unheard" \in strays
    <3> SUFFICES ASSUME "unheard" \notin strays PROVE Cardinality(completed) <= reported
      BY <2>0, FS_CardinalityType DEF Tallied
    <3>1. completed \subseteq Reporters
      BY <1>1, <2>0 DEF CompletionInv, Traced
    <3> QED BY <2>0, <3>1, FS_Subset DEF Tallied
  <2>2. reported > Cardinality(completed) => working \/ "rolledBack" \in strays
    <3> SUFFICES ASSUME ~working, "rolledBack" \notin strays PROVE reported <= Cardinality(completed)
      BY <2>0, FS_CardinalityType DEF Tallied
    <3>1. Reporters \subseteq completed
      BY <1>1, <2>0 DEF CompletionInv, Traced, Reporters
    <3> QED BY <2>0, <3>1, FS_Subset DEF Tallied
  <2>3. reported > 1 => working \/ strays \cap {"rolledBack", "overlapped", "repeated"} # {}
    <3> SUFFICES ASSUME ~working, strays \cap {"rolledBack", "overlapped", "repeated"} = {} PROVE reported <= 1
      BY <2>0
    <3>1. \A c, d \in Reporters : c = d
      <4>1. "rolledBack" \notin strays /\ "overlapped" \notin strays /\ "repeated" \notin strays
        OBVIOUS
      <4>2. \A c \in Reporters : HasRow(c)
        BY <1>1, <2>0, <4>1 DEF CompletionInv, Traced, Reporters, HasRow
      <4> QED BY <1>1, <2>0, <4>1, <4>2 DEF CompletionInv
    <3> QED BY <2>0, <3>1, AtMostOne DEF Tallied
  <2>4. actuals > 1 => "overlapped" \in strays
    <3> SUFFICES ASSUME "overlapped" \notin strays PROVE ~(actuals > 1)
      OBVIOUS
    <3>1. \A c, d \in WithRow : c = d
      BY <1>1, <2>0 DEF CompletionInv, WithRow, HasRow
    <3> QED BY <2>0, <3>1, AtMostOne DEF Tallied
  <2> QED BY <2>1, <2>2, <2>3, <2>4 DEF CompletionsReported
<1> QED BY <1>1, CompletionBegins, CompletionKept, PTL DEF CompletionSpec
-----------------------------------------------------------------------------
(***************************************************************************)
(* The rows of production counters.                                        *)
(***************************************************************************)

\* What the rows of a key show but for one of them.
Rest(rows, by, c) == SumOver(InRow(rows, c), Writers \ {by})

\* What a session read of the row is no less than the least to be shown, and leaves room
\* for the other rows; unless it is late it is what the row shows, and there is no other.
HeldWell(h) ==
    /\ \A c \in Columns : least[h.key][c] <= h.old[c]
    /\ \A c \in Columns : h.old[c] + Rest(counters[h.key], h.by, c) <= most[h.key][c]
    /\ h.by = NoRow => h.old = NoParts
    /\ h.by # NoRow => counters[h.key][h.by] # NoRow
    /\ ~h.late => /\ \A w \in Writers : counters[h.key][w] # NoRow => w = h.by
                  /\ h.by # NoRow => counters[h.key][h.by] = h.old

\* A session that saw no row has none; those that saw a row saw the same.
HoldersAgree ==
    \A v \in Writers : writing[v] # Idle =>
        /\ HeldWell(writing[v])
        /\ writing[v].by = NoRow => counters[writing[v].key][v] = NoRow
        /\ \A u \in Writers : OnKey(u, writing[v].key) =>
              writing[v].by = writing[u].by \/ NoRow \in {writing[v].by, writing[u].by}

KeyWell(key) ==
    /\ \A c \in Columns : Shown(counters[key], c) \in least[key][c]..most[key][c]
    /\ key \notin met => /\ least[key] = most[key]
                         /\ \A u, v \in Writers : counters[key][u] # NoRow /\ counters[key][v] # NoRow => u = v

CounterInv == CounterTypeOK /\ HoldersAgree /\ \A key \in Keys : KeyWell(key)


CountRows == [Writers -> Amounts \cup {NoRow}]

\* The fields of what a session holds of a row.
LEMMA HeldShapes ==
    ASSUME CounterTypeOK, NEW w \in Writers, writing[w] # Idle
    PROVE  LET h == writing[w] IN
           /\ h \in Held /\ h.key \in Keys /\ h.by \in Writers \cup {NoRow}
           /\ h.old \in Amounts /\ h.n \in Amounts /\ h.sets \subseteq Columns /\ h.late \in BOOLEAN
BY DEF CounterTypeOK, Held

\* What the rows of a key show, in parts.
LEMMA RowSums ==
    ASSUME NEW rows \in CountRows, NEW c \in Columns
    PROVE  /\ Shown(rows, c) \in Nat
           /\ \A by : Rest(rows, by, c) \in Nat
           /\ \A by : by \notin Writers => Rest(rows, by, c) = Shown(rows, c)
           /\ \A by \in Writers : /\ InRow(rows, c)[by] \in Nat
                                  /\ InRow(rows, c)[by] = IF rows[by] = NoRow THEN 0 ELSE rows[by][c]
                                  /\ Shown(rows, c) = InRow(rows, c)[by] + Rest(rows, by, c)
<1> DEFINE b == InRow(rows, c)
<1>1. \A w \in Writers : b[w] \in Nat /\ b[w] = IF rows[w] = NoRow THEN 0 ELSE rows[w][c]
  <2> TAKE w \in Writers
  <2>1. rows[w] # NoRow => rows[w][c] \in 0..MaxCount
    BY DEF CountRows, Amounts
  <2> QED BY <2>1 DEF InRow
<1>2. Shown(rows, c) = SumOver(b, Writers)
  BY DEF Shown, SumOver, MapThenSumSet, MapThenFoldSet
<1> HIDE DEF b
<1>3. IsFiniteSet(Writers)
  BY CounterRowsAssumption
<1>4. \A T \in SUBSET Writers : SumOver(b, T) \in Nat
  <2> TAKE T \in SUBSET Writers
  <2>1. IsFiniteSet(T) /\ \A w \in T : b[w] \in Nat
    BY <1>1, <1>3, FS_Subset
  <2> QED BY <2>1, SumNotNegative
<1>5. \A by : Writers \ {by} \in SUBSET Writers /\ (by \notin Writers => Writers \ {by} = Writers)
  OBVIOUS
<1>6. \A by : Rest(rows, by, c) = SumOver(b, Writers \ {by})
  BY DEF Rest, b
<1>7. \A by \in Writers : SumOver(b, Writers) = b[by] + SumOver(b, Writers \ {by})
  BY <1>1, <1>3, SumTakesAway
<1>8. SumOver(b, Writers) \in Nat
  BY <1>4
<1>9. \A by : Rest(rows, by, c) \in Nat /\ (by \notin Writers => Rest(rows, by, c) = Shown(rows, c))
  <2> TAKE by
  <2> DEFINE T == Writers \ {by}
  <2>1. T \in SUBSET Writers /\ Rest(rows, by, c) = SumOver(b, T) /\ (by \notin Writers => T = Writers)
    BY <1>6
  <2> HIDE DEF T
  <2> QED BY <1>2, <1>4, <2>1
<1> QED BY <1>1, <1>2, <1>6, <1>7, <1>8, <1>9 DEF b

\* Without other rows the rest is nothing.
LEMMA NoRest ==
    ASSUME NEW rows \in CountRows, NEW c \in Columns, NEW by, \A w \in Writers : rows[w] # NoRow => w = by
    PROVE  Rest(rows, by, c) = 0
<1> DEFINE b == InRow(rows, c)
           T == Writers \ {by}
<1>1. \A w \in T : b[w] = 0
  BY DEF InRow
<1>2. IsFiniteSet(T) /\ Rest(rows, by, c) = SumOver(b, T)
  BY CounterRowsAssumption, FS_Subset DEF Rest
<1> HIDE DEF b, T
<1>3. SumOver(b, T) = SumOver(b, T) + SumOver(b, T)
  <2>1. \A w \in T : b[w] \in Int /\ b[w] = b[w] + b[w]
    BY <1>1
  <2> QED BY <1>2, <2>1, SumsAdd
<1>4. Rest(rows, by, c) \in Nat
  BY RowSums
<1>5. Rest(rows, by, c) = Rest(rows, by, c) + Rest(rows, by, c)
  BY <1>2, <1>3
<1>6. \A n \in Nat : n = n + n => n = 0
  OBVIOUS
<1> QED BY <1>4, <1>5, <1>6

\* What a change of one row makes of the sums.
LEMMA RowChanges ==
    ASSUME NEW rows \in CountRows, NEW more \in CountRows, NEW r \in Writers,
           \A w \in Writers \ {r} : more[w] = rows[w], NEW c \in Columns
    PROVE  /\ Rest(more, r, c) = Rest(rows, r, c)
           /\ \A by : by # r => Rest(more, by, c) = Rest(rows, by, c) + (InRow(more, c)[r] - InRow(rows, c)[r])
<1> DEFINE b == InRow(rows, c)
           d == InRow(more, c)
<1>1. \A w \in Writers : b[w] \in Int /\ d[w] \in Int
  BY RowSums
<1>2. \A w \in Writers \ {r} : d[w] = b[w]
  BY DEF InRow
<1>3. \A by : /\ Rest(more, by, c) = SumOver(d, Writers \ {by}) /\ Rest(rows, by, c) = SumOver(b, Writers \ {by})
              /\ IsFiniteSet(Writers \ {by})
  BY CounterRowsAssumption, FS_Subset DEF Rest
<1> HIDE DEF b, d
<1>4. SumOver(d, Writers \ {r}) = SumOver(b, Writers \ {r})
  <2> DEFINE T == Writers \ {r}
  <2>1. IsFiniteSet(T) /\ \A w \in T : d[w] = b[w]
    BY <1>2, <1>3
  <2> HIDE DEF T
  <2>2. SumOver(d, T) = SumOver(b, T)
    BY <2>1, SumsSame
  <2> QED BY <2>2 DEF T
<1>5. ASSUME NEW by, by # r PROVE Rest(more, by, c) = Rest(rows, by, c) + (d[r] - b[r])
  <2> DEFINE T == Writers \ {by}
             q == d[r] - b[r]
  <2>1. IsFiniteSet(T) /\ r \in T
    BY <1>3, <1>5
  <2>3. q \in Int /\ d[r] = b[r] + q
    BY <1>1
  <2>4. (\A w \in T : b[w] \in Int) /\ \A w \in T \ {r} : d[w] = b[w]
    BY <1>1, <1>2
  <2> HIDE DEF T, q
  <2>2. SumOver(d, T) = SumOver(b, T) + q
    BY <2>1, <2>3, <2>4, SumOfOneChange
  <2> QED BY <1>3, <2>2 DEF T, q
<1> QED BY <1>3, <1>4, <1>5 DEF b, d

\* No row was written.
LEMMA CounterBegins == CounterInit => CounterInv
<1> SUFFICES ASSUME CounterInit PROVE CounterInv
  OBVIOUS
<1>1. NoParts \in Amounts /\ \A c \in Columns : NoParts[c] = 0
  BY CounterRowsAssumption DEF NoParts, Amounts
<1>2. CounterTypeOK
  BY <1>1 DEF CounterInit, CounterTypeOK
<1>3. HoldersAgree
  BY DEF CounterInit, HoldersAgree
<1>4. ASSUME NEW key \in Keys PROVE KeyWell(key)
  <2>1. counters[key] \in CountRows /\ \A w \in Writers : counters[key][w] = NoRow
    BY DEF CounterInit, CountRows
  <2>2. least[key] = NoParts /\ most[key] = NoParts
    BY DEF CounterInit
  <2>3. ASSUME NEW c \in Columns PROVE Shown(counters[key], c) = 0
    <3>1. Rest(counters[key], NoRow, c) = 0
      BY <2>1, NoRest
    <3> QED BY <2>1, <3>1, RowSums, CounterRowsAssumption
  <2> QED BY <1>1, <2>1, <2>2, <2>3 DEF KeyWell
<1> QED BY <1>2, <1>3, <1>4 DEF CounterInv

\* A session reads the row of its key, if there is one.
LEMMA SelectKept ==
    ASSUME CounterInv, NEW w \in Writers, NEW key \in Keys, NEW n \in Amounts, NEW sets \in SUBSET Columns,
           Readable(key), Hold(w, key, n, sets), UNCHANGED <<counters, least, most, met>>
    PROVE  CounterInv'
<1> DEFINE rows == counters[key]
<1>0. rows \in CountRows
  BY DEF CounterInv, CounterTypeOK, CountRows
<1>1. PICK by \in IF RowsOf(key) = {} THEN {NoRow} ELSE RowsOf(key) :
         writing' = [writing EXCEPT ![w] =
            [key |-> key, by |-> by, old |-> IF by = NoRow THEN NoParts ELSE rows[by],
             n |-> n, sets |-> sets, late |-> FALSE]]
  BY DEF Hold
<1> DEFINE old == IF by = NoRow THEN NoParts ELSE rows[by]
           h == [key |-> key, by |-> by, old |-> old, n |-> n, sets |-> sets, late |-> FALSE]
<1>2. /\ by = NoRow => RowsOf(key) = {}
      /\ by # NoRow => by \in Writers /\ rows[by] # NoRow
      /\ by \in Writers \cup {NoRow}
  BY <1>1, CounterRowsAssumption DEF RowsOf
<1>3. \A u \in Writers : rows[u] # NoRow => u = by
  <2>1. IsFiniteSet(RowsOf(key)) /\ Cardinality(RowsOf(key)) <= 1
    BY CounterRowsAssumption, FS_Subset DEF Readable, RowsOf
  <2>2. by # NoRow => by \in RowsOf(key)
    BY <1>2 DEF RowsOf
  <2>3. ASSUME by # NoRow, NEW u \in RowsOf(key) PROVE u = by
    <3>1. SUFFICES ASSUME u # by PROVE FALSE
      OBVIOUS
    <3>2. {u, by} \subseteq RowsOf(key)
      BY <2>2, <2>3
    <3>3. Cardinality({u, by}) = 2
      <4>1. {u, by} = {u} \cup {by} /\ IsFiniteSet({u}) /\ by \notin {u} /\ Cardinality({u}) = 1
        BY <3>1, FS_Singleton
      <4>2. Cardinality({u} \cup {by}) = Cardinality({u}) + 1
        BY <4>1, FS_AddElement
      <4> QED BY <4>1, <4>2
    <3>4. Cardinality({u, by}) <= Cardinality(RowsOf(key))
      BY <2>1, <3>2, FS_Subset
    <3>5. Cardinality(RowsOf(key)) \in Nat
      BY <2>1, FS_CardinalityType
    <3> QED BY <2>1, <3>3, <3>4, <3>5
  <2> QED BY <1>2, <2>3 DEF RowsOf
<1>4. old \in Amounts /\ \A c \in Columns : Shown(rows, c) = old[c] /\ Rest(rows, by, c) = 0
  <2>1. NoParts \in Amounts /\ \A c \in Columns : NoParts[c] = 0
    BY CounterRowsAssumption DEF NoParts, Amounts
  <2>2. old \in Amounts
    BY <1>0, <1>2, <2>1 DEF CountRows
  <2>3. ASSUME NEW c \in Columns PROVE Shown(rows, c) = old[c] /\ Rest(rows, by, c) = 0
    <3>1. Rest(rows, by, c) = 0
      BY <1>0, <1>3, NoRest
    <3>2. CASE by = NoRow
      <4>1. Rest(rows, by, c) = Shown(rows, c)
        BY <1>0, <3>2, RowSums, CounterRowsAssumption
      <4> QED BY <2>1, <3>1, <3>2, <4>1
    <3>3. CASE by # NoRow
      <4>1. /\ by \in Writers /\ Shown(rows, c) = InRow(rows, c)[by] + Rest(rows, by, c)
            /\ InRow(rows, c)[by] = rows[by][c] /\ InRow(rows, c)[by] \in Nat
        BY <1>0, <1>2, <3>3, RowSums
      <4> QED BY <3>1, <3>3, <4>1
    <3> QED BY <3>2, <3>3
  <2> QED BY <2>2, <2>3
<1>5. h \in Held /\ h.key = key /\ h.by = by /\ h.old = old /\ h.n = n /\ h.sets = sets /\ ~h.late
  BY <1>2, <1>4 DEF Held
<1>6. writing' = [writing EXCEPT ![w] = h]
  BY <1>1
<1> HIDE DEF h, old
<1>7. /\ writing' \in [Writers -> Held \cup {Idle}] /\ writing'[w] = h
      /\ \A v \in Writers \ {w} : writing'[v] = writing[v]
  BY <1>5, <1>6 DEF CounterInv, CounterTypeOK
<1>8. CounterTypeOK'
  BY <1>7 DEF CounterInv, CounterTypeOK
<1>9. HeldWell(h)
  <2>1. \A c \in Columns : Shown(rows, c) \in least[key][c]..most[key][c]
    BY DEF CounterInv, KeyWell
  <2>2. \A c \in Columns : least[key][c] <= old[c] /\ old[c] + Rest(rows, by, c) <= most[key][c]
    <3> TAKE c \in Columns
    <3>1. old[c] \in 0..MaxCount
      BY <1>4 DEF Amounts
    <3> QED BY <1>4, <2>1, <3>1
  <2>3. by = NoRow => old = NoParts
    BY DEF old
  <2>4. by # NoRow => rows[by] # NoRow /\ rows[by] = old
    BY <1>2 DEF old
  <2> QED BY <1>3, <1>5, <2>2, <2>3, <2>4 DEF HeldWell
<1>10. HoldersAgree'
  <2>1. \A v \in Writers \ {w} : writing[v] # Idle =>
          /\ HeldWell(writing[v])
          /\ writing[v].by = NoRow => counters[writing[v].key][v] = NoRow
          /\ OnKey(v, key) => writing[v].by \in {NoRow, by}
    <3> TAKE v \in Writers \ {w}
    <3> HAVE writing[v] # Idle
    <3>1. writing[v].by \in Writers \cup {NoRow} /\ HeldWell(writing[v])
      BY HeldShapes DEF CounterInv, HoldersAgree
    <3>2. OnKey(v, key) => writing[v].by \in {NoRow, by}
      BY <1>3, <3>1 DEF HeldWell, OnKey
    <3> QED BY <3>1, <3>2 DEF CounterInv, HoldersAgree
  <2>2. ASSUME NEW v \in Writers, writing'[v] # Idle
        PROVE  /\ HeldWell(writing[v])'
               /\ writing'[v].by = NoRow => counters'[writing'[v].key][v] = NoRow
               /\ \A u \in Writers : OnKey(u, writing[v].key)' =>
                     writing'[v].by = writing'[u].by \/ NoRow \in {writing'[v].by, writing'[u].by}
    <3>1. HeldWell(writing[v])'
      <4>1. CASE v = w
        BY <1>7, <1>9, <4>1 DEF HeldWell
      <4>2. CASE v # w
        BY <1>7, <2>1, <2>2, <4>2 DEF HeldWell
      <4> QED BY <4>1, <4>2
    <3>2. writing'[v].by = NoRow => counters'[writing'[v].key][v] = NoRow
      <4>1. CASE v = w
        BY <1>2, <1>5, <1>7, <4>1 DEF RowsOf
      <4>2. CASE v # w
        BY <1>7, <2>1, <2>2, <4>2
      <4> QED BY <4>1, <4>2
    <3>3. ASSUME NEW u \in Writers, OnKey(u, writing[v].key)'
          PROVE  writing'[v].by = writing'[u].by \/ NoRow \in {writing'[v].by, writing'[u].by}
      <4>0. writing'[u] # Idle /\ writing'[u].key = writing'[v].key
        BY <3>3 DEF OnKey
      <4>1. CASE v = w /\ u = w
        BY <4>1
      <4>2. CASE v = w /\ u # w
        BY <1>5, <1>7, <2>1, <4>0, <4>2 DEF OnKey
      <4>3. CASE v # w /\ u = w
        BY <1>5, <1>7, <2>1, <2>2, <4>0, <4>3 DEF OnKey
      <4>4. CASE v # w /\ u # w
        BY <1>7, <2>2, <4>0, <4>4 DEF CounterInv, HoldersAgree, OnKey
      <4> QED BY <4>1, <4>2, <4>3, <4>4
    <3> QED BY <3>1, <3>2, <3>3
  <2> QED BY <2>2 DEF HoldersAgree
<1>11. \A k \in Keys : KeyWell(k)'
  BY DEF CounterInv, KeyWell
<1> QED BY <1>8, <1>10, <1>11 DEF CounterInv

\* A session that gives up writes nothing.
LEMMA GiveUpKept == ASSUME CounterInv, NEW w \in Writers, GiveUpCounter(w) PROVE CounterInv'
<1>1. /\ writing' \in [Writers -> Held \cup {Idle}] /\ writing'[w] = Idle
      /\ \A v \in Writers \ {w} : writing'[v] = writing[v]
      /\ UNCHANGED <<counters, least, most, met>>
  BY DEF GiveUpCounter, CounterInv, CounterTypeOK
<1>2. CounterTypeOK'
  BY <1>1 DEF CounterInv, CounterTypeOK
<1>3. HoldersAgree'
  BY <1>1 DEF CounterInv, HoldersAgree, HeldWell, OnKey
<1>4. \A k \in Keys : KeyWell(k)'
  BY <1>1 DEF CounterInv, KeyWell
<1> QED BY <1>2, <1>3, <1>4 DEF CounterInv

\* The bounds a commit leaves, column by column, and what it writes.
LEMMA CommitBounds ==
    ASSUME CounterInv, NEW w \in Writers, WriteCounter(w), NEW c \in Columns
    PROVE  LET h    == writing[w]
               rows == counters[h.key]
               row  == IF h.by = NoRow THEN w ELSE h.by
               n    == IF h.by = NoRow THEN h.n ELSE Written(rows[row], h)
           IN  /\ n[c] \in Nat
               /\ Least(w)[c] \in Nat /\ Most(w)[c] \in Nat /\ Most(w)[c] <= MaxCount
               /\ Least(w)[c] <= n[c] + Rest(rows, row, c) /\ n[c] + Rest(rows, row, c) <= Most(w)[c]
               /\ Shared(w) => Least(w)[c] <= least[h.key][c] /\ Most(w)[c] = most[h.key][c] + h.n[c]
               /\ ~Shared(w) /\ ~h.late /\ least[h.key][c] = most[h.key][c] => Least(w)[c] = Most(w)[c]
<1> DEFINE h == writing[w]
           rows == counters[h.key]
           row == IF h.by = NoRow THEN w ELSE h.by
           n == IF h.by = NoRow THEN h.n ELSE Written(rows[row], h)
           lo == least[h.key][c]
           hi == most[h.key][c]
           a == InRow(rows, c)[row]
           o == Rest(rows, row, c)
           alone == ~Shared(w) /\ ~h.late
<1>0. /\ writing[w] # Idle /\ h \in Held /\ h.key \in Keys /\ h.by \in Writers \cup {NoRow}
      /\ h.old \in Amounts /\ h.n \in Amounts /\ h.sets \subseteq Columns /\ h.late \in BOOLEAN
  BY HeldShapes DEF WriteCounter, CounterInv
<1>1. HeldWell(h) /\ (h.by = NoRow => rows[w] = NoRow) /\ row \in Writers /\ rows \in CountRows
  BY <1>0 DEF CounterInv, HoldersAgree, CounterTypeOK, CountRows
<1>2. h.old[c] \in Nat /\ h.n[c] \in Nat /\ lo \in Nat /\ hi \in Nat
  BY <1>0, CounterRowsAssumption DEF CounterInv, CounterTypeOK, Amounts
<1>3. /\ a \in Nat /\ o \in Nat /\ Shown(rows, c) = a + o
      /\ a = IF rows[row] = NoRow THEN 0 ELSE rows[row][c]
  BY <1>1, RowSums
<1>4. lo <= a + o /\ a + o <= hi
  BY <1>0, <1>2, <1>3 DEF CounterInv, KeyWell
<1>5. lo <= h.old[c] /\ h.old[c] + Rest(rows, h.by, c) <= hi
  BY <1>1 DEF HeldWell
<1>6. /\ Least(w)[c] = IF c \notin h.sets THEN IF Shared(w) THEN lo ELSE lo + h.n[c]
                       ELSE IF (Shared(w) \/ h.late) /\ lo < h.n[c] THEN lo ELSE h.n[c]
      /\ Most(w)[c] = IF c \in h.sets /\ ~Shared(w) /\ ~h.late THEN h.n[c] ELSE hi + h.n[c]
  BY DEF Least, Most
<1>7. Most(w)[c] <= MaxCount
  BY DEF WriteCounter
<1>8. h.by = NoRow => a = 0 /\ n[c] = h.n[c] /\ (alone => o = 0)
  <2> SUFFICES ASSUME h.by = NoRow PROVE a = 0 /\ n[c] = h.n[c] /\ (alone => o = 0)
    OBVIOUS
  <2>1. a = 0 /\ n[c] = h.n[c]
    BY <1>1, <1>3
  <2>2. ASSUME alone PROVE o = 0
    <3>1. \A u \in Writers : rows[u] # NoRow => u = row
      BY <1>1, <2>2, CounterRowsAssumption DEF HeldWell
    <3> QED BY <1>1, <3>1, NoRest
  <2> QED BY <2>1, <2>2
<1>9. h.by # NoRow =>
        /\ row = h.by /\ rows[row] # NoRow /\ a = rows[row][c]
        /\ n[c] = IF c \in h.sets THEN IF h.n[c] = h.old[c] THEN a ELSE h.n[c]
                  ELSE IF h.n[c] > 0 THEN h.old[c] + h.n[c] ELSE a
        /\ h.old[c] + o <= hi
        /\ alone => a = h.old[c] /\ o = 0
  <2> SUFFICES ASSUME h.by # NoRow
        PROVE  /\ row = h.by /\ rows[row] # NoRow /\ a = rows[row][c]
               /\ n[c] = IF c \in h.sets THEN IF h.n[c] = h.old[c] THEN a ELSE h.n[c]
                         ELSE IF h.n[c] > 0 THEN h.old[c] + h.n[c] ELSE a
               /\ h.old[c] + o <= hi
               /\ alone => a = h.old[c] /\ o = 0
    OBVIOUS
  <2>1. row = h.by /\ rows[row] # NoRow
    BY <1>1 DEF HeldWell
  <2>2. a = rows[row][c]
    BY <1>3, <2>1
  <2>3. n[c] = IF c \in h.sets THEN IF h.n[c] = h.old[c] THEN a ELSE h.n[c]
               ELSE IF h.n[c] > 0 THEN h.old[c] + h.n[c] ELSE a
    BY <2>2 DEF Written
  <2>4. ASSUME alone PROVE a = h.old[c] /\ o = 0
    <3>1. (\A u \in Writers : rows[u] # NoRow => u = row) /\ rows[row] = h.old
      BY <1>1, <2>1, <2>4 DEF HeldWell
    <3>2. o = 0
      BY <1>1, <3>1, NoRest
    <3> QED BY <2>2, <3>1, <3>2
  <2> QED BY <1>5, <2>1, <2>2, <2>3, <2>4
<1>10. /\ n[c] \in Nat
       /\ Least(w)[c] \in Nat /\ Most(w)[c] \in Nat
       /\ Least(w)[c] <= n[c] + o /\ n[c] + o <= Most(w)[c]
       /\ Shared(w) => Least(w)[c] <= lo /\ Most(w)[c] = hi + h.n[c]
       /\ alone /\ lo = hi => Least(w)[c] = Most(w)[c]
  <2> DEFINE m == n[c]
             old == h.old[c]
             d == h.n[c]
             set == c \in h.sets
             shared == Shared(w)
             late == h.late
             ll == Least(w)[c]
             mm == Most(w)[c]
             fresh == h.by = NoRow
  <2>1. /\ shared \in BOOLEAN /\ late \in BOOLEAN /\ set \in BOOLEAN /\ fresh \in BOOLEAN
        /\ old \in Nat /\ d \in Nat /\ lo \in Nat /\ hi \in Nat /\ a \in Nat /\ o \in Nat
        /\ lo <= a + o /\ a + o <= hi /\ lo <= old
    BY <1>0, <1>2, <1>3, <1>4, <1>5 DEF Shared
  <2>2. fresh => a = 0 /\ m = d /\ (~shared /\ ~late => o = 0)
    BY <1>8
  <2>3. ~fresh => /\ m = IF set THEN IF d = old THEN a ELSE d ELSE IF d > 0 THEN old + d ELSE a
                  /\ old + o <= hi
                  /\ ~shared /\ ~late => a = old /\ o = 0
    BY <1>9
  <2>4. /\ ll = IF ~set THEN IF shared THEN lo ELSE lo + d ELSE IF (shared \/ late) /\ lo < d THEN lo ELSE d
        /\ mm = IF set /\ ~shared /\ ~late THEN d ELSE hi + d
    BY <1>6
  <2> HIDE DEF m, old, d, set, shared, late, ll, mm, fresh, a, o, lo, hi, n, h, rows, row
  <2>5. m \in Nat /\ ll \in Nat /\ mm \in Nat
    BY <2>1, <2>2, <2>3, <2>4
  <2>6. ll <= m + o
    <3>1. CASE fresh
      BY <2>1, <2>2, <2>4, <3>1
    <3>2. CASE ~fresh
      BY <2>1, <2>3, <2>4, <3>2
    <3> QED BY <3>1, <3>2
  <2>7. m + o <= mm
    <3>1. CASE fresh
      BY <2>1, <2>2, <2>4, <3>1
    <3>2. CASE ~fresh
      BY <2>1, <2>3, <2>4, <3>2
    <3> QED BY <3>1, <3>2
  <2>8. shared => ll <= lo /\ mm = hi + d
    BY <2>1, <2>4
  <2>9. ~shared /\ ~late /\ lo = hi => ll = mm
    BY <2>1, <2>4
  <2> QED BY <2>5, <2>6, <2>7, <2>8, <2>9 DEF m, d, shared, late, ll, mm
<1> QED BY <1>7, <1>10

\* A commit writes one row, and what others hold stays within the bounds.
LEMMA WriteKept == ASSUME CounterInv, NEW w \in Writers, WriteCounter(w) PROVE CounterInv'
<1>0. PICK h \in Held : h = writing[w] /\ writing[w] # Idle
  BY HeldShapes DEF WriteCounter, CounterInv
<1> DEFINE k == h.key
           rows == counters[k]
           row == IF h.by = NoRow THEN w ELSE h.by
           n == IF h.by = NoRow THEN h.n ELSE Written(rows[row], h)
           more == [rows EXCEPT ![row] = n]
<1>1. /\ k \in Keys /\ h.by \in Writers \cup {NoRow} /\ h.n \in Amounts /\ h.late \in BOOLEAN
      /\ row \in Writers /\ rows \in CountRows
      /\ (h.by = NoRow => rows[w] = NoRow) /\ HeldWell(h)
      /\ CounterTypeOK
  <2>1. /\ k \in Keys /\ h.by \in Writers \cup {NoRow} /\ h.n \in Amounts /\ h.late \in BOOLEAN
    BY DEF Held
  <2>2. (h.by = NoRow => rows[w] = NoRow) /\ HeldWell(h)
    BY <1>0 DEF CounterInv, HoldersAgree
  <2> QED BY <2>1, <2>2 DEF CounterInv, CounterTypeOK, CountRows
<1>2. \A c \in Columns :
         /\ n[c] \in Nat /\ Rest(rows, row, c) \in Nat
         /\ Least(w)[c] \in Nat /\ Most(w)[c] \in Nat /\ Most(w)[c] <= MaxCount
         /\ Least(w)[c] <= n[c] + Rest(rows, row, c) /\ n[c] + Rest(rows, row, c) <= Most(w)[c]
         /\ Shared(w) => Least(w)[c] <= least[k][c] /\ Most(w)[c] = most[k][c] + h.n[c]
         /\ ~Shared(w) /\ ~h.late /\ least[k][c] = most[k][c] => Least(w)[c] = Most(w)[c]
  BY <1>0, <1>1, CommitBounds, RowSums
<1>3. n \in Amounts /\ Least(w) \in Amounts /\ Most(w) \in Amounts
  <2>1. \A c \in Columns : n[c] \in 0..MaxCount /\ Least(w)[c] \in 0..MaxCount /\ Most(w)[c] \in 0..MaxCount
    BY <1>2, CounterRowsAssumption
  <2>2. n = [c \in Columns |-> n[c]]
    <3>1. Written(rows[row], h) = [c \in Columns |-> Written(rows[row], h)[c]]
      BY DEF Written
    <3>2. h.n = [c \in Columns |-> h.n[c]]
      BY <1>1 DEF Amounts
    <3> QED BY <3>1, <3>2
  <2>3. Least(w) = [c \in Columns |-> Least(w)[c]] /\ Most(w) = [c \in Columns |-> Most(w)[c]]
    BY DEF Least, Most
  <2> QED BY <2>1, <2>2, <2>3 DEF Amounts
<1>4. /\ counters' = [counters EXCEPT ![k] = more]
      /\ least' = [least EXCEPT ![k] = Least(w)]
      /\ most' = [most EXCEPT ![k] = Most(w)]
      /\ met' = IF Shared(w) \/ h.late THEN met \cup {k} ELSE met
  BY <1>0 DEF WriteCounter
<1>5. more \in CountRows /\ more[row] = n /\ \A u \in Writers \ {row} : more[u] = rows[u]
  BY <1>1, <1>3 DEF CountRows
<1> HIDE DEF more
<1>6. /\ counters'[k] = more /\ least'[k] = Least(w) /\ most'[k] = Most(w)
      /\ \A o \in Keys \ {k} : counters'[o] = counters[o] /\ least'[o] = least[o] /\ most'[o] = most[o]
      /\ counters' \in [Keys -> CountRows] /\ least' \in [Keys -> Amounts] /\ most' \in [Keys -> Amounts]
      /\ met' \subseteq Keys /\ met \subseteq met'
  BY <1>1, <1>3, <1>4, <1>5 DEF CounterTypeOK, CountRows
<1>7. /\ writing' \in [Writers -> Held \cup {Idle}] /\ writing'[w] = Idle
      /\ \A v \in Writers \ {w} : ~OnKey(v, k) => writing'[v] = writing[v]
      /\ \A v \in Writers \ {w} : OnKey(v, k) =>
            /\ writing'[v] \in Held /\ writing'[v].key = k /\ writing'[v].late /\ writing'[v] # Idle
            /\ writing'[v].by = writing[v].by /\ writing'[v].old = writing[v].old
  <2>1. writing' = [v \in Writers |->
           IF v = w THEN Idle
           ELSE IF OnKey(v, k) THEN [writing[v] EXCEPT !.late = TRUE] ELSE writing[v]]
    BY <1>0 DEF WriteCounter, Outdate
  <2>2. ASSUME NEW v \in Writers, OnKey(v, k)
        PROVE  LET g == [writing[v] EXCEPT !.late = TRUE] IN
               g \in Held /\ g.key = k /\ g.late /\ g # Idle /\ g.by = writing[v].by /\ g.old = writing[v].old
    <3>1. writing[v] \in Held /\ writing[v].key = k
      BY <1>1, <2>2, HeldShapes DEF OnKey
    <3> DEFINE g == [writing[v] EXCEPT !.late = TRUE]
    <3>2. g \in Held /\ g.key = k /\ g.late /\ g.by = writing[v].by /\ g.old = writing[v].old
      BY <3>1 DEF Held
    <3> HIDE DEF g
    <3>3. g # Idle
      <4>1. DOMAIN g = {"key", "by", "old", "n", "sets", "late"}
        BY <3>2 DEF Held
      <4>2. DOMAIN Idle = {"by"}
        BY DEF Idle
      <4> QED BY <4>1, <4>2
    <3> QED BY <3>2, <3>3 DEF g
  <2> QED BY <1>1, <2>1, <2>2 DEF CounterTypeOK
<1>8. CounterTypeOK'
  BY <1>6, <1>7 DEF CounterTypeOK, CountRows
<1>9. ASSUME NEW c \in Columns
      PROVE  /\ Shown(more, c) = n[c] + Rest(rows, row, c)
             /\ Rest(more, row, c) = Rest(rows, row, c)
             /\ \A by : by # row =>
                  Rest(more, by, c) = Rest(rows, by, c) + (n[c] - InRow(rows, c)[row])
             /\ h.by = NoRow => InRow(rows, c)[row] = 0
             /\ InRow(rows, c)[row] \in Nat
  <2>1. InRow(more, c)[row] = n[c]
    BY <1>1, <1>3, <1>5, RowSums, CounterRowsAssumption
  <2> QED BY <1>1, <1>5, <2>1, RowChanges, RowSums
<1>10. KeyWell(k)'
  <2>1. \A c \in Columns : Shown(more, c) \in Least(w)[c]..Most(w)[c]
    <3> TAKE c \in Columns
    <3> QED BY <1>2, <1>9
  <2>2. ASSUME k \notin met'
        PROVE  Least(w) = Most(w) /\ \A u, v \in Writers : more[u] # NoRow /\ more[v] # NoRow => u = v
    <3>1. ~Shared(w) /\ ~h.late /\ k \notin met
      BY <1>1, <1>4, <2>2
    <3>2. \A c \in Columns : Least(w)[c] = Most(w)[c]
      BY <1>1, <1>2, <3>1 DEF CounterInv, KeyWell
    <3>3. Least(w) = Most(w)
      BY <1>3, <3>2 DEF Amounts
    <3>4. \A u \in Writers : more[u] # NoRow => u = row
      <4>1. \A u \in Writers : rows[u] # NoRow => u = h.by
        BY <1>1, <3>1 DEF HeldWell
      <4> QED BY <1>1, <1>5, <4>1, CounterRowsAssumption
    <3> QED BY <3>3, <3>4
  <2> QED BY <1>6, <2>1, <2>2 DEF KeyWell
<1>11. \A o \in Keys \ {k} : KeyWell(o)'
  BY <1>4, <1>6 DEF CounterInv, KeyWell
\* What the others hold.
<1>12. \A v \in Writers \ {w} : writing'[v] # Idle =>
          /\ writing[v] # Idle /\ writing'[v].key = writing[v].key /\ writing'[v].by = writing[v].by
          /\ writing'[v].old = writing[v].old /\ writing[v].by \in Writers \cup {NoRow} /\ writing[v].key \in Keys
  <2> TAKE v \in Writers \ {w}
  <2> HAVE writing'[v] # Idle
  <2>1. CASE OnKey(v, k)
    BY <1>1, <1>7, <2>1, HeldShapes DEF OnKey
  <2>2. CASE ~OnKey(v, k)
    BY <1>1, <1>7, <2>2, HeldShapes
  <2> QED BY <2>1, <2>2
<1>13. \A u \in Writers : rows[u] # NoRow => more[u] # NoRow
  BY <1>1, <1>3, <1>5, CounterRowsAssumption
<1>14. ASSUME NEW v \in Writers \ {w}, writing'[v] # Idle PROVE HeldWell(writing[v])'
  <2> DEFINE g == writing[v]
  <2>0. HeldWell(g) /\ g.key \in Keys /\ (g.by = NoRow => counters[g.key][v] = NoRow)
    BY <1>12, <1>14 DEF CounterInv, HoldersAgree
  <2>1. CASE ~OnKey(v, k)
    <3>1. writing'[v] = g /\ g.key # k /\ g.key \in Keys
      BY <1>7, <1>12, <1>14, <2>1 DEF OnKey
    <3>2. counters'[g.key] = counters[g.key] /\ least'[g.key] = least[g.key] /\ most'[g.key] = most[g.key]
      BY <1>6, <3>1
    <3> QED BY <2>0, <3>1, <3>2 DEF HeldWell
  <2>2. CASE OnKey(v, k)
    <3>1. /\ writing'[v].key = k /\ g.key = k /\ writing'[v].late
          /\ writing'[v].by = g.by /\ writing'[v].old = g.old /\ g.by \in Writers \cup {NoRow}
      BY <1>7, <1>12, <1>14, <2>2 DEF OnKey
    <3>2. Shared(w)
      BY <1>0, <2>2 DEF Shared
    <3>3. h.by = g.by \/ NoRow \in {h.by, g.by}
      BY <1>0, <2>2 DEF CounterInv, HoldersAgree
    <3>4. g.by = row \/ h.by = NoRow \/ g.by = NoRow
      BY <3>3
    <3>5. g.by = row => g.by # NoRow
      BY <1>1, CounterRowsAssumption
    <3>6. h.by = NoRow => g.by # row
      BY <1>1, <2>0, <3>1, CounterRowsAssumption DEF HeldWell
    <3>7. ASSUME NEW c \in Columns
          PROVE  Least(w)[c] <= g.old[c] /\ g.old[c] + Rest(more, g.by, c) <= Most(w)[c]
      <4>1. /\ least[k][c] <= g.old[c] /\ g.old[c] + Rest(rows, g.by, c) <= most[k][c]
            /\ g.by = NoRow => g.old[c] = 0
        BY <2>0, <3>1 DEF HeldWell, NoParts
      <4>2. /\ g.old[c] \in Nat /\ h.n[c] \in Nat /\ least[k][c] \in Nat /\ most[k][c] \in Nat
        <5>1. g.old \in Amounts
          BY <1>1, <2>2, HeldShapes DEF OnKey
        <5> QED BY <1>1, <5>1, CounterRowsAssumption DEF CounterTypeOK, Amounts
      <4>3. /\ Least(w)[c] <= least[k][c] /\ Most(w)[c] = most[k][c] + h.n[c] /\ Least(w)[c] \in Nat
            /\ n[c] \in Nat /\ n[c] + Rest(rows, row, c) <= Most(w)[c]
        BY <1>2, <3>2
      <4>4. \A by : Rest(rows, by, c) \in Nat /\ Rest(more, by, c) \in Nat
        BY <1>1, <1>5, RowSums
      <4>5. g.old[c] + Rest(more, g.by, c) <= Most(w)[c]
        <5>1. CASE g.by = row
          <6>1. Rest(more, g.by, c) = Rest(rows, g.by, c)
            BY <1>9, <5>1
          <6> QED BY <4>1, <4>2, <4>3, <4>4, <6>1
        <5>2. CASE g.by # row /\ h.by = NoRow
          <6>1. n[c] = h.n[c] /\ Rest(more, g.by, c) = Rest(rows, g.by, c) + (n[c] - 0)
            <7>1. InRow(rows, c)[row] = 0
              BY <1>9, <5>2
            <7>2. Rest(more, g.by, c) = Rest(rows, g.by, c) + (n[c] - InRow(rows, c)[row])
              BY <1>9, <5>2
            <7> QED BY <5>2, <7>1, <7>2
          <6>2. Rest(rows, g.by, c) \in Nat
            BY <4>4
          <6> QED BY <4>1, <4>2, <4>3, <6>1, <6>2
        <5>3. CASE g.by # row /\ h.by # NoRow
          <6>1. g.by = NoRow /\ g.old[c] = 0
            BY <3>4, <4>1, <5>3
          <6>2. Rest(more, g.by, c) = Shown(more, c)
            BY <1>5, <6>1, RowSums, CounterRowsAssumption
          <6>3. Shown(more, c) = n[c] + Rest(rows, row, c)
            BY <1>9
          <6>4. Rest(rows, row, c) \in Nat
            BY <4>4
          <6> QED BY <4>3, <6>1, <6>2, <6>3, <6>4
        <5> QED BY <5>1, <5>2, <5>3
      <4>6. Least(w)[c] <= g.old[c]
        BY <4>1, <4>2, <4>3
      <4> QED BY <4>5, <4>6
    <3>8. (g.by = NoRow => g.old = NoParts) /\ (g.by # NoRow => more[g.by] # NoRow)
      BY <1>13, <2>0, <3>1 DEF HeldWell
    <3> QED BY <1>6, <3>1, <3>7, <3>8 DEF HeldWell
  <2> QED BY <2>1, <2>2
<1>15. ASSUME NEW v \in Writers \ {w}, writing'[v] # Idle, writing'[v].by = NoRow
       PROVE  counters'[writing'[v].key][v] = NoRow
  <2>1. /\ counters[writing[v].key][v] = NoRow /\ writing'[v].key = writing[v].key /\ writing[v].key \in Keys
        /\ writing[v] # Idle
    BY <1>12, <1>15 DEF CounterInv, HoldersAgree
  <2>2. CASE writing[v].key # k
    BY <1>6, <2>1, <2>2
  <2>3. CASE writing[v].key = k
    <3>1. v # row
      BY <1>1, <2>1, <2>3 DEF HeldWell
    <3> QED BY <1>5, <1>6, <2>1, <2>3, <3>1
  <2> QED BY <2>2, <2>3
<1>16. HoldersAgree'
  <2> SUFFICES ASSUME NEW v \in Writers, writing'[v] # Idle
        PROVE  /\ HeldWell(writing[v])'
               /\ writing'[v].by = NoRow => counters'[writing'[v].key][v] = NoRow
               /\ \A u \in Writers : OnKey(u, writing[v].key)' =>
                     writing'[v].by = writing'[u].by \/ NoRow \in {writing'[v].by, writing'[u].by}
    BY DEF HoldersAgree
  <2>1. v # w
    BY <1>7
  <2>2. ASSUME NEW u \in Writers, OnKey(u, writing[v].key)'
        PROVE  writing'[v].by = writing'[u].by \/ NoRow \in {writing'[v].by, writing'[u].by}
    <3>1. writing'[u] # Idle /\ writing'[u].key = writing'[v].key /\ u # w
      BY <1>7, <2>2 DEF OnKey
    <3>2. OnKey(u, writing[v].key) /\ writing[v] # Idle
      BY <1>12, <2>1, <3>1 DEF OnKey
    <3>3. writing[v].by = writing[u].by \/ NoRow \in {writing[v].by, writing[u].by}
      BY <3>2 DEF CounterInv, HoldersAgree
    <3> QED BY <1>12, <2>1, <3>1, <3>3
  <2> QED BY <1>14, <1>15, <2>1, <2>2
<1> QED BY <1>8, <1>10, <1>11, <1>16 DEF CounterInv

\* Every step of the sessions keeps the invariant.
LEMMA CounterSteps == CounterInv /\ [CounterNext]_counterVars => CounterInv'
<1> SUFFICES ASSUME CounterInv, [CounterNext]_counterVars PROVE CounterInv'
  OBVIOUS
<1>1. CASE UNCHANGED counterVars
  BY <1>1 DEF counterVars, CounterInv, CounterTypeOK, HoldersAgree, HeldWell, KeyWell, OnKey
<1>2. ASSUME NEW w \in Writers, NEW key \in Keys, NEW n \in Amounts, Increment(w, key, n)
      PROVE  CounterInv'
  <2>1. Readable(key) /\ Hold(w, key, n, {}) /\ UNCHANGED <<counters, least, most, met>>
    BY <1>2 DEF Increment
  <2> QED BY <2>1, SelectKept
<1>3. ASSUME NEW w \in Writers, NEW key \in Keys, NEW n \in Amounts, NEW given \in SUBSET Columns,
             Upsert(w, key, n, given)
      PROVE  CounterInv'
  <2> DEFINE m == [c \in Columns |-> IF c \in given THEN n[c] ELSE 0]
  <2>1. m \in Amounts
    BY CounterRowsAssumption DEF Amounts
  <2>2. Readable(key) /\ Hold(w, key, m, given) /\ UNCHANGED <<counters, least, most, met>>
    BY <1>3 DEF Upsert
  <2> HIDE DEF m
  <2> QED BY <2>1, <2>2, SelectKept
<1> QED BY <1>1, <1>2, <1>3, WriteKept, GiveUpKept DEF CounterNext

\* What the rows of a key show together lies between what was added with no other session about
\* and all that was added, and is exact and in one row unless two sessions met on the key: for
\* any number of sessions and keys.
THEOREM CountersBounded == CounterSpec => []CountersAddUp
<1>1. ASSUME CounterInv, NEW key \in Keys, key \notin met PROVE Cardinality(RowsOf(key)) <= 1
  <2>1. \A u, v \in RowsOf(key) : u = v
    BY <1>1 DEF CounterInv, KeyWell, RowsOf
  <2>2. RowsOf(key) = {} \/ \E u \in RowsOf(key) : RowsOf(key) = {u}
    BY <2>1
  <2> QED BY <2>2, FS_EmptySet, FS_Singleton
<1>2. CounterInv => CountersAddUp
  BY <1>1 DEF CountersAddUp, CounterInv, KeyWell
<1> QED BY <1>2, CounterBegins, CounterSteps, PTL DEF CounterSpec
-----------------------------------------------------------------------------
(***************************************************************************)
(* The state log of the equipment.                                         *)
(***************************************************************************)

\* What a request means to close is a row of its equipment; while no other change of the
\* equipment was written since, that row is open still, or there is none.
AboutToClose(q) ==
    change[q] # None =>
        /\ \A r \in stateLog : r.id = change[q].prev => r.equip = change[q].equip
        /\ ~change[q].late =>
              /\ change[q].prev = 0 => OpenRowsOf(change[q].equip) = {}
              /\ \A r \in stateLog : r.id = change[q].prev => r.open

\* The open rows of an equipment besides that of its latest change.
Strays(e) == {r \in OpenRowsOf(e) : r # latest[e]}

\* A log is full of rows that started at t or later.
FullSince(log, t) == Cardinality(log) = LogCap /\ \A r \in log : t <= r.start

LatestKept(e) ==
    /\ latest[e] # NoState => latest[e] \in Rows /\ latest[e].equip = e
    /\ latest[e] # NoState /\ latest[e] \notin stateLog => FullSince(stateLog, latest[e].start)
    /\ Cardinality(Strays(e)) <= overlooked[e]

LogTypeOK ==
    /\ stateLog \subseteq Rows
    /\ \A r, s \in stateLog : r.id = s.id => r = s
    /\ IsFiniteSet(stateLog) /\ Cardinality(stateLog) <= LogCap
    /\ change \in [StateRequests -> Changes \cup {None}]
    /\ clock \in Times
    /\ latest \in [Equipment -> Rows \cup {NoState}]
    /\ overlooked \in [Equipment -> 0..LogCap]

StateInv ==
    /\ LogTypeOK
    /\ \A q \in StateRequests : AboutToClose(q)
    /\ \A e \in Equipment : LatestKept(e)

\* The log is empty.
LEMMA StateBegins == StateInit => StateInv
<1> SUFFICES ASSUME StateInit PROVE StateInv
  OBVIOUS
<1>1. LogTypeOK
  BY EquipmentStateAssumption, FS_EmptySet DEF StateInit, LogTypeOK, Times
<1>2. \A q \in StateRequests : AboutToClose(q)
  BY DEF StateInit, AboutToClose
<1>3. ASSUME NEW e \in Equipment PROVE LatestKept(e)
  <2>1. Strays(e) = {} /\ latest[e] = NoState /\ overlooked[e] = 0
    BY DEF StateInit, Strays, OpenRowsOf
  <2> QED BY <2>1, FS_EmptySet DEF LatestKept
<1> QED BY <1>1, <1>2, <1>3 DEF StateInv

\* The fields of rows and of changes under way.
LEMMA RowShapes ==
    /\ \A r \in Rows : r.id \in Ids /\ r.equip \in Equipment /\ r.state \in Names /\ r.open \in BOOLEAN /\ r.start \in Nat
    /\ \A c \in Changes : c.equip \in Equipment /\ c.state \in Names /\ c.prev \in Ids \cup {0} /\ c.start \in Times
                          /\ c.late \in BOOLEAN
    /\ None \notin Changes
    /\ 0 \notin Ids
<1>1. /\ \A r \in Rows : r.id \in Ids /\ r.equip \in Equipment /\ r.state \in Names /\ r.open \in BOOLEAN /\ r.start \in Nat
      /\ \A c \in Changes : c.equip \in Equipment /\ c.state \in Names /\ c.prev \in Ids \cup {0} /\ c.start \in Times
                            /\ c.late \in BOOLEAN
  BY EquipmentStateAssumption DEF Rows, Changes, Times
<1>2. None \notin Changes
  BY DEF None, Changes
<1>3. 0 \notin Ids
  BY DEF Ids
<1> QED BY <1>1, <1>2, <1>3

\* A request that looks for the open row of its equipment finds it.
LEMMA PrepareKept ==
    ASSUME StateInv, NEW q \in StateRequests, NEW e \in Equipment, NEW name \in Names, NEW t \in Times,
           Prepare(q, e, name, t)
    PROVE  StateInv'
<1>1. PICK p : /\ p \in {r.id : r \in Newest(OpenRowsOf(e))} \cup (IF OpenRowsOf(e) = {} THEN {0} ELSE {})
               /\ change' = [change EXCEPT ![q] = [equip |-> e, state |-> name, start |-> t, prev |-> p, late |-> FALSE]]
  BY DEF Prepare
<1> DEFINE c == [equip |-> e, state |-> name, start |-> t, prev |-> p, late |-> FALSE]
<1>2. (\E r \in OpenRowsOf(e) : p = r.id) \/ (OpenRowsOf(e) = {} /\ p = 0)
  BY <1>1 DEF Newest
<1>3. /\ p \in Ids \cup {0}
      /\ p = 0 => OpenRowsOf(e) = {}
      /\ \A r \in stateLog : r.id = p => r.equip = e /\ r.open
  BY <1>2, RowShapes DEF StateInv, LogTypeOK, OpenRowsOf
<1>4. c \in Changes /\ c.equip = e /\ c.prev = p /\ ~c.late
  BY <1>3 DEF Changes
<1>5. change' = [change EXCEPT ![q] = c]
  BY <1>1
<1> HIDE DEF c
<1>6. UNCHANGED <<stateLog, clock, latest, overlooked>>
  BY DEF Prepare
<1>7. change' \in [StateRequests -> Changes \cup {None}] /\ change'[q] = c
      /\ \A o \in StateRequests \ {q} : change'[o] = change[o]
  BY <1>4, <1>5 DEF StateInv, LogTypeOK
<1>8. LogTypeOK'
  BY <1>6, <1>7 DEF StateInv, LogTypeOK
<1>9. AboutToClose(q)'
  BY <1>3, <1>4, <1>6, <1>7 DEF AboutToClose, OpenRowsOf
<1>10. \A o \in StateRequests \ {q} : AboutToClose(o)'
  BY <1>6, <1>7 DEF StateInv, AboutToClose, OpenRowsOf
<1>11. \A x \in Equipment : LatestKept(x)'
  BY <1>6 DEF StateInv, LatestKept, Strays, OpenRowsOf, FullSince
<1> QED BY <1>8, <1>9, <1>10, <1>11 DEF StateInv

\* Closing a row leaves their number.
LEMMA CloseCounts ==
    ASSUME LogTypeOK, NEW p
    PROVE  IsFiniteSet(Close(stateLog, p)) /\ Cardinality(Close(stateLog, p)) = Cardinality(stateLog)
<1> DEFINE shut(r) == IF r.id = p THEN [r EXCEPT !.open = FALSE] ELSE r
<1>1. \A r \in stateLog : shut(r).id = r.id /\ (r.id # p => shut(r) = r)
  BY DEF LogTypeOK, Rows
<1>2. CASE \E x \in stateLog : x.id = p
  <2>1. PICK x \in stateLog : x.id = p
    BY <1>2
  <2> DEFINE others == stateLog \ {x}
  <2>2. \A r \in others : r.id # p
    BY <2>1 DEF LogTypeOK
  <2>3. Close(stateLog, p) = others \cup {shut(x)}
    BY <1>1, <2>1, <2>2 DEF Close
  <2>4. shut(x) \notin others
    BY <1>1, <2>1, <2>2
  <2>5. IsFiniteSet(others) /\ Cardinality(others) = Cardinality(stateLog) - 1
    BY <2>1, FS_RemoveElement DEF LogTypeOK
  <2>6. Cardinality(stateLog) \in Nat
    BY FS_CardinalityType DEF LogTypeOK
  <2> HIDE DEF others, shut
  <2>7. IsFiniteSet(others \cup {shut(x)}) /\ Cardinality(others \cup {shut(x)}) = Cardinality(others) + 1
    BY <2>4, <2>5, FS_AddElement
  <2> QED BY <2>3, <2>5, <2>6, <2>7
<1>3. CASE ~\E x \in stateLog : x.id = p
  <2>1. Close(stateLog, p) = stateLog
    BY <1>1, <1>3 DEF Close
  <2> QED BY <2>1 DEF LogTypeOK
<1> QED BY <1>2, <1>3

\* The commit of a change closes the row that was found and opens another one.
LEMMA WriteChangeKept == ASSUME StateInv, NEW q \in StateRequests, WriteChange(q) PROVE StateInv'
<1>1. PICK c \in Changes : c = change[q] /\ change[q] # None
  BY DEF StateInv, LogTypeOK, WriteChange
<1> DEFINE made(k) == [id |-> k, equip |-> c.equip, state |-> c.state, start |-> c.start, open |-> TRUE]
<1>2. PICK k \in Ids : /\ ~Known(k)
                       /\ \E D \in Capped(Close(stateLog, c.prev) \cup {made(k)}) :
                            stateLog' = (Close(stateLog, c.prev) \cup {made(k)}) \ D
                       /\ latest' = [latest EXCEPT ![c.equip] = made(k)]
                       /\ overlooked' = [overlooked EXCEPT ![c.equip] = IF c.late /\ @ < LogCap THEN @ + 1 ELSE @]
  BY <1>1 DEF WriteChange
<1> DEFINE row == made(k)
           log == Close(stateLog, c.prev) \cup {row}
<1>3. PICK D \in Capped(log) : stateLog' = log \ D
  BY <1>2
<1>4. /\ row \in Rows /\ row.id = k /\ row.equip = c.equip /\ row.state = c.state /\ row.open = TRUE
      /\ row.start = c.start /\ c.equip \in Equipment /\ c.late \in BOOLEAN
  BY <1>1, RowShapes DEF Rows
<1>5. /\ latest' = [latest EXCEPT ![c.equip] = row] /\ clock' = clock
      /\ overlooked' = [overlooked EXCEPT ![c.equip] = IF c.late /\ @ < LogCap THEN @ + 1 ELSE @]
  BY <1>2 DEF WriteChange
<1>6. /\ \A r \in stateLog : r.id # k
      /\ \A o \in StateRequests : change[o].prev # k
  BY <1>2 DEF Known
<1>7. LogTypeOK /\ AboutToClose(q)
  BY DEF StateInv
<1> DEFINE shut(r) == IF r.id = c.prev THEN [r EXCEPT !.open = FALSE] ELSE r
<1>8. \A r \in Rows : /\ shut(r) \in Rows /\ shut(r).id = r.id /\ shut(r).equip = r.equip /\ shut(r).start = r.start
                      /\ shut(r).open = (r.open /\ r.id # c.prev) /\ (r.id # c.prev => shut(r) = r)
  BY DEF Rows
<1>9. \A x : x \in log <=> x = row \/ \E r \in stateLog : x = shut(r)
  BY DEF Close
<1>10. /\ IsFiniteSet(log) /\ Cardinality(log) = Cardinality(stateLog) + 1
  <2> DEFINE old == Close(stateLog, c.prev)
  <2>1. IsFiniteSet(old) /\ Cardinality(old) = Cardinality(stateLog)
    BY <1>7, CloseCounts
  <2>2. row \notin old
    <3>1. \A r \in stateLog : shut(r).id # k
      BY <1>6, <1>7, <1>8 DEF LogTypeOK
    <3>2. \A x \in old : \E r \in stateLog : x = shut(r)
      BY DEF Close
    <3> HIDE DEF shut, old, row
    <3> QED BY <1>4, <3>1, <3>2
  <2> HIDE DEF old, row
  <2>3. IsFiniteSet(old \cup {row}) /\ Cardinality(old \cup {row}) = Cardinality(old) + 1
    BY <2>1, <2>2, FS_AddElement
  <2> QED BY <2>1, <2>3 DEF old
<1> HIDE DEF shut, log, row, made
<1>11. \A r \in stateLog : r \in Rows
  BY <1>7 DEF LogTypeOK
<1>12. log \subseteq Rows /\ \A x, y \in log : x.id = y.id => x = y
  BY <1>4, <1>6, <1>7, <1>8, <1>9 DEF LogTypeOK
\* The cap.
<1>13. /\ D \subseteq log /\ IsFiniteSet(log \ D) /\ Cardinality(log \ D) <= LogCap
       /\ D # {} => Cardinality(log \ D) = LogCap
       /\ D = {} => Cardinality(stateLog) < LogCap
       /\ \A d \in D, r \in log \ D : d.start <= r.start
  <2>1. /\ D \subseteq log /\ \A d \in D, r \in log \ D : d.start <= r.start
        /\ Cardinality(D) = IF Cardinality(log) > LogCap THEN Cardinality(log) - LogCap ELSE 0
    BY <1>3 DEF Capped
  <2>2. log \cap D = D /\ IsFiniteSet(D) /\ Cardinality(D) \in Nat /\ (Cardinality(D) = 0 <=> D = {})
    BY <1>10, <2>1, FS_Subset, FS_CardinalityType, FS_EmptySet
  <2>3. IsFiniteSet(log \ D) /\ Cardinality(log \ D) = Cardinality(log) - Cardinality(D)
    BY <1>10, <2>2, FS_Difference
  <2>4. Cardinality(stateLog) \in Nat /\ LogCap \in Nat
    BY <1>7, FS_CardinalityType, EquipmentStateAssumption DEF LogTypeOK
  <2> QED BY <1>10, <2>1, <2>2, <2>3, <2>4
<1>14. /\ change' \in [StateRequests -> Changes \cup {None}] /\ change'[q] = None
       /\ \A o \in StateRequests \ {q} : change[o] = None => change'[o] = None
       /\ \A o \in StateRequests \ {q} : change[o] # None =>
             /\ change[o] \in Changes /\ change'[o] \in Changes
             /\ change'[o].equip = change[o].equip /\ change'[o].prev = change[o].prev
             /\ change[o].equip = c.equip => change'[o].late
             /\ change[o].equip # c.equip => change'[o].late = change[o].late
  <2>1. change' = [p \in StateRequests |->
        IF p = q THEN None
        ELSE IF change[p] # None /\ change[p].equip = c.equip
             THEN [change[p] EXCEPT !.late = TRUE] ELSE change[p]]
    BY <1>1 DEF WriteChange, Outrun
  <2>2. \A d \in Changes : LET g == [d EXCEPT !.late = TRUE] IN
          g \in Changes /\ g.equip = d.equip /\ g.prev = d.prev /\ g.late
    BY DEF Changes
  <2>3. \A o \in StateRequests : change[o] # None => change[o] \in Changes
    BY <1>7 DEF LogTypeOK
  <2>4. \A o \in StateRequests \ {q} : change[o] # None =>
             /\ change[o] \in Changes /\ change'[o] \in Changes
             /\ change'[o].equip = change[o].equip /\ change'[o].prev = change[o].prev
             /\ change[o].equip = c.equip => change'[o].late
             /\ change[o].equip # c.equip => change'[o].late = change[o].late
    <3> TAKE o \in StateRequests \ {q}
    <3>1. CASE change[o] # None /\ change[o].equip = c.equip
      <4>1. change'[o] = [change[o] EXCEPT !.late = TRUE]
        BY <2>1, <3>1
      <4> QED BY <2>2, <2>3, <3>1, <4>1
    <3>2. CASE change[o] # None /\ change[o].equip # c.equip
      BY <2>1, <2>3, <3>2
    <3> QED BY <3>1, <3>2
  <2> QED BY <2>1, <2>2, <2>3, <2>4
<1>15. /\ latest' \in [Equipment -> Rows \cup {NoState}] /\ latest'[c.equip] = row
       /\ \A e \in Equipment \ {c.equip} : latest'[e] = latest[e] /\ overlooked'[e] = overlooked[e]
       /\ overlooked' \in [Equipment -> 0..LogCap]
       /\ overlooked'[c.equip] = IF c.late /\ overlooked[c.equip] < LogCap THEN overlooked[c.equip] + 1 ELSE overlooked[c.equip]
  BY <1>4, <1>5, <1>7, EquipmentStateAssumption DEF LogTypeOK
<1>16. LogTypeOK'
  BY <1>3, <1>5, <1>7, <1>12, <1>13, <1>14, <1>15 DEF LogTypeOK
\* The open rows that stay.
<1>17. \A e \in Equipment, x \in log : x.equip = e /\ x.open =>
           (x = row /\ e = c.equip) \/ (x \in OpenRowsOf(e) /\ x.id # c.prev)
  <2> SUFFICES ASSUME NEW e \in Equipment, NEW x \in log, x.equip = e, x.open, x # row
               PROVE  x \in OpenRowsOf(e) /\ x.id # c.prev
    BY <1>4
  <2>1. PICK r \in stateLog : x = shut(r) /\ r \in Rows
    BY <1>9, <1>11
  <2>2. r.open /\ r.id # c.prev /\ x = r
    BY <1>8, <2>1
  <2> QED BY <2>1, <2>2 DEF OpenRowsOf
<1>18. \A e \in Equipment : \A x \in OpenRowsOf(e)' : x \in log /\ x \notin D /\ x.equip = e /\ x.open
  BY <1>3 DEF OpenRowsOf
\* Once the log is full of rows as late as t, it stays so.
<1>19. ASSUME NEW t \in Nat, FullSince(stateLog, t) PROVE FullSince(stateLog', t)
  <2>1. Cardinality(stateLog) = LogCap /\ \A r \in stateLog : t <= r.start
    BY <1>19 DEF FullSince
  <2>2. D # {} /\ Cardinality(stateLog') = LogCap
    BY <1>3, <1>13, <2>1, EquipmentStateAssumption
  <2>3. \A x \in log : x # row => t <= x.start
    BY <1>8, <1>9, <1>11, <2>1
  <2>4. ASSUME NEW x \in log \ D PROVE t <= x.start
    <3>1. CASE x # row
      BY <2>3, <3>1
    <3>2. CASE x = row
      <4>1. PICK d \in D : TRUE
        BY <2>2
      <4>2. d \in log /\ d # row /\ d.start <= x.start /\ d.start \in Nat /\ x.start \in Nat
        BY <1>12, <1>13, <3>2, <4>1, RowShapes
      <4> QED BY <2>3, <4>2
    <3> QED BY <3>1, <3>2
  <2> QED BY <1>3, <2>2, <2>4 DEF FullSince
<1>20. \A d \in D : FullSince(stateLog', d.start)
  BY <1>3, <1>13 DEF FullSince
<1>21. ASSUME NEW e \in Equipment, e # c.equip PROVE LatestKept(e)'
  <2>1. LatestKept(e) /\ latest'[e] = latest[e] /\ overlooked'[e] = overlooked[e]
    BY <1>15, <1>21 DEF StateInv
  <2>2. ASSUME latest[e] # NoState, latest[e] \notin stateLog' PROVE FullSince(stateLog', latest[e].start)
    <3>1. latest[e] \in Rows /\ latest[e].equip = e /\ latest[e].start \in Nat
      BY <2>1, <2>2, RowShapes DEF LatestKept
    <3>2. CASE latest[e] \notin stateLog
      BY <1>19, <2>1, <2>2, <3>1, <3>2 DEF LatestKept
    <3>3. CASE latest[e] \in stateLog
      <4>1. latest[e].id # c.prev
        BY <1>1, <1>7, <1>21, <3>1, <3>3 DEF AboutToClose
      <4>2. latest[e] \in log
        BY <1>8, <1>9, <3>1, <3>3, <4>1
      <4>3. latest[e] \in D
        BY <1>3, <2>2, <4>2
      <4> QED BY <1>20, <4>3
    <3> QED BY <3>2, <3>3
  <2>3. Cardinality(Strays(e)') <= overlooked[e]
    <3>1. Strays(e)' \subseteq Strays(e)
      BY <1>17, <1>18, <1>21, <2>1 DEF Strays
    <3>2. IsFiniteSet(Strays(e))
      BY <1>7, FS_Subset DEF Strays, OpenRowsOf, LogTypeOK
    <3>3. Cardinality(Strays(e)') <= Cardinality(Strays(e)) /\ IsFiniteSet(Strays(e)')
      BY <3>1, <3>2, FS_Subset
    <3>4. Cardinality(Strays(e)') \in Nat /\ Cardinality(Strays(e)) \in Nat /\ overlooked[e] \in Nat
      BY <1>7, <3>2, <3>3, FS_CardinalityType, EquipmentStateAssumption DEF LogTypeOK
    <3> QED BY <2>1, <3>3, <3>4 DEF LatestKept
  <2> QED BY <2>1, <2>2, <2>3 DEF LatestKept
<1>22. LatestKept(c.equip)'
  <2> DEFINE e == c.equip
  <2>1. LatestKept(e) /\ e \in Equipment
    BY <1>4 DEF StateInv
  <2>2. row \notin stateLog' => FullSince(stateLog', row.start)
    BY <1>3, <1>9, <1>20
  <2>3. Cardinality(Strays(e)') <= overlooked'[e]
    <3>1. Strays(e)' \subseteq {x \in OpenRowsOf(e) : x.id # c.prev}
      BY <1>15, <1>17, <1>18, <2>1 DEF Strays
    <3>2. Strays(e)' \subseteq stateLog'
      BY DEF Strays, OpenRowsOf
    <3>3. IsFiniteSet(OpenRowsOf(e)) /\ IsFiniteSet(Strays(e)) /\ IsFiniteSet(stateLog')
      BY <1>7, <1>16, FS_Subset DEF Strays, OpenRowsOf, LogTypeOK
    <3>4. Strays(e) \in SUBSET OpenRowsOf(e) /\ OpenRowsOf(e) \subseteq Strays(e) \cup {latest[e]}
      BY DEF Strays
    <3>5. IsFiniteSet(Strays(e)') /\ Cardinality(Strays(e)') <= LogCap
      <4>1. IsFiniteSet(Strays(e)') /\ Cardinality(Strays(e)') <= Cardinality(stateLog')
        BY <3>2, <3>3, FS_Subset
      <4>2. Cardinality(stateLog') <= LogCap
        BY <1>16 DEF LogTypeOK
      <4>3. Cardinality(Strays(e)') \in Nat /\ Cardinality(stateLog') \in Nat
        BY <3>3, <4>1, FS_CardinalityType
      <4> QED BY <4>1, <4>2, <4>3, EquipmentStateAssumption
    <3> DEFINE s == Cardinality(Strays(e)')
               b == Cardinality(Strays(e))
    <3>6. s \in Nat /\ b \in Nat /\ b <= overlooked[e] /\ overlooked[e] \in 0..LogCap
      BY <1>7, <2>1, <3>3, <3>5, FS_CardinalityType DEF LatestKept, LogTypeOK
    <3>10. IsFiniteSet(Strays(e) \cup {latest[e]}) /\ Cardinality(Strays(e) \cup {latest[e]}) <= b + 1
      <4> DEFINE x == latest[e]
                 T == Strays(e)
      <4>1. IsFiniteSet(T)
        BY <3>3
      <4> HIDE DEF T, x
      <4>2. /\ IsFiniteSet(T \cup {x})
            /\ Cardinality(T \cup {x}) = IF x \in T THEN Cardinality(T) ELSE Cardinality(T) + 1
        BY <4>1, FS_AddElement
      <4> QED BY <3>6, <4>2 DEF T, x
    <3>7. s <= b + 1
      <4> DEFINE T == Strays(e) \cup {latest[e]}
      <4>1. IsFiniteSet(T) /\ Cardinality(T) <= b + 1
        BY <3>10
      <4>2. Strays(e)' \subseteq T
        BY <3>1, <3>4
      <4> HIDE DEF T
      <4>3. s <= Cardinality(T) /\ Cardinality(T) \in Nat
        BY <4>1, <4>2, FS_Subset, FS_CardinalityType
      <4> QED BY <3>6, <4>1, <4>3
    <3>8. CASE c.late
      BY <1>15, <3>5, <3>6, <3>7, <3>8, EquipmentStateAssumption
    <3>9. CASE ~c.late
      <4>1. s <= b
        <5>1. CASE c.prev = 0
          <6>1. Strays(e)' = {}
            BY <1>1, <1>7, <3>1, <3>9, <5>1 DEF AboutToClose
          <6> QED BY <3>6, <6>1, FS_EmptySet
        <5>2. CASE c.prev # 0
          <6>1. PICK x \in stateLog : x.id = c.prev
            BY <1>1, <5>2 DEF WriteChange, PrevGone
          <6>2. x \in OpenRowsOf(e)
            BY <1>1, <1>7, <3>9, <6>1 DEF AboutToClose, OpenRowsOf
          <6> DEFINE T == OpenRowsOf(e) \ {x}
          <6>3. Strays(e)' \subseteq T
            BY <3>1, <6>1
          <6>4. IsFiniteSet(T) /\ Cardinality(T) = Cardinality(OpenRowsOf(e)) - 1
            BY <3>3, <6>2, FS_RemoveElement
          <6>5. Cardinality(OpenRowsOf(e)) <= b + 1
            <7> DEFINE U == Strays(e) \cup {latest[e]}
            <7>1. IsFiniteSet(U) /\ Cardinality(U) <= b + 1
              BY <3>10
            <7>2. OpenRowsOf(e) \subseteq U
              BY <3>4
            <7> HIDE DEF U
            <7>3. Cardinality(OpenRowsOf(e)) <= Cardinality(U) /\ Cardinality(U) \in Nat /\ Cardinality(OpenRowsOf(e)) \in Nat
              BY <3>3, <7>1, <7>2, FS_Subset, FS_CardinalityType
            <7> QED BY <3>6, <7>1, <7>3
          <6> HIDE DEF T
          <6>6. s <= Cardinality(T) /\ Cardinality(T) \in Nat /\ Cardinality(OpenRowsOf(e)) \in Nat
            BY <3>3, <6>3, <6>4, FS_Subset, FS_CardinalityType
          <6> QED BY <3>6, <6>4, <6>5, <6>6
        <5> QED BY <5>1, <5>2
      <4>2. overlooked'[e] = overlooked[e]
        BY <1>15, <3>9
      <4> QED BY <3>6, <4>1, <4>2
    <3> QED BY <1>4, <3>8, <3>9
  <2> QED BY <1>4, <1>15, <2>2, <2>3 DEF LatestKept
<1>23. ASSUME NEW o \in StateRequests PROVE AboutToClose(o)'
  <2> SUFFICES ASSUME o # q, change[o] # None PROVE AboutToClose(o)'
    BY <1>14 DEF AboutToClose
  <2> DEFINE d == change[o]
  <2>1. /\ d \in Changes /\ change'[o] \in Changes /\ d.equip \in Equipment
        /\ change'[o].equip = d.equip /\ change'[o].prev = d.prev /\ d.prev # k
        /\ AboutToClose(o)
    BY <1>6, <1>14, RowShapes DEF StateInv
  <2>2. \A r \in stateLog' : r.id = d.prev => r.equip = d.equip
    BY <1>3, <1>4, <1>8, <1>9, <1>11, <2>1 DEF AboutToClose
  <2>3. ASSUME ~change'[o].late
        PROVE  /\ d.prev = 0 => OpenRowsOf(d.equip)' = {}
               /\ \A r \in stateLog' : r.id = d.prev => r.open
    <3>1. d.equip # c.equip /\ ~d.late
      BY <1>14, <2>1, <2>3
    <3>2. OpenRowsOf(d.equip)' \subseteq OpenRowsOf(d.equip)
      BY <1>17, <1>18, <2>1, <3>1
    <3>3. ASSUME NEW r \in stateLog', r.id = d.prev PROVE r.open
      <4>1. PICK x \in stateLog : r = shut(x) /\ x \in Rows
        BY <1>3, <1>4, <1>9, <1>11, <2>1, <3>3
      <4>2. x.id = d.prev /\ x.open /\ x.equip = d.equip
        BY <1>8, <2>1, <3>1, <3>3, <4>1 DEF AboutToClose
      <4>3. x.id # c.prev
        BY <1>1, <1>7, <3>1, <4>2 DEF AboutToClose
      <4> QED BY <1>8, <4>1, <4>2, <4>3
    <3> QED BY <2>1, <3>1, <3>2, <3>3 DEF AboutToClose
  <2> QED BY <2>1, <2>2, <2>3 DEF AboutToClose
<1> QED BY <1>16, <1>21, <1>22, <1>23 DEF StateInv

\* A change that is given up leaves the log as it is.
LEMMA GiveUpChangeKept == ASSUME StateInv, NEW q \in StateRequests, GiveUpChange(q) PROVE StateInv'
<1>1. change' \in [StateRequests -> Changes \cup {None}] /\ change'[q] = None
      /\ \A o \in StateRequests \ {q} : change'[o] = change[o]
  BY DEF GiveUpChange, StateInv, LogTypeOK
<1>2. UNCHANGED <<stateLog, clock, latest, overlooked>>
  BY DEF GiveUpChange
<1> QED BY <1>1, <1>2 DEF StateInv, LogTypeOK, AboutToClose, LatestKept, Strays, FullSince, OpenRowsOf

\* Every step of the state requests keeps the invariant.
LEMMA StateSteps == StateInv /\ [StateNext]_stateVars => StateInv'
<1> SUFFICES ASSUME StateInv, [StateNext]_stateVars PROVE StateInv'
  OBVIOUS
<1>1. CASE UNCHANGED stateVars
  BY <1>1 DEF stateVars, StateInv, LogTypeOK, AboutToClose, LatestKept, Strays, FullSince, OpenRowsOf
<1>2. CASE TimePasses
  <2>1. clock' \in Times /\ UNCHANGED <<stateLog, change, latest, overlooked>>
    BY <1>2, EquipmentStateAssumption DEF TimePasses, StateInv, LogTypeOK, Times
  <2> QED BY <2>1 DEF StateInv, LogTypeOK, AboutToClose, LatestKept, Strays, FullSince, OpenRowsOf
<1>3. ASSUME NEW q \in StateRequests, NEW e \in Equipment, NEW name \in Names,
             Report(q, e, name) \/ ManualTransition(q, e, name) \/ \E t \in Times : PostState(q, e, name, t)
      PROVE  StateInv'
  <2>1. \E t \in Times : Prepare(q, e, name, t)
    BY <1>3 DEF Report, ManualTransition, PostState, StateInv, LogTypeOK
  <2> QED BY <2>1, PrepareKept
<1>4. ASSUME NEW q \in StateRequests, WriteChange(q) \/ GiveUpChange(q) PROVE StateInv'
  BY <1>4, WriteChangeKept, GiveUpChangeKept
<1> QED BY <1>1, <1>2, <1>3, <1>4 DEF StateNext

\* The row of the latest change of an equipment stands open in the log unless the cap took it, and
\* at most one other row stays open for each change written without having read the one before:
\* for any number of requests and any names, whether or not the state model is enforced.
THEOREM LogIsCurrent == StateSpec => []LogFollowsEquipment
<1>1. StateInv => LogFollowsEquipment
  BY DEF StateInv, LatestKept, Strays, FullSince, LogFollowsEquipment
<1> QED BY <1>1, StateBegins, StateSteps, PTL DEF StateSpec
-----------------------------------------------------------------------------
(***************************************************************************)
(* The broadcasts of the gateway.                                          *)
(***************************************************************************)

\* A walk during which nobody came or went has the size it began with; one whose
\* dictionary has kept its order and that still owes the event to somebody is under way, and
\* those it owes are behind where it stands, or there and being told.
OnItsWay(p) ==
    cast[p] # NoCast =>
        /\ ~cast[p].moved => cast[p].at # "error" /\ cast[p].size = Cardinality(Listening)
        /\ ~cast[p].shut /\ cast[p].owed # {} /\ cast[p].at # "error" =>
              /\ cast[p].at = "send"
              /\ cast[p].owed \subseteq Told \ closed
              /\ \A b \in cast[p].owed : \E j \in DOMAIN entries :
                    cast[p].pos <= j /\ entries[j] = b /\ (j = cast[p].pos => cast[p].to = b)

WalkTypeOK ==
    /\ entries \in Seq(Browsers \cup {Hole}) /\ Len(entries) <= MaxEntries
    /\ cast \in [Publishers -> Walks \cup {NoCast}]
    /\ \A p \in Publishers : cast[p].at = "send" => cast[p].to \in Browsers

EventInv == WalkTypeOK /\ \A p \in Publishers : OnItsWay(p)

\* The fields of a walk.
LEMMA WalkShapes ==
    /\ \A w \in Walks : /\ w.at \in {"send", "end", "error"} /\ w.pos \in 1..MaxEntries /\ w.size \in Nat
                        /\ w.to \in Browsers \cup {Hole} /\ w.dead \subseteq Browsers /\ w.owed \subseteq Browsers
                        /\ w.moved \in BOOLEAN /\ w.shut \in BOOLEAN
    /\ NoCast \notin Walks /\ NoCast.at = "none"
<1>1. \A w \in Walks : /\ w.at \in {"send", "end", "error"} /\ w.pos \in 1..MaxEntries /\ w.size \in Nat
                       /\ w.to \in Browsers \cup {Hole} /\ w.dead \subseteq Browsers /\ w.owed \subseteq Browsers
                       /\ w.moved \in BOOLEAN /\ w.shut \in BOOLEAN
  BY DEF Walks
<1>2. NoCast.at = "none"
  BY DEF NoCast
<1> QED BY <1>1, <1>2

\* Nobody is connected.
LEMMA EventsBegin == EventInit => EventInv
BY EventsAssumption, WalkShapes DEF EventInit, EventInv, WalkTypeOK, OnItsWay

\* The dictionary of connections is finite.
LEMMA DictIsFinite ==
    ASSUME WalkTypeOK
    PROVE  /\ Len(entries) \in Nat /\ DOMAIN entries = 1..Len(entries)
           /\ IsFiniteSet(Listening) /\ Cardinality(Listening) \in Nat /\ Listening \subseteq Browsers
<1>1. Len(entries) \in Nat /\ DOMAIN entries = 1..Len(entries)
  BY DEF WalkTypeOK
<1>2. IsFiniteSet(DOMAIN entries)
  <2>1. 1 \in Int /\ Len(entries) \in Int
    BY <1>1
  <2> QED BY <1>1, <2>1, FS_Interval
<1>3. IsFiniteSet({entries[i] : i \in DOMAIN entries})
  <2> DEFINE all == {entries[i] : i \in DOMAIN entries}
  <2>1. entries \in [DOMAIN entries -> all]
    BY DEF WalkTypeOK
  <2>2. \A x \in all : \E i \in DOMAIN entries : entries[i] = x
    OBVIOUS
  <2> HIDE DEF all
  <2>3. entries \in Surjection(DOMAIN entries, all)
    BY <2>1, <2>2 DEF Surjection
  <2>4. IsFiniteSet(all)
    BY <1>2, <2>3, FS_Surjection
  <2> QED BY <2>4 DEF all
<1>4. IsFiniteSet(Listening)
  <2> DEFINE all == {entries[i] : i \in DOMAIN entries}
  <2>1. Listening \in SUBSET all
    BY DEF Listening, InDict
  <2>2. IsFiniteSet(all)
    BY <1>3
  <2> HIDE DEF all
  <2> QED BY <2>1, <2>2, FS_Subset
<1>5. Listening \subseteq Browsers
  BY DEF WalkTypeOK, Listening, InDict
<1> QED BY <1>1, <1>4, <1>5, FS_CardinalityType

\* The walk goes on to the first entry to be told.
LEMMA GoingOn ==
    ASSUME WalkTypeOK, NEW w \in Walks, w.at = "send", NEW i \in Nat
    PROVE  LET x == Onward(w, i) IN
           /\ x \in Walks /\ x.owed = w.owed /\ x.size = w.size
           /\ x.moved = w.moved /\ x.shut = w.shut
           /\ x.at = "send" => x.to \in Browsers
           /\ x.at = "error" => w.size # Cardinality(Listening)
           /\ w.size # Cardinality(Listening) => x.at = "error"
           /\ w.size = Cardinality(Listening) /\ NextOf(i) # {} =>
                 /\ x.at = "send" /\ x.pos \in NextOf(i) /\ x.to = entries[x.pos]
                 /\ \A j \in NextOf(i) : x.pos <= j
<1>1. CASE Cardinality(Listening) # w.size
  <2> DEFINE x == [w EXCEPT !.at = "error", !.to = Hole]
  <2>1. x \in Walks /\ x.owed = w.owed /\ x.size = w.size /\ x.at = "error"
      /\ x.moved = w.moved /\ x.shut = w.shut
    BY DEF Walks
  <2> QED BY <1>1, <2>1 DEF Onward
<1>2. CASE Cardinality(Listening) = w.size /\ NextOf(i) = {}
  <2> DEFINE x == [w EXCEPT !.at = "end", !.to = Hole]
  <2>1. x \in Walks /\ x.owed = w.owed /\ x.size = w.size /\ x.at = "end"
      /\ x.moved = w.moved /\ x.shut = w.shut
    BY DEF Walks
  <2> QED BY <1>2, <2>1 DEF Onward
<1>3. CASE Cardinality(Listening) = w.size /\ NextOf(i) # {}
  <2>1. NextOf(i) \subseteq 1..MaxEntries /\ NextOf(i) \subseteq DOMAIN entries /\ NextOf(i) \in SUBSET Nat
    BY DictIsFinite, EventsAssumption DEF NextOf, WalkTypeOK
  <2>2. \E j \in NextOf(i) : \A k \in NextOf(i) : j <= k
    BY <1>3, <2>1, LeastOfSet
  <2>3. PICK j \in NextOf(i) : /\ \A k \in NextOf(i) : j <= k
                               /\ j = CHOOSE m \in NextOf(i) : \A k \in NextOf(i) : m <= k
    BY <2>2
  <2> DEFINE x == [w EXCEPT !.pos = j, !.to = entries[j]]
  <2>4. j \in 1..MaxEntries /\ entries[j] \in Browsers
    BY <2>1, DictIsFinite DEF WalkTypeOK, NextOf, Told
  <2>5. x \in Walks /\ x.owed = w.owed /\ x.size = w.size /\ x.pos = j /\ x.to = entries[j] /\ x.at = w.at
        /\ x.moved = w.moved /\ x.shut = w.shut
    BY <2>4 DEF Walks
  <2>6. Onward(w, i) = x
    BY <1>3, <2>3 DEF Onward
  <2> HIDE DEF x
  <2>7. /\ x \in Walks /\ x.owed = w.owed /\ x.size = w.size /\ x.to \in Browsers
        /\ x.moved = w.moved /\ x.shut = w.shut
        /\ x.at = "send" /\ x.pos \in NextOf(i) /\ x.to = entries[x.pos]
        /\ \A k \in NextOf(i) : x.pos <= k
    BY <2>3, <2>4, <2>5
  <2> QED BY <1>3, <2>6, <2>7
<1> QED BY <1>1, <1>2, <1>3

\* What becomes of a walk when somebody comes or goes, or need not be told any more.
Followed(w, x, lost, moving, closing) ==
    /\ x \in Walks /\ x.owed = w.owed \ lost
    /\ x.at = w.at /\ x.to = w.to /\ x.pos = w.pos /\ x.size = w.size
    /\ ~x.moved => ~moving /\ ~w.moved
    /\ ~x.shut => ~closing /\ ~w.shut

\* That is what the walks are told.
LEMMA NoticedWalks ==
    ASSUME WalkTypeOK, NEW lost \in SUBSET Browsers, NEW moving \in BOOLEAN, NEW closing \in BOOLEAN
    PROVE  /\ Noticed(lost, moving, closing) \in [Publishers -> Walks \cup {NoCast}]
           /\ \A q \in Publishers :
                 /\ cast[q] = NoCast => Noticed(lost, moving, closing)[q] = NoCast
                 /\ cast[q] # NoCast => Followed(cast[q], Noticed(lost, moving, closing)[q], lost, moving, closing)
<1> DEFINE N == Noticed(lost, moving, closing)
<1>1. ASSUME NEW q \in Publishers, cast[q] # NoCast
      PROVE  Followed(cast[q], N[q], lost, moving, closing)
  <2>1. PICK w \in Walks : w = cast[q]
    BY <1>1 DEF WalkTypeOK
  <2>2. PICK m \in BOOLEAN : m = (w.moved \/ moving)
    BY WalkShapes
  <2>3. PICK s \in BOOLEAN : s = (w.shut \/ closing)
    BY WalkShapes
  <2>4. PICK o \in SUBSET Browsers : o = w.owed \ lost
    BY WalkShapes
  <2> DEFINE x == [w EXCEPT !.owed = o, !.moved = m, !.shut = s]
  <2>5. N[q] = x
    BY <1>1, <2>1, <2>2, <2>3, <2>4 DEF Noticed
  <2>6. w \in Walks /\ o \in SUBSET Browsers /\ m \in BOOLEAN /\ s \in BOOLEAN
    BY <2>1, <2>2, <2>3, <2>4
  <2>7. x \in Walks /\ x.owed = o /\ x.moved = m /\ x.shut = s
        /\ x.at = w.at /\ x.to = w.to /\ x.pos = w.pos /\ x.size = w.size
    BY <2>6 DEF Walks
  <2> HIDE DEF x, N
  <2> QED BY <2>1, <2>2, <2>3, <2>4, <2>5, <2>7 DEF Followed
<1>2. \A q \in Publishers : cast[q] = NoCast => N[q] = NoCast
  BY DEF Noticed
<1>3. N \in [Publishers -> Walks \cup {NoCast}]
  <2>1. N = [q \in Publishers |-> N[q]]
    BY DEF Noticed
  <2> HIDE DEF N
  <2>2. \A q \in Publishers : N[q] \in Walks \cup {NoCast}
    BY <1>1, <1>2 DEF Followed
  <2> QED BY <2>1, <2>2
<1> HIDE DEF N
<1>4. \A q \in Publishers : /\ cast[q] = NoCast => N[q] = NoCast
                            /\ cast[q] # NoCast => Followed(cast[q], N[q], lost, moving, closing)
  BY <1>1, <1>2
<1> QED BY <1>3, <1>4 DEF N

\* Walks that were told what happened are on their way after it; unless holes were closed, an
\* entry whose browser has not gone is where it was.
LEMMA WalksFollow ==
    ASSUME EventInv, NEW lost \in SUBSET Browsers, NEW moving \in BOOLEAN, NEW closing \in BOOLEAN,
           \A q \in Publishers : cast'[q] = NoCast \/ cast'[q] = Noticed(lost, moving, closing)[q],
           cast' \in [Publishers -> Walks \cup {NoCast}],
           entries' \in Seq(Browsers \cup {Hole}), Len(entries') <= MaxEntries,
           ~moving => Listening' = Listening,
           ~closing => /\ Told \ lost \subseteq Told' /\ closed' \subseteq closed \cup lost
                       /\ \A j \in DOMAIN entries : entries[j] \in Browsers \ lost =>
                              j \in DOMAIN entries' /\ entries'[j] = entries[j]
    PROVE  EventInv'
<1>1. \A q \in Publishers : cast'[q] # NoCast =>
         cast[q] # NoCast /\ cast[q] \in Walks /\ Followed(cast[q], cast'[q], lost, moving, closing)
  <2>1. WalkTypeOK /\ cast \in [Publishers -> Walks \cup {NoCast}]
    BY DEF EventInv, WalkTypeOK
  <2>2. \A q \in Publishers :
           /\ cast[q] = NoCast => Noticed(lost, moving, closing)[q] = NoCast
           /\ cast[q] # NoCast => Followed(cast[q], Noticed(lost, moving, closing)[q], lost, moving, closing)
    BY <2>1, NoticedWalks
  <2> QED BY <2>1, <2>2
<1>2. WalkTypeOK'
  <2>1. \A q \in Publishers : cast'[q].at = "send" => cast'[q].to \in Browsers
    BY <1>1, WalkShapes DEF EventInv, WalkTypeOK, Followed
  <2> QED BY <2>1 DEF WalkTypeOK
<1>3. ASSUME NEW p \in Publishers, cast'[p] # NoCast PROVE OnItsWay(p)'
  <2> DEFINE w == cast[p]
             x == cast'[p]
  <2>1. /\ w # NoCast /\ w \in Walks /\ x.owed = w.owed \ lost /\ x.at = w.at /\ x.to = w.to
        /\ x.pos = w.pos /\ x.size = w.size
        /\ ~x.moved => ~moving /\ ~w.moved
        /\ ~x.shut => ~closing /\ ~w.shut
    BY <1>1, <1>3 DEF Followed
  <2>2. OnItsWay(p)
    BY DEF EventInv
  <2>3. ~w.moved => w.at # "error" /\ w.size = Cardinality(Listening)
    BY <2>1, <2>2 DEF OnItsWay
  <2>4. ~w.shut /\ w.owed # {} /\ w.at # "error" =>
              /\ w.at = "send"
              /\ w.owed \subseteq Told \ closed
              /\ \A b \in w.owed : \E j \in DOMAIN entries : w.pos <= j /\ entries[j] = b /\ (j = w.pos => w.to = b)
    BY <2>1, <2>2 DEF OnItsWay
  <2>5. w.owed \subseteq Browsers
    BY <2>1, WalkShapes
  <2> HIDE DEF w
  <2>6. ~x.moved => x.at # "error" /\ x.size = Cardinality(Listening')
    BY <2>1, <2>3
  <2>7. ASSUME ~x.shut, x.owed # {}, x.at # "error"
        PROVE  /\ x.at = "send"
               /\ x.owed \subseteq Told' \ closed'
               /\ \A b \in x.owed : \E j \in DOMAIN entries' : x.pos <= j /\ entries'[j] = b /\ (j = x.pos => x.to = b)
    <3>1. w.owed # {} /\ ~w.shut /\ ~closing
      BY <2>1, <2>7
    <3>2. /\ w.at = "send"
          /\ w.owed \subseteq Told \ closed
          /\ \A b \in w.owed : \E j \in DOMAIN entries : w.pos <= j /\ entries[j] = b /\ (j = w.pos => w.to = b)
      BY <2>1, <2>4, <2>7, <3>1
    <3>3. x.owed \subseteq Told' \ closed'
      BY <2>1, <3>1, <3>2
    <3>4. ASSUME NEW b \in x.owed
          PROVE  \E j \in DOMAIN entries' : x.pos <= j /\ entries'[j] = b /\ (j = x.pos => x.to = b)
      <4>1. b \in w.owed /\ b \in Browsers \ lost
        BY <2>1, <2>5, <3>4
      <4>2. PICK j \in DOMAIN entries : w.pos <= j /\ entries[j] = b /\ (j = w.pos => w.to = b)
        BY <3>2, <4>1
      <4>3. j \in DOMAIN entries' /\ entries'[j] = b
        BY <3>1, <4>1, <4>2
      <4> QED BY <2>1, <4>2, <4>3
    <3> QED BY <2>1, <3>2, <3>3, <3>4
  <2> QED BY <2>6, <2>7 DEF OnItsWay
<1>4. \A p \in Publishers : OnItsWay(p)'
  BY <1>3 DEF OnItsWay
<1> QED BY <1>2, <1>4 DEF EventInv

\* A browser connects, which may close the holes of the dictionary.
LEMMA ConnectKept == ASSUME EventInv, NEW b \in Browsers, Connect(b) PROVE EventInv'
<1>1. PICK d \in {entries} \cup Compact(entries) :
         Len(d) < MaxEntries /\ entries' = Append(d, b) /\ cast' = Noticed({}, TRUE, d # entries)
  BY DEF Connect
<1>2. d \in Seq(Browsers \cup {Hole})
  <2>1. CASE d = entries
    BY <2>1 DEF EventInv, WalkTypeOK
  <2>2. CASE d \in Compact(entries)
    <3>1. Cardinality(InDict(entries)) \in Nat /\ InDict(entries) \subseteq Browsers
      BY DictIsFinite DEF EventInv, Listening
    <3>2. d \in [1..Cardinality(InDict(entries)) -> InDict(entries)]
      BY <2>2 DEF Compact
    <3> QED BY <3>1, <3>2
  <2> QED BY <1>1, <2>1, <2>2
<1>3. Len(d) \in Nat
  BY <1>2
<1>4. entries' \in Seq(Browsers \cup {Hole}) /\ Len(entries') = Len(d) + 1
  BY <1>1, <1>2
<1>5. Len(entries') <= MaxEntries
  BY <1>1, <1>3, <1>4, EventsAssumption
<1>6. PICK closing \in BOOLEAN : closing = (d # entries)
  OBVIOUS
<1>7. cast' = Noticed({}, TRUE, closing)
  BY <1>1, <1>6
<1>8. cast' \in [Publishers -> Walks \cup {NoCast}]
  BY <1>7, NoticedWalks DEF EventInv
<1>9. ASSUME ~closing
      PROVE  /\ Told \ {} \subseteq Told' /\ closed' \subseteq closed \cup {}
             /\ \A j \in DOMAIN entries : entries[j] \in Browsers \ {} =>
                    j \in DOMAIN entries' /\ entries'[j] = entries[j]
  <2>1. entries' = Append(entries, b) /\ entries \in Seq(Browsers \cup {Hole})
    BY <1>1, <1>6, <1>9 DEF EventInv, WalkTypeOK
  <2>2. \A j \in DOMAIN entries : j \in DOMAIN entries' /\ entries'[j] = entries[j]
    BY <2>1
  <2>3. Listening \subseteq Listening'
    BY <2>2 DEF Listening, InDict
  <2>4. deaf' = deaf /\ closed' = closed
    BY DEF Connect
  <2> QED BY <2>2, <2>3, <2>4 DEF Told
<1>10. \A q \in Publishers : cast'[q] = NoCast \/ cast'[q] = Noticed({}, TRUE, closing)[q]
  BY <1>7
<1> QED
  <2> DEFINE none == {}
  <2>1. none \in SUBSET Browsers
    OBVIOUS
  <2> QED BY <1>4, <1>5, <1>8, <1>9, <1>10, <2>1, WalksFollow

\* Browsers leave holes in the dictionary.
LEMMA HolesLeft ==
    ASSUME WalkTypeOK, NEW D \in SUBSET Browsers,
           entries' = [i \in DOMAIN entries |-> IF entries[i] \in D THEN Hole ELSE entries[i]],
           deaf' = deaf \ D, closed' = closed \ D
    PROVE  /\ entries' \in Seq(Browsers \cup {Hole}) /\ Len(entries') <= MaxEntries
           /\ Told \ D \subseteq Told' /\ closed' \subseteq closed \cup D
           /\ \A j \in DOMAIN entries : entries[j] \in Browsers \ D =>
                  j \in DOMAIN entries' /\ entries'[j] = entries[j]
           /\ D = {} => Listening' = Listening
<1>1. /\ Len(entries) \in Nat /\ DOMAIN entries = 1..Len(entries) /\ Len(entries) <= MaxEntries
      /\ \A i \in 1..Len(entries) : entries[i] \in Browsers \cup {Hole}
  BY DEF WalkTypeOK
<1>2. entries' \in [1..Len(entries) -> Browsers \cup {Hole}]
  BY <1>1
<1>3. entries' \in Seq(Browsers \cup {Hole}) /\ Len(entries') = Len(entries) /\ DOMAIN entries' = DOMAIN entries
  BY <1>1, <1>2
<1>4. \A j \in DOMAIN entries : entries[j] \in Browsers \ D => entries'[j] = entries[j]
  OBVIOUS
<1>5. Listening \ D \subseteq Listening'
  BY <1>1, <1>3, <1>4 DEF Listening, InDict
<1>6. D = {} => Listening' = Listening
  <2>1. D = {} => \A j \in DOMAIN entries : entries'[j] = entries[j]
    OBVIOUS
  <2> QED BY <1>3, <2>1 DEF Listening, InDict
<1> QED BY <1>1, <1>3, <1>4, <1>5, <1>6 DEF Told

\* A browser leaves a hole in the dictionary.
LEMMA DisconnectKept == ASSUME EventInv, NEW b \in Browsers, Disconnect(b) PROVE EventInv'
<1> DEFINE D == {b}
<1>1. /\ D \in SUBSET Browsers /\ deaf' = deaf \ D /\ closed' = closed \ D
      /\ entries' = [i \in DOMAIN entries |-> IF entries[i] \in D THEN Hole ELSE entries[i]]
      /\ cast' = Noticed(D, TRUE, FALSE)
  BY DEF Disconnect, Without
<1> HIDE DEF D
<1>2. WalkTypeOK /\ cast' \in [Publishers -> Walks \cup {NoCast}]
  BY <1>1, NoticedWalks DEF EventInv
<1>3. \A q \in Publishers : cast'[q] = NoCast \/ cast'[q] = Noticed(D, TRUE, FALSE)[q]
  BY <1>1
<1> QED BY <1>1, <1>2, <1>3, HolesLeft, WalksFollow

\* A filter changes, or a connection breaks.
LEMMA FilterBreakKept ==
    ASSUME EventInv, NEW b \in Browsers, Break(b) \/ \E matches \in BOOLEAN : Filter(b, matches)
    PROVE  EventInv'
<1> DEFINE D == {b}
<1>1. /\ D \in SUBSET Browsers /\ entries' = entries /\ cast' = Noticed(D, FALSE, FALSE)
      /\ Told \ D \subseteq Told' /\ closed' \subseteq closed \cup D
  BY DEF Break, Filter, Told, Listening
<1> HIDE DEF D
<1>2. WalkTypeOK /\ cast' \in [Publishers -> Walks \cup {NoCast}]
  BY <1>1, NoticedWalks DEF EventInv
<1>3. \A q \in Publishers : cast'[q] = NoCast \/ cast'[q] = Noticed(D, FALSE, FALSE)[q]
  BY <1>1
<1>4. /\ entries' \in Seq(Browsers \cup {Hole}) /\ Len(entries') <= MaxEntries /\ Listening' = Listening
      /\ \A j \in DOMAIN entries : entries[j] \in Browsers \ D => j \in DOMAIN entries' /\ entries'[j] = entries[j]
  BY <1>1, <1>2 DEF WalkTypeOK, Listening
<1> QED BY <1>1, <1>2, <1>3, <1>4, WalksFollow

\* A step of one walk leaves the others on their way.
LEMMA OneWalk ==
    ASSUME EventInv, NEW p \in Publishers, NEW x \in Walks \cup {NoCast}, cast' = [cast EXCEPT ![p] = x],
           x.at = "send" => x.to \in Browsers,
           UNCHANGED <<entries, deaf, closed>>, cast'[p] = x => OnItsWay(p)'
    PROVE  EventInv'
<1>1. cast'[p] = x /\ WalkTypeOK' /\ \A q \in Publishers \ {p} : cast'[q] = cast[q]
  BY DEF EventInv, WalkTypeOK
<1>2. Listening' = Listening /\ Told' = Told
  BY DEF Listening, Told
<1>3. \A q \in Publishers \ {p} : OnItsWay(q)'
  BY <1>1, <1>2 DEF EventInv, OnItsWay
<1> QED BY <1>1, <1>3 DEF EventInv

\* A walk begins at the first browser to be told.
LEMMA BroadcastKept == ASSUME EventInv, NEW p \in Publishers, Broadcast(p) PROVE EventInv'
<1> DEFINE w == [at |-> "send", pos |-> 1, size |-> Cardinality(Listening), to |-> Hole,
                 dead |-> {}, owed |-> Told \ closed, moved |-> FALSE, shut |-> FALSE]
           x == Onward(w, 0)
<1>0. WalkTypeOK /\ Cardinality(Listening) \in Nat /\ Told \subseteq Listening /\ Listening \subseteq Browsers
      /\ Len(entries) \in Nat /\ DOMAIN entries = 1..Len(entries)
  BY DictIsFinite DEF EventInv, Told
<1>1. w \in Walks /\ w.at = "send" /\ w.size = Cardinality(Listening) /\ w.owed = Told \ closed
  BY <1>0, EventsAssumption DEF Walks
<1>2. cast' = [cast EXCEPT ![p] = x] /\ UNCHANGED <<entries, deaf, closed>>
  BY DEF Broadcast
<1> HIDE DEF w
<1>3. /\ x \in Walks /\ x.owed = Told \ closed /\ x.size = Cardinality(Listening) /\ x.at # "error"
      /\ x.at = "send" => x.to \in Browsers
      /\ NextOf(0) # {} => /\ x.at = "send" /\ x.pos \in NextOf(0) /\ x.to = entries[x.pos]
                           /\ \A j \in NextOf(0) : x.pos <= j
  BY <1>0, <1>1, GoingOn
<1> HIDE DEF x
<1>4. \A b \in Told : \E j \in DOMAIN entries : j \in NextOf(0) /\ entries[j] = b
  BY <1>0 DEF Told, Listening, InDict, NextOf
<1>5. Listening' = Listening /\ Told' = Told
  BY <1>2 DEF Listening, Told
<1>6. ASSUME cast'[p] = x PROVE OnItsWay(p)'
  <2>1. ASSUME x.owed # {}
        PROVE  /\ x.at = "send"
               /\ \A b \in x.owed : \E j \in DOMAIN entries : x.pos <= j /\ entries[j] = b /\ (j = x.pos => x.to = b)
    <3>1. NextOf(0) # {}
      BY <1>3, <1>4, <2>1
    <3>2. x.at = "send" /\ x.to = entries[x.pos] /\ \A j \in NextOf(0) : x.pos <= j
      BY <1>3, <3>1
    <3>3. \A b \in x.owed : \E j \in DOMAIN entries : j \in NextOf(0) /\ entries[j] = b
      BY <1>3, <1>4
    <3> QED BY <3>2, <3>3
  <2> QED BY <1>2, <1>3, <1>5, <1>6, <2>1 DEF OnItsWay
<1> QED BY <1>2, <1>3, <1>6, OneWalk

\* A walk goes on from a browser that was told, or could not be.
LEMMA SentKept == ASSUME EventInv, NEW p \in Publishers, Sent(p) PROVE EventInv'
<1>0. WalkTypeOK /\ Listening \subseteq Browsers /\ Len(entries) \in Nat /\ DOMAIN entries = 1..Len(entries)
  BY DictIsFinite DEF EventInv
<1>1. PICK v \in Walks : v = cast[p] /\ v.at = "send" /\ v.to \in Browsers /\ v.pos \in Nat
  BY WalkShapes DEF Sent, EventInv, WalkTypeOK
<1> DEFINE b == v.to
           w == IF b \in Listening \ closed THEN [v EXCEPT !.owed = @ \ {b}] ELSE [v EXCEPT !.dead = @ \cup {b}]
           x == Onward(w, v.pos)
<1>2. cast' = [cast EXCEPT ![p] = x] /\ UNCHANGED <<entries, deaf, closed>>
  BY <1>1 DEF Sent
<1>3. /\ w \in Walks /\ w.at = "send" /\ w.size = v.size /\ w.pos = v.pos
      /\ w.moved = v.moved /\ w.shut = v.shut
      /\ w.owed = IF b \in Listening \ closed THEN v.owed \ {b} ELSE v.owed
  BY <1>1 DEF Walks
<1> HIDE DEF w
<1>4. /\ x \in Walks /\ x.owed = w.owed /\ x.size = v.size /\ x.moved = v.moved /\ x.shut = v.shut
      /\ x.at = "send" => x.to \in Browsers
      /\ x.at = "error" => v.size # Cardinality(Listening)
      /\ x.at # "error" => v.size = Cardinality(Listening)
      /\ v.size = Cardinality(Listening) /\ NextOf(v.pos) # {} =>
            /\ x.at = "send" /\ x.pos \in NextOf(v.pos) /\ x.to = entries[x.pos]
            /\ \A j \in NextOf(v.pos) : x.pos <= j
  BY <1>0, <1>1, <1>3, GoingOn
<1> HIDE DEF x
<1>5. Listening' = Listening /\ Told' = Told
  BY <1>2 DEF Listening, Told
<1>6. ASSUME cast'[p] = x PROVE OnItsWay(p)'
  <2>1. /\ ~v.moved => v.size = Cardinality(Listening)
        /\ ~v.shut /\ v.owed # {} =>
              /\ v.owed \subseteq Told \ closed
              /\ \A c \in v.owed : \E j \in DOMAIN entries : v.pos <= j /\ entries[j] = c /\ (j = v.pos => v.to = c)
    BY <1>1, WalkShapes DEF EventInv, OnItsWay
  <2>2. ASSUME ~x.shut, x.owed # {}, x.at # "error"
        PROVE  /\ x.at = "send" /\ x.owed \subseteq Told \ closed
               /\ \A c \in x.owed : \E j \in DOMAIN entries : x.pos <= j /\ entries[j] = c /\ (j = x.pos => x.to = c)
    <3>1. v.size = Cardinality(Listening) /\ ~v.shut /\ v.owed # {} /\ x.owed \subseteq v.owed
      BY <1>3, <1>4, <2>2
    <3>2. /\ v.owed \subseteq Told \ closed
          /\ \A c \in v.owed : \E j \in DOMAIN entries : v.pos <= j /\ entries[j] = c /\ (j = v.pos => v.to = c)
      BY <2>1, <3>1
    <3>3. b \notin x.owed
      BY <1>3, <1>4, <3>2 DEF Told
    <3>4. ASSUME NEW c \in x.owed PROVE \E j \in DOMAIN entries : j \in NextOf(v.pos) /\ entries[j] = c
      <4>1. PICK j \in DOMAIN entries : v.pos <= j /\ entries[j] = c /\ (j = v.pos => v.to = c)
        BY <3>1, <3>2, <3>4
      <4>2. j # v.pos /\ entries[j] \in Told
        BY <3>1, <3>2, <3>3, <3>4, <4>1
      <4> QED BY <1>0, <1>1, <4>1, <4>2 DEF NextOf
    <3>5. NextOf(v.pos) # {}
      BY <2>2, <3>4
    <3>6. x.at = "send" /\ x.to = entries[x.pos] /\ \A j \in NextOf(v.pos) : x.pos <= j
      BY <1>4, <3>1, <3>5
    <3>7. ASSUME NEW c \in x.owed
          PROVE  \E j \in DOMAIN entries : x.pos <= j /\ entries[j] = c /\ (j = x.pos => x.to = c)
      <4>1. PICK j \in DOMAIN entries : j \in NextOf(v.pos) /\ entries[j] = c
        BY <3>4, <3>7
      <4> QED BY <3>6, <4>1
    <3> QED BY <3>1, <3>2, <3>6, <3>7
  <2>3. ~x.moved => x.at # "error" /\ x.size = Cardinality(Listening)
    BY <1>4, <2>1
  <2> QED BY <1>2, <1>5, <1>6, <2>2, <2>3 DEF OnItsWay
<1> QED BY <1>2, <1>4, <1>6, OneWalk

\* A walk that ends removes the dead.
LEMMA FinishKept == ASSUME EventInv, NEW p \in Publishers, Finish(p) PROVE EventInv'
<1> DEFINE D == cast[p].dead \cap Listening
<1>0. WalkTypeOK /\ Listening \subseteq Browsers
  BY DictIsFinite DEF EventInv
<1>1. PICK moving \in BOOLEAN : moving = (D # {})
  OBVIOUS
<1>2. /\ entries' = [i \in DOMAIN entries |-> IF entries[i] \in D THEN Hole ELSE entries[i]]
      /\ deaf' = deaf \ D /\ closed' = closed \ D
      /\ cast' = [Noticed(D, moving, FALSE) EXCEPT ![p] = NoCast]
      /\ D \in SUBSET Browsers
  BY <1>0, <1>1 DEF Finish
<1> HIDE DEF D
<1>3. Noticed(D, moving, FALSE) \in [Publishers -> Walks \cup {NoCast}]
  BY <1>0, <1>2, NoticedWalks
<1>4. cast' \in [Publishers -> Walks \cup {NoCast}]
      /\ \A q \in Publishers : cast'[q] = NoCast \/ cast'[q] = Noticed(D, moving, FALSE)[q]
  BY <1>2, <1>3
<1> QED BY <1>0, <1>1, <1>2, <1>4, HolesLeft, WalksFollow

\* Every step of the browsers and of the broadcasts keeps the invariant.
LEMMA EventSteps == EventInv /\ [EventNext]_eventVars => EventInv'
<1> SUFFICES ASSUME EventInv, [EventNext]_eventVars PROVE EventInv'
  OBVIOUS
<1>1. CASE UNCHANGED eventVars
  BY <1>1 DEF eventVars, EventInv, WalkTypeOK, OnItsWay, Told, Listening
<1>2. ASSUME NEW b \in Browsers, Connect(b) \/ Disconnect(b) PROVE EventInv'
  BY <1>2, ConnectKept, DisconnectKept
<1>3. ASSUME NEW b \in Browsers, Break(b) \/ \E matches \in BOOLEAN : Filter(b, matches) PROVE EventInv'
  BY <1>3, FilterBreakKept
<1>4. ASSUME NEW p \in Publishers, Broadcast(p) \/ Sent(p) \/ Finish(p) PROVE EventInv'
  BY <1>4, BroadcastKept, SentKept, FinishKept
<1>5. ASSUME NEW p \in Publishers, GiveUpCast(p) PROVE EventInv'
  <2>1. cast'[p] = NoCast => OnItsWay(p)'
    BY DEF OnItsWay
  <2>2. NoCast.at # "send"
    BY WalkShapes
  <2> QED BY <1>5, <2>1, <2>2, OneWalk DEF GiveUpCast
<1> QED BY <1>1, <1>2, <1>3, <1>4, <1>5 DEF EventNext

\* A broadcast that ends has told every browser connected through it, with a filter that matches,
\* whoever came or went meanwhile, unless the holes of the dictionary were closed under it; it breaks
\* off only if somebody came or went: for any number of browsers and of overlapping broadcasts.
THEOREM EveryoneIsTold == EventSpec => []MissedExplained
<1>1. ASSUME EventInv PROVE MissedExplained
  <2> SUFFICES ASSUME NEW p \in Publishers
               PROVE  /\ cast[p].at = "end" /\ cast[p].owed # {} => cast[p].shut
                      /\ cast[p].at = "error" => cast[p].moved
    BY DEF MissedExplained
  <2>1. OnItsWay(p) /\ (cast[p] = NoCast => cast[p].at = "none")
    BY <1>1, WalkShapes DEF EventInv
  <2> QED BY <2>1 DEF OnItsWay
<1> QED BY <1>1, EventsBegin, EventSteps, PTL DEF EventSpec

(***************************************************************************)
(* The counters and the status of an order under interleaved requests.     *)
(***************************************************************************)

\* What a request was asked to do, and to what.
Asked(r) ==
    pc[r] # "idle" =>
        \/ op[r] \in UnitOps \cup {"create"} /\ about[r] \in Units
        \/ op[r] = "close" /\ about[r] \in Orders

\* A row is locked by a request in flight, on its unit or its order.
LockHeld(x) ==
    lock[x] # Nobody => /\ lock[x] \in InFlight
                        /\ x = about[lock[x]] \/ x = OrderOf(lock[x])

Decided(r) == pc[r] \in {"flush_unit", "flush_order", "commit"}

\* What a request has found and locked when it gets so far.
Prepared(r) ==
    /\ Decided(r) /\ op[r] \in UnitOps => Admits(op[r], seenStatus[r])
    /\ pc[r] = "flush_unit" => op[r] \in UnitOps
    /\ pc[r] \in {"flush_order", "commit"} /\ op[r] \in Counters => lock[about[r]] = r
    /\ pc[r] = "commit" /\ op[r] \in Counters => lock[OrderOf(r)] = r
    /\ r \in InFlight /\ op[r] = "create" /\ lock[about[r]] = r => unitStatus[about[r]] = "absent"

\* The number of requests that settled a unit of the order, without and with those
\* another one overlapped, is where the counter n may be.
InBounds(o, c, n) ==
    /\ Cardinality(Settling(o, c, settled \ overlapped)) <= n
    /\ n <= Cardinality(Settling(o, c, settled))

\* The counters a request has read still are within the bounds.
SawEnough(r) ==
    Decided(r) => \A c \in Counters : InBounds(OrderOf(r), c, seenCount[r][c])

\* A request that runs alone on its order still finds the rows as it read them.
Undisturbed(r) ==
    r \in InFlight \ overlapped =>
        /\ \A q \in InFlight : OrderOf(q) = OrderOf(r) => q = r
        /\ op[r] \in UnitOps => seenStatus[r] = unitStatus[about[r]]
        /\ Decided(r) => seenCount[r] = count[OrderOf(r)]
        /\ op[r] = "create" /\ (pc[r] = "flush_order" \/ lock[OrderOf(r)] = r)
              => orderStatus[OrderOf(r)] = "released"

RequestInv(r) == Asked(r) /\ Prepared(r) /\ SawEnough(r) /\ Undisturbed(r)

OrdersInv ==
    /\ OrdersTypeOK
    /\ CountersExplained
    /\ \A r \in settled : pc[r] = "done"
    /\ \A r \in overlapped : pc[r] # "idle"
    /\ \A x \in Units \cup Orders : LockHeld(x)
    /\ \A r \in Requests : RequestInv(r)

\* The order of a request that was made.
LEMMA OrderOfMade ==
    ASSUME NEW r \in Requests, Asked(r), pc[r] # "idle"
    PROVE  /\ OrderOf(r) \in Orders
           /\ about[r] \in Units => OrderOf(r) = Home[about[r]]
           /\ about[r] \in Units \/ OrderOf(r) = about[r]
BY RequestAssumption DEF Asked, OrderOf, OrderAt

\* Nobody has settled anything yet, and no unit is completed or scrapped.
LEMMA OrdersBegin == OrdersInit => OrdersInv
<1> SUFFICES ASSUME OrdersInit PROVE OrdersInv
  OBVIOUS
<1>1. OrdersTypeOK
  <2>1. Zero \in [Counters -> Nat]
    BY DEF Zero
  <2>2. unitStatus \in [Units -> UnitStatuses] /\ orderStatus \in [Orders -> OrderStatuses]
    BY DEF OrdersInit, UnitStatuses, OrderStatuses
  <2> QED BY <2>1, <2>2 DEF OrdersInit, OrdersTypeOK, Stages, UnitStatuses
<1>2. CountersExplained
  <2>1. \A o \in Orders, c \in Counters : Settling(o, c, settled) = {} /\ Settling(o, c, settled \ overlapped) = {}
    BY DEF OrdersInit, Settling
  <2>2. \A o \in Orders, c \in Counters : {u \in Units : Home[u] = o /\ unitStatus[u] = c} = {}
    BY DEF OrdersInit, Counters
  <2>3. \A o \in Orders, c \in Counters : count[o][c] = 0
    BY DEF OrdersInit, Zero
  <2>4. Cardinality({}) = 0
    BY FS_EmptySet
  <2>5. \A o \in Orders, c \in Counters :
            /\ Cardinality(Settling(o, c, settled)) = 0
            /\ Cardinality(Settling(o, c, settled \ overlapped)) = 0
            /\ Cardinality({u \in Units : Home[u] = o /\ unitStatus[u] = c}) = 0
    <3> TAKE o \in Orders, c \in Counters
    <3>1. Cardinality(Settling(o, c, settled)) = 0
      BY <2>1, <2>4
    <3>2. Cardinality(Settling(o, c, settled \ overlapped)) = 0
      BY <2>1, <2>4
    <3>3. Cardinality({u \in Units : Home[u] = o /\ unitStatus[u] = c}) = 0
      BY <2>2, <2>4
    <3> QED BY <3>1, <3>2, <3>3
  <2> QED BY <2>3, <2>5 DEF CountersExplained
<1>3. \A r \in Requests : pc[r] = "idle" /\ r \notin InFlight
  BY DEF OrdersInit, InFlight
<1>4. \A r \in Requests : RequestInv(r)
  BY <1>3 DEF RequestInv, Asked, Prepared, Decided, SawEnough, Undisturbed
<1> QED BY <1>1, <1>2, <1>4 DEF OrdersInv, OrdersInit, LockHeld

(***************************************************************************)
(* Steps that write no row.                                                *)
(***************************************************************************)

\* The same requests have settled a unit of each order, and the same ones alone.
SameSettled ==
    \A o \in Orders, c \in Counters :
        /\ Settling(o, c, settled)' = Settling(o, c, settled)
        /\ Settling(o, c, settled \ overlapped)' = Settling(o, c, settled \ overlapped)

\* A request is where it was and holds the locks it held.
Untouched(q) ==
    /\ pc'[q] = pc[q] /\ op'[q] = op[q] /\ about'[q] = about[q]
    /\ seenStatus'[q] = seenStatus[q] /\ seenCount'[q] = seenCount[q]
    /\ \A x \in Units \cup Orders : (lock'[x] = q) <=> (lock[x] = q)

\* If it is alone now it was alone before.
StillAlone(q) ==
    q \in InFlight' \ overlapped' =>
        /\ q \in InFlight \ overlapped
        /\ \A p \in InFlight' : OrderOf(p)' = OrderOf(q)' => p = q

\* What holds of a request goes on to hold while the rows stay.
LEMMA UntouchedKept ==
    ASSUME NEW q \in Requests, RequestInv(q), Untouched(q), UNCHANGED orderRows, SameSettled, StillAlone(q)
    PROVE  RequestInv(q)'
<1>1. OrderOf(q)' = OrderOf(q) /\ (q \in InFlight' <=> q \in InFlight) /\ (Decided(q)' <=> Decided(q))
  BY DEF OrderOf, OrderAt, InFlight, Untouched, Decided
<1>2. Asked(q)'
  BY DEF RequestInv, Asked, Untouched
<1>3. q \in InFlight => /\ OrderOf(q) \in Orders
                        /\ (lock'[OrderOf(q)] = q) <=> (lock[OrderOf(q)] = q)
                        /\ (lock'[about[q]] = q) <=> (lock[about[q]] = q)
  BY OrderOfMade DEF RequestInv, Untouched, Asked, InFlight
<1>r. unitStatus' = unitStatus /\ orderStatus' = orderStatus /\ count' = count
  BY DEF orderRows
<1>4. Prepared(q)'
  <2>1. Decided(q) => q \in InFlight
    BY DEF Decided, InFlight
  <2>2. pc[q] \in {"flush_order", "commit"} => q \in InFlight
    BY DEF InFlight
  <2> QED BY <1>1, <1>3, <1>r, <2>1, <2>2 DEF RequestInv, Prepared, Untouched
<1>5. SawEnough(q)'
  <2> SUFFICES ASSUME Decided(q), NEW c \in Counters PROVE InBounds(OrderOf(q), c, seenCount[q][c])'
    BY <1>1 DEF SawEnough
  <2>1. InBounds(OrderOf(q), c, seenCount[q][c])
    BY DEF RequestInv, SawEnough
  <2>2. OrderOf(q) \in Orders
    BY <1>3 DEF Decided, InFlight
  <2> QED BY <1>1, <2>1, <2>2 DEF InBounds, SameSettled, Untouched
<1>6. Undisturbed(q)'
  BY <1>1, <1>3, <1>r DEF RequestInv, Undisturbed, StillAlone, Untouched
<1> QED BY <1>2, <1>4, <1>5, <1>6 DEF RequestInv

\* The counters stay explained while the rows stay.
LEMMA ExplainedKept ==
    ASSUME CountersExplained, UNCHANGED orderRows, SameSettled,
           \A o \in Orders : Alone(o)' => Alone(o)
    PROVE  CountersExplained'
BY DEF CountersExplained, SameSettled, orderRows

\* A step of r that writes no row: the others stay where they are, and if it is r's first,
\* those it meets on its order are marked.
Quiet(r) ==
    /\ UNCHANGED <<orderRows, settled>>
    /\ pc[r] # "done" /\ pc'[r] # "idle"
    /\ pc[r] # "idle" => op'[r] = op[r] /\ about'[r] = about[r]
    /\ \A q \in Requests \ {r} : Untouched(q)
    /\ overlapped \subseteq overlapped'
    /\ \A q \in overlapped' \ overlapped : q = r \/ q \in InFlight
    /\ r \in InFlight \/ \A q \in InFlight : OrderOf(q) = OrderOf(r)' => q \in overlapped'

\* It settles nothing.
LEMMA SettledStay ==
    ASSUME OrdersInv, NEW r \in Requests, Quiet(r)
    PROVE  SameSettled
<1>1. settled' = settled /\ r \notin settled
  BY DEF Quiet, OrdersInv
<1>2. \A q \in settled : q \in Requests \ {r} /\ op'[q] = op[q] /\ OrderOf(q)' = OrderOf(q)
  BY <1>1 DEF Quiet, Untouched, OrderOf, OrderAt, OrdersInv, OrdersTypeOK
<1>3. \A q \in settled : q \in overlapped' <=> q \in overlapped
  BY <1>1 DEF Quiet, OrdersInv, InFlight
<1>4. ASSUME NEW o \in Orders, NEW c \in Counters
      PROVE  /\ Settling(o, c, settled)' = Settling(o, c, settled)
             /\ Settling(o, c, settled \ overlapped)' = Settling(o, c, settled \ overlapped)
  <2>1. {q \in settled' : op'[q] = c /\ OrderOf(q)' = o} = {q \in settled : op[q] = c /\ OrderOf(q) = o}
    BY <1>1, <1>2
  <2>2. {q \in settled' \ overlapped' : op'[q] = c /\ OrderOf(q)' = o}
          = {q \in settled \ overlapped : op[q] = c /\ OrderOf(q) = o}
    BY <1>1, <1>2, <1>3
  <2> QED BY <2>1, <2>2 DEF Settling
<1> QED BY <1>4 DEF SameSettled

\* It keeps the invariant if it keeps what concerns r and the locks.
LEMMA QuietStep ==
    ASSUME OrdersInv, NEW r \in Requests, Quiet(r), OrdersTypeOK',
           \A x \in Units \cup Orders : LockHeld(x)', RequestInv(r)'
    PROVE  OrdersInv'
<1>1. SameSettled
  BY SettledStay
<1>2. ASSUME NEW q \in Requests, q # r
      PROVE  RequestInv(q)'
  <2>1. StillAlone(q)
    <3> SUFFICES ASSUME q \in InFlight' \ overlapped'
                 PROVE  /\ q \in InFlight \ overlapped
                        /\ \A p \in InFlight' : OrderOf(p)' = OrderOf(q)' => p = q
      BY DEF StillAlone
    <3>1. q \in InFlight \ overlapped /\ OrderOf(q)' = OrderOf(q)
      BY <1>2 DEF Quiet, Untouched, InFlight, OrderOf, OrderAt
    <3>2. \A p \in InFlight : OrderOf(p) = OrderOf(q) => p = q
      BY <3>1 DEF OrdersInv, RequestInv, Undisturbed
    <3>3. ASSUME NEW p \in InFlight', OrderOf(p)' = OrderOf(q)', p # r
          PROVE  p = q
      BY <3>1, <3>2, <3>3 DEF Quiet, Untouched, InFlight, OrderOf, OrderAt
    <3>4. CASE r \in InFlight
      <4>1. OrderOf(r)' = OrderOf(r)
        BY <3>4 DEF Quiet, InFlight, OrderOf, OrderAt
      <4> QED BY <1>2, <3>1, <3>2, <3>3, <3>4, <4>1
    <3>5. CASE r \notin InFlight
      BY <3>1, <3>3, <3>5 DEF Quiet
    <3> QED BY <3>1, <3>3, <3>4, <3>5
  <2> QED BY <1>1, <1>2, <2>1, UntouchedKept DEF Quiet, OrdersInv
<1>3. \A o \in Orders : Alone(o)' => Alone(o)
  <2> SUFFICES ASSUME NEW o \in Orders, Alone(o)', NEW q \in overlapped PROVE OrderOf(q) # o
    BY DEF Alone
  <2>1. q \in overlapped' /\ q \in Requests /\ pc[q] # "idle"
    BY DEF Quiet, OrdersInv, OrdersTypeOK
  <2>2. OrderOf(q)' = OrderOf(q)
    BY <2>1 DEF Quiet, Untouched, OrderOf, OrderAt
  <2> QED BY <2>1, <2>2 DEF Alone
<1>4. CountersExplained'
  BY <1>1, <1>3, ExplainedKept DEF OrdersInv, Quiet
<1>5. \A q \in settled' : pc'[q] = "done"
  BY DEF OrdersInv, OrdersTypeOK, Quiet, Untouched
<1>6. \A q \in overlapped' : pc'[q] # "idle"
  BY DEF OrdersInv, OrdersTypeOK, Quiet, Untouched, InFlight
<1> QED BY <1>2, <1>4, <1>5, <1>6 DEF OrdersInv

(***************************************************************************)
(* The steps.                                                              *)
(***************************************************************************)

\* A request arrives and reads its unit.
LEMMA AskStep == ASSUME OrdersInv, NEW r \in Requests, Ask(r) PROVE OrdersInv'
<1>1. PICK o \in UnitOps \cup {"create", "close"}, x \in Units \cup Orders :
        /\ Arrive(r, o, x)
        /\ (o \in UnitOps \cup {"create"} /\ x \in Units) \/ (o = "close" /\ x \in Orders)
        /\ o \in UnitOps => unitStatus[x] # "absent" /\ seenStatus' = [seenStatus EXCEPT ![r] = unitStatus[x]]
        /\ o \notin UnitOps => seenStatus' = seenStatus
        /\ pc' = [pc EXCEPT ![r] = IF o = "create" THEN "insert" ELSE "read_order"]
        /\ UNCHANGED <<orderRows, seenCount, lock, settled>>
  <2>1. CASE \E o \in UnitOps, u \in Units : ReadUnit(r, o, u)
    BY <2>1 DEF ReadUnit, UnitOps, Counters
  <2>2. CASE \E u \in Units : CheckSerial(r, u)
    BY <2>2 DEF CheckSerial, sessionSeen, UnitOps, Counters
  <2>3. CASE \E o \in Orders : AskToClose(r, o)
    BY <2>3 DEF AskToClose, sessionSeen, UnitOps, Counters
  <2> QED BY <2>1, <2>2, <2>3 DEF Ask
<1>t. OrdersTypeOK
  BY DEF OrdersInv
<1>2. /\ pc[r] = "idle" /\ op'[r] = o /\ about'[r] = x /\ OrderOf(r)' = OrderAt(x)
      /\ pc'[r] \in {"insert", "read_order"} /\ r \in InFlight' /\ r \notin overlapped /\ r \notin InFlight
  BY <1>1, <1>t DEF Arrive, OrdersTypeOK, OrderOf, OrderAt, OrdersInv, InFlight
<1>3. OrdersTypeOK'
  <2>1. unitStatus' \in [Units -> UnitStatuses] /\ orderStatus' \in [Orders -> OrderStatuses]
        /\ count' \in [Orders -> [Counters -> Nat]] /\ settled' \subseteq Requests
        /\ seenCount' \in [Requests -> [Counters -> Nat]]
        /\ lock' \in [Units \cup Orders -> Requests \cup {Nobody}]
    BY <1>1, <1>t DEF OrdersTypeOK, orderRows
  <2>2. op' \in [Requests -> UnitOps \cup {"none", "create", "close"}]
        /\ about' \in [Requests -> Units \cup Orders \cup {Nobody}]
    BY <1>1, <1>t DEF OrdersTypeOK, Arrive
  <2>3. pc' \in [Requests -> Stages]
    BY <1>1, <1>t DEF OrdersTypeOK, Stages
  <2>4. seenStatus' \in [Requests -> UnitStatuses]
    <3>1. o \in UnitOps => unitStatus[x] \in UnitStatuses
      BY <1>1, <1>t DEF OrdersTypeOK, UnitOps, Counters
    <3> QED BY <1>1, <1>t, <3>1 DEF OrdersTypeOK
  <2>5. overlapped' \subseteq Requests
    BY <1>1, <1>t DEF OrdersTypeOK, Arrive, OnOrder, InFlight
  <2> QED BY <2>1, <2>2, <2>3, <2>4, <2>5 DEF OrdersTypeOK
<1>4. Quiet(r)
  <2>1. \A q \in Requests \ {r} : Untouched(q)
    BY <1>1, <1>t DEF Untouched, Arrive, OrdersTypeOK
  <2>2. overlapped \subseteq overlapped' /\ \A q \in overlapped' \ overlapped : q = r \/ q \in InFlight
    BY <1>1 DEF Arrive, OnOrder
  <2>3. \A q \in InFlight : OrderOf(q) = OrderOf(r)' => q \in overlapped'
    BY <1>1, <1>2 DEF Arrive, OnOrder
  <2> QED BY <1>1, <1>2, <2>1, <2>2, <2>3 DEF Quiet
<1>5. \A y \in Units \cup Orders : LockHeld(y)'
  <2> SUFFICES ASSUME NEW y \in Units \cup Orders, lock[y] # Nobody PROVE LockHeld(y)'
    BY <1>1 DEF LockHeld
  <2>1. lock[y] \in InFlight /\ (y = about[lock[y]] \/ y = OrderOf(lock[y])) /\ lock'[y] = lock[y]
    BY <1>1 DEF OrdersInv, LockHeld
  <2>2. lock[y] \in Requests \ {r}
    BY <1>2, <2>1 DEF InFlight
  <2> QED BY <1>4, <2>1, <2>2 DEF LockHeld, Quiet, Untouched, InFlight, OrderOf, OrderAt
<1>6. RequestInv(r)'
  <2>1. Asked(r)'
    BY <1>1, <1>2 DEF Asked
  <2>2. x \in Units \cup Orders /\ OrderAt(x) \in Orders
    BY <1>1, RequestAssumption DEF OrderAt
  <2>3. lock'[x] # r /\ lock'[OrderAt(x)] # r
    BY <1>1, <1>2, <2>2, RequestAssumption DEF OrdersInv, LockHeld
  <2>4. Prepared(r)'
    BY <1>2, <2>3 DEF Prepared, Decided
  <2>5. SawEnough(r)'
    BY <1>2 DEF SawEnough, Decided
  <2>6. Undisturbed(r)'
    <3> SUFFICES ASSUME r \notin overlapped' PROVE Undisturbed(r)'
      BY DEF Undisturbed
    <3>1. \A q \in InFlight : OrderOf(q) # OrderAt(x)
      BY <1>1 DEF Arrive, OnOrder
    <3>2. \A q \in InFlight' : q # r => q \in InFlight /\ OrderOf(q)' = OrderOf(q)
      BY <1>4 DEF Quiet, Untouched, InFlight, OrderOf, OrderAt
    <3>3. o \in UnitOps => seenStatus'[r] = unitStatus'[x]
      BY <1>1, <1>t DEF OrdersTypeOK, orderRows
    <3>4. ~Decided(r)'
      BY <1>2 DEF Decided
    <3> QED BY <1>2, <2>3, <3>1, <3>2, <3>3, <3>4 DEF Undisturbed
  <2> QED BY <2>1, <2>4, <2>5, <2>6 DEF RequestInv
<1> QED BY <1>3, <1>4, <1>5, <1>6, QuietStep

\* A request takes a free lock of a row it is about.
LEMMA LockStep ==
    ASSUME OrdersInv, NEW r \in Requests, Insert(r) \/ FlushUnit(r) \/ FlushOrder(r)
    PROVE  OrdersInv'
<1>t. OrdersTypeOK /\ RequestInv(r)
  BY DEF OrdersInv
<1>0. pc[r] \in {"insert", "flush_unit", "flush_order"} /\ r \in InFlight
  BY DEF Insert, FlushUnit, FlushOrder, InFlight
<1>1. PICK x \in Units \cup Orders :
        /\ x = about[r] \/ x = OrderOf(r)
        /\ lock[x] = Nobody
        /\ lock' = [lock EXCEPT ![x] = r]
        /\ \/ pc[r] = "insert" /\ pc'[r] = "read_order" /\ x = about[r] /\ unitStatus[x] = "absent"
           \/ pc[r] = "flush_unit" /\ x = about[r]
              /\ pc'[r] = (IF op[r] \in Counters THEN "flush_order" ELSE "commit")
           \/ pc[r] = "flush_order" /\ pc'[r] = "commit" /\ x = OrderOf(r)
        /\ pc' = [pc EXCEPT ![r] = pc'[r]]
        /\ UNCHANGED <<orderRows, sessionAsked, sessionSeen, overlapped, settled>>
  <2>1. about[r] \in Units \cup Orders /\ OrderOf(r) \in Units \cup Orders
    BY <1>t, <1>0, OrderOfMade DEF RequestInv, Asked
  <2>2. CASE Insert(r)
    BY <1>t, <2>1, <2>2 DEF Insert, OrdersTypeOK
  <2>3. CASE FlushUnit(r)
    BY <1>t, <2>1, <2>3 DEF FlushUnit, OrdersTypeOK
  <2>4. CASE FlushOrder(r)
    BY <1>t, <2>1, <2>4 DEF FlushOrder, OrdersTypeOK
  <2> QED BY <2>2, <2>3, <2>4
<1>2. pc'[r] \in {"read_order", "flush_order", "commit"} /\ r \in InFlight' /\ OrderOf(r)' = OrderOf(r)
      /\ op'[r] = op[r] /\ about'[r] = about[r] /\ seenStatus'[r] = seenStatus[r] /\ seenCount'[r] = seenCount[r]
  BY <1>1 DEF InFlight, OrderOf, OrderAt, sessionAsked, sessionSeen
<1>3. OrdersTypeOK'
  <2>1. pc' \in [Requests -> Stages]
    BY <1>1, <1>2, <1>t DEF OrdersTypeOK, Stages
  <2>2. lock' \in [Units \cup Orders -> Requests \cup {Nobody}]
    BY <1>1, <1>t DEF OrdersTypeOK
  <2> QED BY <1>1, <1>t, <2>1, <2>2 DEF OrdersTypeOK, orderRows, sessionAsked, sessionSeen
<1>4. Quiet(r)
  <2>1. \A q \in Requests \ {r} : Untouched(q)
    BY <1>1, <1>t, RequestAssumption DEF Untouched, OrdersTypeOK, sessionAsked, sessionSeen
  <2> QED BY <1>0, <1>1, <1>2, <2>1 DEF Quiet
<1>5. \A y \in Units \cup Orders : LockHeld(y)'
  <2> SUFFICES ASSUME NEW y \in Units \cup Orders PROVE LockHeld(y)'
    OBVIOUS
  <2>1. CASE y = x
    BY <1>1, <1>2, <1>t, <2>1 DEF LockHeld, OrdersTypeOK
  <2>2. CASE y # x
    <3>1. lock'[y] = lock[y] /\ LockHeld(y)
      BY <1>1, <1>t, <2>2 DEF OrdersTypeOK, OrdersInv
    <3>2. \A q \in InFlight : q \in InFlight' /\ about'[q] = about[q] /\ OrderOf(q)' = OrderOf(q)
      BY <1>2, <1>4 DEF Quiet, Untouched, InFlight, OrderOf, OrderAt
    <3> QED BY <3>1, <3>2 DEF LockHeld
  <2> QED BY <2>1, <2>2
<1>6. RequestInv(r)'
  <2>0. /\ OrderOf(r) \in Orders
        /\ about[r] \in Units \/ OrderOf(r) = about[r]
        /\ unitStatus' = unitStatus /\ orderStatus' = orderStatus /\ count' = count
    BY <1>0, <1>1, <1>t, OrderOfMade DEF RequestInv, orderRows, InFlight
  <2>1. Asked(r)'
    BY <1>0, <1>2, <1>t DEF Asked, RequestInv
  <2>2. about[r] \in Units => about[r] # OrderOf(r)
    BY <2>0, RequestAssumption
  <2>3. op[r] \in UnitOps \cup {"create"} => about[r] \in Units
    BY <1>0, <1>t DEF RequestInv, Asked, UnitOps, Counters
  <2>4. lock'[x] = r /\ \A y \in Units \cup Orders : y # x => lock'[y] = lock[y]
    BY <1>1, <1>t DEF OrdersTypeOK
  <2>5. Prepared(r)'
    <3>1. pc'[r] \in {"flush_order", "commit"} => Decided(r)
      BY <1>1 DEF Decided
    <3>2. Decided(r)' /\ op[r] \in UnitOps => Admits(op[r], seenStatus[r])
      BY <1>2, <1>t, <3>1 DEF RequestInv, Prepared, Decided
    <3>3. pc'[r] \in {"flush_order", "commit"} /\ op[r] \in Counters => lock'[about[r]] = r
      BY <1>1, <1>t, <2>0, <2>2, <2>3, <2>4 DEF RequestInv, Prepared, UnitOps
    <3>4. pc'[r] = "commit" /\ op[r] \in Counters => lock'[OrderOf(r)] = r
      BY <1>1, <2>4
    <3>5. op[r] = "create" /\ lock'[about[r]] = r => unitStatus[about[r]] = "absent"
      BY <1>0, <1>1, <1>t, <2>2, <2>3, <2>4 DEF RequestInv, Prepared, UnitOps, Counters
    <3> QED BY <1>2, <2>0, <3>2, <3>3, <3>4, <3>5 DEF Prepared
  <2>6. SameSettled
    BY <1>4, SettledStay
  <2>7. SawEnough(r)'
    <3> SUFFICES ASSUME Decided(r)', NEW c \in Counters PROVE InBounds(OrderOf(r), c, seenCount[r][c])'
      BY DEF SawEnough
    <3>1. Decided(r)
      BY <1>1, <1>2 DEF Decided
    <3> QED BY <1>2, <1>t, <2>0, <2>6, <3>1 DEF RequestInv, SawEnough, InBounds, SameSettled
  <2>8. Undisturbed(r)'
    <3> SUFFICES ASSUME r \notin overlapped' PROVE Undisturbed(r)'
      BY DEF Undisturbed
    <3>0. r \in InFlight \ overlapped
      BY <1>0, <1>1
    <3>1. \A q \in InFlight' : OrderOf(q)' = OrderOf(r) => q = r
      BY <1>4, <1>t, <3>0 DEF Quiet, Untouched, InFlight, OrderOf, OrderAt, RequestInv, Undisturbed
    <3>2. op[r] \in UnitOps => seenStatus[r] = unitStatus[about[r]]
      BY <1>t, <3>0 DEF RequestInv, Undisturbed
    <3>3. Decided(r)' => seenCount[r] = count[OrderOf(r)]
      BY <1>1, <1>2, <1>t, <3>0 DEF RequestInv, Undisturbed, Decided
    <3>4. op[r] = "create" /\ (pc'[r] = "flush_order" \/ lock'[OrderOf(r)] = r) => orderStatus[OrderOf(r)] = "released"
      <4>1. op[r] = "create" => pc[r] # "flush_unit" /\ pc'[r] # "flush_order"
        BY <1>1, <1>t DEF RequestInv, Prepared, UnitOps, Counters
      <4>2. op[r] = "create" /\ pc[r] = "insert" => lock'[OrderOf(r)] = lock[OrderOf(r)]
        BY <1>1, <2>0, <2>2, <2>3, <2>4
      <4> QED BY <1>1, <1>t, <3>0, <4>1, <4>2 DEF RequestInv, Undisturbed
    <3> QED BY <1>2, <2>0, <3>1, <3>2, <3>3, <3>4 DEF Undisturbed
  <2> QED BY <2>1, <2>5, <2>7, <2>8 DEF RequestInv
<1> QED BY <1>3, <1>4, <1>5, <1>6, QuietStep

\* A session ends without a commit.
LEMMA EndStep ==
    ASSUME OrdersInv, NEW r \in InFlight, EndSession(r),
           UNCHANGED <<orderRows, sessionAsked, overlapped, settled>>
    PROVE  OrdersInv'
<1>t. OrdersTypeOK /\ RequestInv(r) /\ r \in Requests /\ pc[r] \notin {"idle", "done"}
  BY DEF OrdersInv, InFlight
<1>1. pc'[r] = "done" /\ r \notin InFlight' /\ op'[r] = op[r] /\ about'[r] = about[r]
  BY <1>t DEF OrdersTypeOK, EndSession, InFlight, sessionAsked
<1>2. \A y \in Units \cup Orders : lock'[y] = IF lock[y] = r THEN Nobody ELSE lock[y]
  BY <1>t DEF OrdersTypeOK, EndSession
<1>3. OrdersTypeOK'
  <2>1. Zero \in [Counters -> Nat]
    BY DEF Zero
  <2>2. lock' \in [Units \cup Orders -> Requests \cup {Nobody}]
    BY <1>t DEF OrdersTypeOK, EndSession
  <2>3. pc' \in [Requests -> Stages] /\ seenStatus' \in [Requests -> UnitStatuses]
        /\ seenCount' \in [Requests -> [Counters -> Nat]]
    BY <1>t, <2>1 DEF OrdersTypeOK, EndSession, Stages, UnitStatuses
  <2> QED BY <1>t, <2>2, <2>3 DEF OrdersTypeOK, orderRows, sessionAsked
<1>4. Quiet(r)
  <2>1. \A q \in Requests \ {r} : Untouched(q)
    BY <1>t, <1>2, RequestAssumption DEF Untouched, EndSession, OrdersTypeOK, sessionAsked
  <2> QED BY <1>t, <1>1, <2>1 DEF Quiet, InFlight
<1>5. \A y \in Units \cup Orders : LockHeld(y)'
  <2> SUFFICES ASSUME NEW y \in Units \cup Orders, lock'[y] # Nobody PROVE LockHeld(y)'
    BY DEF LockHeld
  <2>1. lock'[y] = lock[y] /\ lock[y] # r /\ LockHeld(y)
    BY <1>2 DEF OrdersInv
  <2>2. \A q \in InFlight \ {r} : q \in InFlight' /\ about'[q] = about[q] /\ OrderOf(q)' = OrderOf(q)
    BY <1>4 DEF Quiet, Untouched, InFlight, OrderOf, OrderAt
  <2> QED BY <2>1, <2>2 DEF LockHeld
<1>6. RequestInv(r)'
  <2>1. Asked(r)'
    BY <1>1, <1>t DEF RequestInv, Asked
  <2> QED BY <1>1, <2>1 DEF RequestInv, Prepared, Decided, SawEnough, Undisturbed
<1> QED BY <1>t, <1>3, <1>4, <1>5, <1>6, QuietStep

\* A request that passes its checks has read the counters of its order.
LEMMA ReadStep ==
    ASSUME OrdersInv, NEW r \in Requests, ReadOrder(r), Checked(r) # "done"
    PROVE  OrdersInv'
<1>t. OrdersTypeOK /\ RequestInv(r) /\ CountersExplained
  BY DEF OrdersInv
<1>0. pc[r] = "read_order" /\ r \in InFlight
  BY DEF ReadOrder, InFlight
<1>r. /\ pc' = [pc EXCEPT ![r] = Checked(r)]
      /\ seenCount' = [seenCount EXCEPT ![r] = count[OrderOf(r)]]
      /\ lock' = lock /\ seenStatus' = seenStatus
      /\ UNCHANGED <<orderRows, sessionAsked, overlapped, settled>>
  <2>1. CASE Checked(r) = "done" /\ EndSession(r)
    BY <2>1
  <2> QED BY <2>1 DEF ReadOrder
<1>1. /\ OrderOf(r) \in Orders
      /\ op[r] \in UnitOps \cup {"create", "close"}
      /\ op[r] \in UnitOps \cup {"create"} => about[r] \in Units
  BY <1>0, <1>t, OrderOfMade DEF RequestInv, Asked, UnitOps, Counters
<1>2. /\ Checked(r) \in {"flush_unit", "flush_order", "commit"}
      /\ Checked(r) = "flush_unit" => op[r] \in UnitOps
      /\ op[r] \in UnitOps => Admits(op[r], seenStatus[r])
      /\ op[r] \in Counters => Checked(r) = "flush_unit"
      /\ op[r] = "create" /\ Checked(r) = "flush_order" => orderStatus[OrderOf(r)] = "released"
  <2>1. CASE op[r] = "create"
    <3>1. orderStatus[OrderOf(r)] \in {"released", "in_progress", "closed"}
      BY <1>1, <1>t DEF OrdersTypeOK, OrderStatuses
    <3> QED BY <2>1, <3>1 DEF Checked, UnitOps, Counters
  <2>2. CASE op[r] = "close"
    BY <2>2 DEF Checked, UnitOps, Counters
  <2>3. CASE op[r] \in UnitOps
    <3>1. Checked(r) = IF ~Admits(op[r], seenStatus[r]) THEN "done"
                       ELSE IF seenStatus[r] = op[r] THEN "commit" ELSE "flush_unit"
      BY <2>3 DEF Checked, UnitOps, Counters
    <3>2. op[r] \in Counters /\ Admits(op[r], seenStatus[r]) => seenStatus[r] # op[r]
      BY DEF Admits, Counters
    <3> QED BY <2>3, <3>1, <3>2 DEF UnitOps, Counters
  <2> QED BY <1>1, <2>1, <2>2, <2>3
<1>3. /\ pc'[r] = Checked(r) /\ r \in InFlight' /\ op'[r] = op[r] /\ about'[r] = about[r]
      /\ seenStatus'[r] = seenStatus[r] /\ OrderOf(r)' = OrderOf(r)
      /\ seenCount'[r] = count[OrderOf(r)]
      /\ unitStatus' = unitStatus /\ orderStatus' = orderStatus /\ count' = count
  BY <1>r, <1>2, <1>t DEF OrdersTypeOK, InFlight, OrderOf, OrderAt, sessionAsked, orderRows
<1>4. OrdersTypeOK'
  <2>1. pc' \in [Requests -> Stages]
    BY <1>r, <1>2, <1>t DEF OrdersTypeOK, Stages
  <2>2. seenCount' \in [Requests -> [Counters -> Nat]]
    BY <1>r, <1>1, <1>t DEF OrdersTypeOK
  <2> QED BY <1>r, <1>t, <2>1, <2>2 DEF OrdersTypeOK, orderRows, sessionAsked
<1>5. Quiet(r)
  <2>1. \A q \in Requests \ {r} : Untouched(q)
    BY <1>r, <1>t DEF Untouched, OrdersTypeOK, sessionAsked
  <2> QED BY <1>r, <1>0, <1>2, <1>3, <2>1 DEF Quiet, InFlight
<1>6. \A y \in Units \cup Orders : LockHeld(y)'
  <2>1. \A q \in InFlight : q \in InFlight' /\ about'[q] = about[q] /\ OrderOf(q)' = OrderOf(q)
    BY <1>3, <1>5 DEF Quiet, Untouched, InFlight, OrderOf, OrderAt
  <2> QED BY <1>r, <2>1 DEF LockHeld, OrdersInv
<1>7. RequestInv(r)'
  <2>1. Asked(r)'
    BY <1>0, <1>3, <1>t DEF Asked, RequestInv
  <2>2. Prepared(r)'
    <3>1. op[r] \in Counters => pc'[r] \notin {"flush_order", "commit"}
      BY <1>2, <1>3
    <3>2. op[r] = "create" /\ lock[about[r]] = r => unitStatus[about[r]] = "absent"
      BY <1>0, <1>t DEF RequestInv, Prepared
    <3> QED BY <1>r, <1>2, <1>3, <3>1, <3>2 DEF Prepared
  <2>3. SameSettled
    BY <1>5, SettledStay
  <2>4. SawEnough(r)'
    <3> SUFFICES ASSUME NEW c \in Counters PROVE InBounds(OrderOf(r), c, seenCount[r][c])'
      BY DEF SawEnough
    <3>1. InBounds(OrderOf(r), c, count[OrderOf(r)][c])
      BY <1>1, <1>t DEF CountersExplained, InBounds
    <3> QED BY <1>1, <1>3, <2>3, <3>1 DEF InBounds, SameSettled
  <2>5. Undisturbed(r)'
    <3> SUFFICES ASSUME r \notin overlapped' PROVE Undisturbed(r)'
      BY DEF Undisturbed
    <3>0. r \in InFlight \ overlapped
      BY <1>0, <1>r
    <3>1. \A q \in InFlight' : OrderOf(q)' = OrderOf(r) => q = r
      BY <1>t, <1>5, <3>0 DEF Quiet, Untouched, InFlight, OrderOf, OrderAt, RequestInv, Undisturbed
    <3>2. /\ op[r] \in UnitOps => seenStatus[r] = unitStatus[about[r]]
          /\ op[r] = "create" /\ lock[OrderOf(r)] = r => orderStatus[OrderOf(r)] = "released"
      BY <1>t, <3>0 DEF RequestInv, Undisturbed
    <3> QED BY <1>r, <1>2, <1>3, <3>1, <3>2 DEF Undisturbed
  <2> QED BY <2>1, <2>2, <2>4, <2>5 DEF RequestInv
<1> QED BY <1>4, <1>5, <1>6, <1>7, QuietStep

\* A commit writes the rows its request has locked.
LEMMA OrderCommitStep == ASSUME OrdersInv, NEW r \in Requests, Commit(r) PROVE OrdersInv'
<1>t. OrdersTypeOK /\ RequestInv(r) /\ CountersExplained
  BY DEF OrdersInv
<1>0. /\ pc[r] = "commit" /\ r \in InFlight /\ Decided(r) /\ r \notin settled
      /\ OrderOf(r) \in Orders
      /\ op[r] \in UnitOps \cup {"create", "close"}
      /\ op[r] \in UnitOps \cup {"create"} => about[r] \in Units /\ Home[about[r]] = OrderOf(r)
      /\ op[r] = "close" => about[r] \in Orders
  BY <1>t, OrderOfMade DEF Commit, RequestInv, Asked, UnitOps, Counters, InFlight, Decided, OrdersInv
<1>1. /\ \A u \in Units : lock[u] = r => u = about[r] /\ Home[u] = OrderOf(r)
      /\ \A o \in Orders : lock[o] = r => o = OrderOf(r)
  <2>1. \A x \in Units \cup Orders : lock[x] = r => x = about[r] \/ x = OrderOf(r)
    BY RequestAssumption DEF OrdersInv, LockHeld
  <2> QED BY <1>0, <2>1, RequestAssumption DEF OrderOf, OrderAt
<1>2. \A q \in InFlight : q # r /\ OrderOf(q) = OrderOf(r) => q \in overlapped /\ r \in overlapped
  BY <1>0 DEF OrdersInv, RequestInv, Undisturbed, InFlight
<1>3. /\ \A u \in Units : unitStatus'[u] = IF lock[u] = r THEN Target(op[r]) ELSE unitStatus[u]
      /\ \A o \in Orders : o # OrderOf(r) => orderStatus'[o] = orderStatus[o] /\ count'[o] = count[o]
      /\ \A o \in Orders, c \in Counters :
            count'[o][c] = IF o = OrderOf(r) /\ op[r] = c THEN seenCount[r][c] + 1 ELSE count[o][c]
  <2>1. \A o \in Orders : count'[o] = IF lock[o] = r /\ op[r] \in Counters
                                      THEN [count[o] EXCEPT ![op[r]] = seenCount[r][op[r]] + 1]
                                      ELSE count[o]
    BY DEF Commit
  <2>2. op[r] \in Counters => lock[OrderOf(r)] = r
    BY <1>0, <1>t DEF RequestInv, Prepared
  <2>3. ASSUME NEW o \in Orders, NEW c \in Counters
        PROVE  count'[o][c] = IF o = OrderOf(r) /\ op[r] = c THEN seenCount[r][c] + 1 ELSE count[o][c]
    <3>1. count[o] \in [Counters -> Nat]
      BY <1>t DEF OrdersTypeOK
    <3>2. CASE lock[o] = r /\ op[r] \in Counters
      BY <1>1, <2>1, <3>1, <3>2
    <3>3. CASE ~(lock[o] = r /\ op[r] \in Counters)
      BY <2>1, <2>2, <3>3
    <3> QED BY <3>2, <3>3
  <2> QED BY <1>1, <2>1, <2>3 DEF Commit
<1>4. /\ op' = op /\ about' = about /\ overlapped' = overlapped
      /\ \A q \in Requests : OrderOf(q)' = OrderOf(q)
      /\ pc'[r] = "done" /\ \A q \in Requests \ {r} : Untouched(q)
      /\ settled' = IF op[r] \in Counters THEN settled \cup {r} ELSE settled
      /\ \A y \in Units \cup Orders : lock'[y] = IF lock[y] = r THEN Nobody ELSE lock[y]
  <2>1. op' = op /\ about' = about /\ overlapped' = overlapped
    BY DEF Commit, sessionAsked
  <2>2. \A y \in Units \cup Orders : lock'[y] = IF lock[y] = r THEN Nobody ELSE lock[y]
    BY <1>t DEF Commit, EndSession, OrdersTypeOK
  <2>3. pc'[r] = "done" /\ \A q \in Requests \ {r} : Untouched(q)
    BY <1>t, <2>1, <2>2, RequestAssumption DEF Commit, EndSession, OrdersTypeOK, Untouched
  <2> QED BY <2>1, <2>2, <2>3 DEF Commit, OrderOf, OrderAt
<1>5. OrdersTypeOK'
  <2>1. unitStatus' \in [Units -> UnitStatuses]
    <3>1. \A u \in Units : lock[u] = r => Target(op[r]) \in UnitStatuses
      BY <1>0, <1>1, RequestAssumption DEF Target, UnitStatuses, UnitOps, Counters
    <3> QED BY <1>t, <3>1 DEF Commit, OrdersTypeOK
  <2>2. orderStatus' \in [Orders -> OrderStatuses]
    BY <1>t DEF Commit, OrdersTypeOK, OrderStatuses
  <2>3. count' \in [Orders -> [Counters -> Nat]]
    <3>1. \A o \in Orders : count[o] \in [Counters -> Nat]
      BY <1>t DEF OrdersTypeOK
    <3>2. op[r] \in Counters => seenCount[r][op[r]] + 1 \in Nat
      BY <1>t DEF OrdersTypeOK
    <3>3. \A o \in Orders : op[r] \in Counters =>
             [count[o] EXCEPT ![op[r]] = seenCount[r][op[r]] + 1] \in [Counters -> Nat]
      BY <3>1, <3>2
    <3> QED BY <3>1, <3>3 DEF Commit
  <2>4. lock' \in [Units \cup Orders -> Requests \cup {Nobody}]
    BY <1>t DEF OrdersTypeOK, Commit, EndSession
  <2>5. Zero \in [Counters -> Nat]
    BY DEF Zero
  <2>6. pc' \in [Requests -> Stages] /\ seenStatus' \in [Requests -> UnitStatuses]
        /\ seenCount' \in [Requests -> [Counters -> Nat]]
    BY <1>t, <2>5 DEF OrdersTypeOK, Commit, EndSession, Stages, UnitStatuses
  <2> QED BY <1>t, <1>4, <2>1, <2>2, <2>3, <2>4, <2>6 DEF OrdersTypeOK
<1>6. ASSUME NEW o \in Orders, NEW c \in Counters
      PROVE  /\ Cardinality(Settling(o, c, settled)') =
                  Cardinality(Settling(o, c, settled)) + (IF o = OrderOf(r) /\ op[r] = c THEN 1 ELSE 0)
             /\ Cardinality(Settling(o, c, settled \ overlapped)') =
                  Cardinality(Settling(o, c, settled \ overlapped))
                     + (IF o = OrderOf(r) /\ op[r] = c /\ r \notin overlapped THEN 1 ELSE 0)
             /\ Cardinality(Settling(o, c, settled)) \in Nat
             /\ Cardinality(Settling(o, c, settled \ overlapped)) \in Nat
  <2>1. settled \subseteq Requests
    BY <1>t DEF OrdersTypeOK
  <2>2. \A R \in SUBSET Requests : IsFiniteSet(Settling(o, c, R))
    <3> TAKE R \in SUBSET Requests
    <3>1. Settling(o, c, R) \in SUBSET Requests
      BY DEF Settling
    <3> QED BY <3>1, FS_Subset, RequestAssumption
  <2>3. /\ Settling(o, c, settled)' =
             IF o = OrderOf(r) /\ op[r] = c THEN Settling(o, c, settled) \cup {r} ELSE Settling(o, c, settled)
        /\ Settling(o, c, settled \ overlapped)' =
             IF o = OrderOf(r) /\ op[r] = c /\ r \notin overlapped
             THEN Settling(o, c, settled \ overlapped) \cup {r} ELSE Settling(o, c, settled \ overlapped)
    BY <1>4, <2>1 DEF Settling
  <2>4. r \notin Settling(o, c, settled) /\ r \notin Settling(o, c, settled \ overlapped)
    BY <1>0 DEF Settling
  <2>5. IsFiniteSet(Settling(o, c, settled)) /\ IsFiniteSet(Settling(o, c, settled \ overlapped))
    BY <2>1, <2>2
  <2>6. /\ Cardinality(Settling(o, c, settled) \cup {r}) = Cardinality(Settling(o, c, settled)) + 1
        /\ Cardinality(Settling(o, c, settled \ overlapped) \cup {r})
             = Cardinality(Settling(o, c, settled \ overlapped)) + 1
    BY <2>4, <2>5, FS_AddElement
  <2>7. Cardinality(Settling(o, c, settled)) \in Nat /\ Cardinality(Settling(o, c, settled \ overlapped)) \in Nat
    BY <2>5, FS_CardinalityType
  <2> QED BY <2>3, <2>6, <2>7
<1>7. ASSUME NEW o \in Orders, NEW c \in Counters, Alone(o)
      PROVE  count'[o][c] = Cardinality({u \in Units : Home[u] = o /\ unitStatus'[u] = c})
  <2> DEFINE Done == {u \in Units : Home[u] = o /\ unitStatus[u] = c}
             DoneNext == {u \in Units : Home[u] = o /\ unitStatus'[u] = c}
  <2>1. count[o][c] = Cardinality(Done)
    BY <1>7, <1>t DEF CountersExplained
  <2>2. CASE o # OrderOf(r)
    <3>1. DoneNext = Done
      BY <1>1, <1>3, <2>2
    <3> QED BY <1>3, <2>1, <2>2, <3>1
  <2>3. CASE o = OrderOf(r)
    <3>1. r \in InFlight \ overlapped
      BY <1>0, <1>7, <2>3 DEF Alone
    <3>2. /\ op[r] \in UnitOps => seenStatus[r] = unitStatus[about[r]] /\ Admits(op[r], seenStatus[r])
          /\ seenCount[r] = count[o]
          /\ op[r] = "create" /\ lock[about[r]] = r => unitStatus[about[r]] = "absent"
      BY <1>0, <1>t, <2>3, <3>1 DEF RequestInv, Undisturbed, Prepared
    <3>3. op[r] \in UnitOps => unitStatus[about[r]] \notin Counters
      BY <3>2 DEF Admits, UnitOps, Counters
    <3>4. CASE op[r] = c
      <4>1. about[r] \in Units /\ Home[about[r]] = o /\ lock[about[r]] = r
        BY <1>0, <1>t, <2>3, <3>4 DEF RequestInv, Prepared, UnitOps
      <4>2. DoneNext = Done \cup {about[r]}
        BY <1>1, <1>3, <3>4, <4>1 DEF Target, Counters
      <4>3. about[r] \notin Done
        BY <3>3, <3>4 DEF UnitOps
      <4>4. IsFiniteSet(Done)
        <5>1. Done \in SUBSET Units
          OBVIOUS
        <5> QED BY <5>1, FS_Subset, RequestAssumption
      <4>5. Cardinality(DoneNext) = Cardinality(Done) + 1
        BY <4>2, <4>3, <4>4, FS_AddElement
      <4>6. count'[o][c] = count[o][c] + 1
        BY <1>3, <2>3, <3>2, <3>4
      <4> QED BY <2>1, <4>5, <4>6
    <3>5. CASE op[r] # c
      <4>1. ASSUME NEW u \in Units, lock[u] = r
            PROVE  unitStatus[u] \notin Counters /\ Target(op[r]) # c
        <5>1. u = about[r] /\ op[r] # "close"
          BY <1>0, <1>1, <4>1, RequestAssumption
        <5>2. unitStatus[u] \notin Counters
          BY <1>0, <3>2, <3>3, <4>1, <5>1 DEF Counters
        <5> QED BY <3>5, <5>2 DEF Target, Counters
      <4>2. DoneNext = Done
        BY <1>3, <4>1
      <4> QED BY <1>3, <2>1, <3>5, <4>2
    <3> QED BY <3>4, <3>5
  <2> QED BY <2>2, <2>3
<1>8. CountersExplained'
  <2>1. ASSUME NEW o \in Orders, NEW c \in Counters
        PROVE  /\ Cardinality(Settling(o, c, settled \ overlapped)') <= count'[o][c]
               /\ count'[o][c] <= Cardinality(Settling(o, c, settled)')
    <3>1. InBounds(o, c, count[o][c]) /\ count[o][c] \in Nat
      BY <1>t DEF CountersExplained, InBounds, OrdersTypeOK
    <3>2. CASE o = OrderOf(r) /\ op[r] = c
      <4>1. InBounds(o, c, seenCount[r][c]) /\ seenCount[r][c] \in Nat
        BY <1>0, <1>t, <3>2 DEF RequestInv, SawEnough, OrdersTypeOK
      <4> QED BY <1>3, <1>6, <3>2, <4>1 DEF InBounds
    <3>3. CASE ~(o = OrderOf(r) /\ op[r] = c)
      BY <1>3, <1>6, <3>1, <3>3 DEF InBounds
    <3> QED BY <3>2, <3>3
  <2>2. \A o \in Orders : Alone(o)' => Alone(o)
    BY <1>4, <1>t DEF Alone, OrdersTypeOK
  <2> QED BY <1>7, <2>1, <2>2 DEF CountersExplained
<1>9. ASSUME NEW q \in Requests, q # r
       PROVE  RequestInv(q)'
  <2>t. RequestInv(q)
    BY DEF OrdersInv
  <2>0. /\ Untouched(q) /\ OrderOf(q)' = OrderOf(q) /\ (q \in InFlight' <=> q \in InFlight)
        /\ (Decided(q)' <=> Decided(q)) /\ (Decided(q) => q \in InFlight)
    BY <1>4, <1>9 DEF Untouched, InFlight, Decided
  <2>1. q \in InFlight => /\ OrderOf(q) \in Orders
                          /\ about[q] \in Units \cup Orders
                          /\ op[q] \in UnitOps \cup {"create"} => about[q] \in Units /\ Home[about[q]] = OrderOf(q)
    BY <2>t, OrderOfMade DEF RequestInv, Asked, InFlight, UnitOps, Counters
  <2>2. Asked(q)'
    BY <2>0, <2>t DEF RequestInv, Asked, Untouched
  <2>3. Prepared(q)'
    <3>1. q \in InFlight => /\ (lock'[about[q]] = q) <=> (lock[about[q]] = q)
                            /\ (lock'[OrderOf(q)] = q) <=> (lock[OrderOf(q)] = q)
      BY <2>0, <2>1 DEF Untouched
    <3>2. pc[q] \in {"flush_order", "commit"} => q \in InFlight
      BY DEF InFlight
    <3>3. q \in InFlight /\ op[q] = "create" /\ lock[about[q]] = q => unitStatus'[about[q]] = unitStatus[about[q]]
      BY <1>3, <1>9, <2>1
    <3> QED BY <2>0, <2>t, <3>1, <3>2, <3>3 DEF RequestInv, Prepared, Untouched
  <2>4. SawEnough(q)'
    <3> SUFFICES ASSUME Decided(q), NEW c \in Counters PROVE InBounds(OrderOf(q), c, seenCount[q][c])'
      BY <2>0 DEF SawEnough
    <3>1. InBounds(OrderOf(q), c, seenCount[q][c]) /\ seenCount[q][c] \in Nat
      BY <2>t, <1>t DEF RequestInv, SawEnough, OrdersTypeOK
    <3>2. OrderOf(q) = OrderOf(r) => r \in overlapped
      BY <1>2, <1>9, <2>0
    <3>3. PICK o \in Orders : o = OrderOf(q) /\ o = OrderOf(q)'
      BY <2>0, <2>1
    <3>4. /\ Cardinality(Settling(o, c, settled \ overlapped)') <= seenCount[q][c]
          /\ seenCount[q][c] <= Cardinality(Settling(o, c, settled)')
      BY <1>6, <3>1, <3>2, <3>3 DEF InBounds
    <3> QED BY <2>0, <3>3, <3>4 DEF InBounds, Untouched, Settling
  <2>5. Undisturbed(q)'
    <3> SUFFICES ASSUME q \in InFlight \ overlapped PROVE Undisturbed(q)'
      BY <1>4, <2>0 DEF Undisturbed
    <3>1. OrderOf(q) # OrderOf(r)
      BY <1>2, <1>9
    <3>2. \A p \in InFlight' : OrderOf(p)' = OrderOf(q) => p = q
      <4>1. \A p \in InFlight' : p \in InFlight /\ OrderOf(p)' = OrderOf(p)
        BY <1>4 DEF InFlight, Untouched
      <4> QED BY <2>t, <4>1 DEF RequestInv, Undisturbed
    <3>3. op[q] \in UnitOps => unitStatus'[about[q]] = unitStatus[about[q]]
      BY <1>1, <1>3, <2>1, <3>1
    <3>4. count'[OrderOf(q)] = count[OrderOf(q)] /\ orderStatus'[OrderOf(q)] = orderStatus[OrderOf(q)]
          /\ (lock'[OrderOf(q)] = q <=> lock[OrderOf(q)] = q)
      BY <1>3, <2>0, <2>1, <3>1 DEF Untouched
    <3> QED BY <2>0, <2>t, <3>2, <3>3, <3>4 DEF RequestInv, Undisturbed, Untouched
  <2> QED BY <2>2, <2>3, <2>4, <2>5 DEF RequestInv
<1>10. RequestInv(r)'
  <2>1. Asked(r)'
    BY <1>0, <1>4 DEF Asked
  <2>2. r \notin InFlight'
    BY <1>4 DEF InFlight
  <2> QED BY <1>4, <2>1, <2>2 DEF RequestInv, Prepared, Decided, SawEnough, Undisturbed
<1>11. \A y \in Units \cup Orders : LockHeld(y)'
  <2> SUFFICES ASSUME NEW y \in Units \cup Orders, lock'[y] # Nobody PROVE LockHeld(y)'
    BY DEF LockHeld
  <2>1. lock'[y] = lock[y] /\ lock[y] # r /\ LockHeld(y)
    BY <1>4 DEF OrdersInv
  <2>2. \A q \in InFlight \ {r} : q \in InFlight' /\ about'[q] = about[q] /\ OrderOf(q)' = OrderOf(q)
    BY <1>4 DEF Untouched, InFlight
  <2> QED BY <2>1, <2>2 DEF LockHeld
<1>12. \A q \in settled' : pc'[q] = "done"
  BY <1>4, <1>t DEF OrdersInv, Untouched, OrdersTypeOK
<1>13. \A q \in overlapped' : pc'[q] # "idle"
  BY <1>4, <1>t DEF OrdersInv, Untouched, OrdersTypeOK
<1> QED BY <1>5, <1>8, <1>9, <1>10, <1>11, <1>12, <1>13 DEF OrdersInv

\* Every step keeps the invariant.
LEMMA OrdersStep == OrdersInv /\ [OrdersNext]_orderVars => OrdersInv'
<1> SUFFICES ASSUME OrdersInv, [OrdersNext]_orderVars PROVE OrdersInv'
  OBVIOUS
<1>1. ASSUME NEW r \in Requests, Ask(r) \/ Proceed(r) \/ Rollback(r)
      PROVE  OrdersInv'
  <2>1. CASE Ask(r)
    BY <2>1, AskStep
  <2>2. CASE Insert(r) \/ FlushUnit(r) \/ FlushOrder(r)
    BY <2>2, LockStep
  <2>3. CASE ReadOrder(r)
    <3>1. CASE Checked(r) = "done"
      <4>1. r \in InFlight /\ EndSession(r) /\ UNCHANGED <<orderRows, sessionAsked, overlapped, settled>>
        BY <2>3, <3>1 DEF ReadOrder, InFlight
      <4> QED BY <4>1, EndStep
    <3>2. CASE Checked(r) # "done"
      BY <2>3, <3>2, ReadStep
    <3> QED BY <3>1, <3>2
  <2>4. CASE Commit(r)
    BY <2>4, OrderCommitStep
  <2>5. CASE DuplicateSerial(r) \/ Rollback(r)
    BY <2>5, EndStep DEF DuplicateSerial, Rollback
  <2> QED BY <1>1, <2>1, <2>2, <2>3, <2>4, <2>5 DEF Proceed
<1>2. CASE UNCHANGED orderVars
  <2>1. OrdersTypeOK' /\ SameSettled /\ UNCHANGED orderRows /\ \A o \in Orders : Alone(o)' => Alone(o)
    BY <1>2 DEF orderVars, OrdersInv, OrdersTypeOK, SameSettled, Settling, OrderOf, OrderAt, orderRows, Alone
  <2>2. ASSUME NEW q \in Requests
        PROVE  RequestInv(q)'
    <3>1. Untouched(q)
      BY <1>2 DEF orderVars, Untouched
    <3>2. StillAlone(q)
      BY <1>2 DEF orderVars, StillAlone, InFlight, OrderOf, OrderAt, OrdersInv, RequestInv, Undisturbed
    <3> QED BY <2>1, <3>1, <3>2, UntouchedKept DEF OrdersInv
  <2>3. \A x \in Units \cup Orders : LockHeld(x)'
    BY <1>2 DEF orderVars, OrdersInv, LockHeld, InFlight, OrderOf, OrderAt
  <2>4. CountersExplained'
    BY <2>1, ExplainedKept DEF OrdersInv
  <2> QED BY <1>2, <2>1, <2>2, <2>3, <2>4 DEF OrdersInv, orderVars
<1> QED BY <1>1, <1>2 DEF OrdersNext

\* The invariant of the requests, for any number of them.
THEOREM OrdersInvariance == OrdersSpec => []OrdersInv
BY OrdersBegin, OrdersStep, PTL DEF OrdersSpec

\* CountersExplained: what one request settles alone stays counted, and an order whose requests
\* come one after the other counts its units.
THEOREM SettledUnitsAreCounted == OrdersSpec => []CountersExplained
<1>1. OrdersInv => CountersExplained
  BY DEF OrdersInv
<1> QED BY <1>1, OrdersInvariance, PTL

\* TransitionsWhenAlone: as long as no two requests meet on an order, its status changes only as
\* ORDER_TRANSITIONS allows.
THEOREM OrdersFollowTransitions == OrdersSpec => TransitionsWhenAlone
<1> DEFINE Moves == \A o \in Orders : orderStatus'[o] # orderStatus[o] /\ Alone(o)
                                       => <<orderStatus[o], orderStatus'[o]>> \in OrderMoves
<1>1. OrdersInv /\ [OrdersNext]_orderVars => Moves
  <2> SUFFICES ASSUME OrdersInv, [OrdersNext]_orderVars, NEW o \in Orders,
                      orderStatus'[o] # orderStatus[o], Alone(o)
               PROVE  <<orderStatus[o], orderStatus'[o]>> \in OrderMoves
    OBVIOUS
  <2>1. PICK r \in Requests : Commit(r)
    <3>1. orderStatus' # orderStatus
      OBVIOUS
    <3> QED BY <3>1 DEF OrdersNext, Ask, ReadUnit, CheckSerial, AskToClose, Proceed, Insert, DuplicateSerial,
                        ReadOrder, FlushUnit, FlushOrder, Rollback, orderRows, orderVars
  <2>2. lock[o] = r /\ op[r] \in {"create", "close"}
        /\ orderStatus'[o] = (IF op[r] = "create" THEN "in_progress" ELSE "closed")
    BY <2>1 DEF Commit
  <2>3. orderStatus[o] \in OrderStatuses /\ r \in InFlight /\ RequestInv(r)
    BY <2>1 DEF OrdersInv, OrdersTypeOK, Commit, InFlight
  <2>4. o = OrderOf(r)
    <3>1. o = about[r] \/ o = OrderOf(r)
      BY <2>2, RequestAssumption DEF OrdersInv, LockHeld
    <3> QED BY <3>1 DEF OrderOf, OrderAt
  <2>5. op[r] = "create" => orderStatus[o] = "released"
    BY <2>2, <2>3, <2>4 DEF Alone, RequestInv, Undisturbed
  <2> QED BY <2>2, <2>3, <2>5 DEF OrderMoves, OrderStatuses
<1>2. OrdersInv /\ [OrdersNext]_orderVars => [Moves]_orderVars
  BY <1>1
<1> QED BY <1>2, OrdersInvariance, PTL DEF OrdersSpec, TransitionsWhenAlone
=============================================================================
