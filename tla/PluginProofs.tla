---------------------------- MODULE PluginProofs ----------------------------
(***************************************************************************)
(* What the plugins of a server guarantee, for every value of the          *)
(* constants: the counts and the states taken from machines, the files of  *)
(* test equipment, the bridge process and the plugins' own rows.           *)
(*                                                                         *)
(* Each part has an inductive invariant, the lemmas that its steps keep    *)
(* it, and the theorem it is for.                                          *)
(***************************************************************************)
EXTENDS OpcuaCounts, StateReports, FileDrop, Bridge, Plugins, FiniteSetTheorems, TLAPS

(***************************************************************************)
(* The counts read from OPC UA.                                            *)
(***************************************************************************)

\* What a kind may be counted beyond what the machine made.
Allowance(k) == IF first \in {"none", k} THEN 0 ELSE atStart[k]

\* The increments and the last-known count have used up no more than the machine made,
\* after whatever resets.
Within(k) ==
    /\ counted[k] <= made[k] + Allowance(k)
    /\ link # "stopped" => tag[k] <= atStart[k] + made[k]
    /\ last # Forgotten => counted[k] + tag[k] <= made[k] + Allowance(k) + last[k]

\* What is forgotten, and what the handler holds.
Linked ==
    /\ link \in {"stopped", "connecting"} => last = Forgotten
    /\ link # "stopped" /\ last = Forgotten => counted = Zero /\ first = "none"
    /\ link = "polling" => first = "none"
    /\ link = "subscribed" => /\ last = Forgotten => handler = Zero
                              /\ last # Forgotten => last = handler /\ first # "none"

OpcuaInv == OpcuaTypeOK /\ Linked /\ \A k \in Kinds : Within(k)

\* Nothing was counted yet.
LEMMA OpcuaBegins == OpcuaInit => OpcuaInv
BY OpcuaCountsAssumption
   DEF OpcuaInit, OpcuaInv, OpcuaTypeOK, Linked, Within, Allowance, Kinds, Counts, Zero, Forgotten

\* What a pair of readings adds: nothing after a reset or a first reading, and never more
\* than what the machine made between them.
LEMMA NewIncrease ==
    ASSUME last \in Counts \cup {Forgotten}, NEW seen \in Counts, NEW k \in Kinds
    PROVE  /\ Increase(seen, k) \in Nat
           /\ last = Forgotten => Increase(seen, k) = 0
           /\ last # Forgotten /\ seen[k] <= last[k] => Increase(seen, k) = 0
           /\ last # Forgotten /\ seen[k] > last[k] => Increase(seen, k) = seen[k] - last[k]
BY OpcuaCountsAssumption DEF Increase, Counts, Forgotten, Kinds

\* A reading, a reset, a lost connection or a restart keeps every kind within its allowance.
LEMMA OpcuaSteps == OpcuaInv /\ [OpcuaNext]_opcuaVars => OpcuaInv'
<1> SUFFICES ASSUME OpcuaInv, [OpcuaNext]_opcuaVars PROVE OpcuaInv'
  OBVIOUS
<1> USE OpcuaCountsAssumption DEF OpcuaInv, OpcuaTypeOK, Counts, Kinds
<1>1. CASE UNCHANGED opcuaVars
  BY <1>1 DEF opcuaVars, Linked, Within, Allowance
<1>2. CASE StartCounting
  BY <1>2 DEF StartCounting, Linked, Within, Allowance, Zero, Forgotten
<1>3. CASE Subscribe
  BY <1>3 DEF Subscribe, Linked, Within, Allowance, Zero, Forgotten
<1>4. CASE FallBack
  BY <1>4 DEF FallBack, Linked, Within, Allowance, Zero, Forgotten
<1>5. CASE StopCounting
  BY <1>5 DEF StopCounting, Linked, Within, Allowance, Zero, Forgotten
<1>6. CASE PollTags /\ Bounded
  <2>1. \A k \in Kinds :
           /\ Increase(tag, k) \in Nat
           /\ last = Forgotten => Increase(tag, k) = 0
           /\ last # Forgotten /\ tag[k] <= last[k] => Increase(tag, k) = 0
           /\ last # Forgotten /\ tag[k] > last[k] => Increase(tag, k) = tag[k] - last[k]
    BY NewIncrease
  <2>2. first = "none" /\ first' = "none" /\ last' = tag /\ link' = "polling" /\ last' # Forgotten
    BY <1>6 DEF PollTags, ProcessValues, Linked, Forgotten
  <2>3. counted' = [k \in Kinds |-> counted[k] + Increase(tag, k)]
    BY <1>6 DEF PollTags, ProcessValues
  <2>4. OpcuaTypeOK'
    <3>1. \A k \in Kinds : counted'[k] \in 0..MaxMachine
      BY <1>6, <2>1, <2>3 DEF Bounded
    <3>2. UNCHANGED <<tag, due, handler, made, atStart, first>>
      BY <1>6 DEF PollTags
    <3> QED BY <2>2, <2>3, <3>1, <3>2
  <2>5. ASSUME NEW k \in Kinds PROVE Within(k)'
    <3>1. counted'[k] = counted[k] + Increase(tag, k) /\ last'[k] = tag[k] /\ tag[k] \in Nat
      BY <2>2, <2>3
    <3>2. UNCHANGED <<tag, made, atStart>> /\ Allowance(k) = 0 /\ Allowance(k)' = 0
      BY <1>6, <2>2 DEF PollTags, Allowance
    <3>3. CASE last = Forgotten
      <4>1. counted[k] = 0 /\ Increase(tag, k) = 0
        BY <1>6, <3>3, <2>1 DEF PollTags, Linked, Zero
      <4> QED BY <1>6, <3>1, <3>2, <4>1 DEF Within, PollTags
    <3>4. CASE last # Forgotten /\ tag[k] <= last[k]
      <4>1. Increase(tag, k) = 0
        BY <3>4, <2>1
      <4> QED BY <1>6, <3>1, <3>2, <4>1 DEF Within, PollTags
    <3>5. CASE last # Forgotten /\ tag[k] > last[k]
      <4>1. Increase(tag, k) = tag[k] - last[k]
        BY <3>5, <2>1
      <4>2. last[k] \in Nat /\ counted[k] \in Nat /\ made[k] \in Nat /\ atStart[k] \in Nat
        BY <3>5
      <4>3. counted[k] + tag[k] <= made[k] + last[k] /\ tag[k] <= atStart[k] + made[k]
        BY <1>6, <3>2, <3>5 DEF Within, PollTags
      <4>4. counted'[k] <= made[k]
        BY <3>1, <4>1, <4>2, <4>3
      <4> QED BY <3>1, <3>2, <4>1, <4>2, <4>3, <4>4 DEF Within
    <3>6. tag[k] <= last[k] \/ tag[k] > last[k] \/ last = Forgotten
      BY <3>1
    <3> QED BY <3>3, <3>4, <3>5, <3>6
  <2> QED BY <2>2, <2>4, <2>5 DEF Linked
<1>7. ASSUME NEW j \in Kinds, Notify(j), Bounded PROVE OpcuaInv'
  <2> DEFINE seen == [handler EXCEPT ![j] = tag[j]]
  <2>0. seen \in Counts
    OBVIOUS
  <2>1. \A k \in Kinds :
           /\ Increase(seen, k) \in Nat
           /\ last = Forgotten => Increase(seen, k) = 0
           /\ last # Forgotten /\ seen[k] <= last[k] => Increase(seen, k) = 0
           /\ last # Forgotten /\ seen[k] > last[k] => Increase(seen, k) = seen[k] - last[k]
    BY <2>0, NewIncrease
  <2>2. /\ last' = seen /\ handler' = seen /\ link' = "subscribed" /\ link = "subscribed"
        /\ first' = IF first = "none" THEN j ELSE first
        /\ UNCHANGED <<tag, made, atStart>> /\ due' = due \ {j}
    BY <1>7 DEF Notify, ProcessValues
  <2>3. \A k \in Kinds : counted'[k] = counted[k] + Increase(seen, k)
    BY <1>7 DEF Notify, ProcessValues
  <2>3a. counted' = [k \in Kinds |-> counted[k] + Increase(seen, k)]
    BY <1>7 DEF Notify, ProcessValues
  <2>4. OpcuaTypeOK'
    BY <1>7, <2>0, <2>1, <2>2, <2>3a DEF Bounded
  <2>5. last' # Forgotten /\ first' # "none"
    BY <2>0, <2>2 DEF Forgotten
  <2>6. ASSUME NEW k \in Kinds PROVE Within(k)'
    <3>1. CASE last = Forgotten
      <4>1. counted[k] = 0 /\ Increase(seen, k) = 0 /\ first = "none"
        BY <3>1, <2>1, <2>2 DEF Linked, Zero
      <4>2. counted'[k] = 0 /\ first' = j /\ tag[k] <= atStart[k] + made[k]
        BY <4>1, <2>2, <2>3 DEF Within
      <4>3. tag[k] \in Nat /\ made[k] \in Nat /\ atStart[k] \in Nat
        OBVIOUS
      <4>4. CASE k = j
        <5>1. last'[k] = tag[k] /\ Allowance(k)' = 0
          BY <4>2, <4>4, <2>2 DEF Allowance
        <5> QED BY <4>2, <4>3, <5>1, <2>2 DEF Within
      <4>5. CASE k # j
        <5>1. last'[k] = 0 /\ Allowance(k)' = atStart[k]
          BY <3>1, <4>2, <4>5, <2>2 DEF Allowance, Linked, Zero
        <5> QED BY <4>2, <4>3, <5>1, <2>2 DEF Within
      <4> QED BY <4>4, <4>5
    <3>2. CASE last # Forgotten /\ k = j
      BY <3>2, <2>1, <2>2, <2>3 DEF Linked, Within, Allowance
    <3>3. CASE last # Forgotten /\ k # j
      <4>1. last = handler /\ seen[k] = handler[k] /\ first # "none"
        BY <3>3, <2>2 DEF Linked
      <4>2. Increase(seen, k) = 0
        BY <3>3, <4>1, <2>1
      <4>3. counted'[k] = counted[k] /\ last'[k] = last[k] /\ Allowance(k)' = Allowance(k)
        BY <4>1, <4>2, <2>2, <2>3 DEF Allowance
      <4>4. last[k] \in Nat /\ counted[k] \in Nat /\ made[k] \in Nat /\ tag[k] \in Nat /\ Allowance(k) \in Nat
        BY <3>3 DEF Allowance
      <4>5. counted[k] + tag[k] <= made[k] + Allowance(k) + last[k] /\ counted[k] <= made[k] + Allowance(k)
            /\ tag[k] <= atStart[k] + made[k]
        BY <3>3, <2>2 DEF Within
      <4> QED BY <2>2, <4>3, <4>4, <4>5 DEF Within
    <3> QED BY <3>1, <3>2, <3>3
  <2> QED BY <2>2, <2>4, <2>5, <2>6 DEF Linked
<1>8. ASSUME NEW j \in Kinds, Produce(j), Bounded PROVE OpcuaInv'
  <2>1. OpcuaTypeOK'
    <3>1. /\ tag' = [tag EXCEPT ![j] = @ + 1] /\ tag[j] < MaxMachine
          /\ made' = IF link = "stopped" THEN made ELSE [made EXCEPT ![j] = @ + 1]
          /\ due' = IF link = "subscribed" THEN due \cup {j} ELSE due
          /\ UNCHANGED <<link, handler, last, counted, atStart, first>>
      BY <1>8 DEF Produce
    <3>2. tag' \in Counts
      BY <3>1, OpcuaCountsAssumption DEF Counts
    <3>3. made' \in Counts
      <4>1. made[j] \in 0..MaxMachine /\ made[j] + 1 \in Nat
        OBVIOUS
      <4>2. CASE link # "stopped"
        <5>1. made'[j] = made[j] + 1
          BY <3>1, <4>2
        <5>2. made'[j] <= MaxMachine
          BY <1>8 DEF Bounded
        <5> QED BY <3>1, <4>1, <4>2, <5>1, <5>2
      <4> QED BY <3>1, <4>2
    <3>4. due' \subseteq Kinds
      BY <3>1
    <3> QED BY <3>1, <3>2, <3>3, <3>4
  <2>2. ASSUME NEW k \in Kinds PROVE Within(k)'
    <3>1. /\ last' = last /\ counted' = counted /\ atStart' = atStart /\ first' = first /\ link' = link
          /\ tag'[k] = IF k = j THEN tag[k] + 1 ELSE tag[k]
          /\ made'[k] = IF link # "stopped" /\ k = j THEN made[k] + 1 ELSE made[k]
      BY <1>8 DEF Produce
    <3>2. tag[k] \in Nat /\ made[k] \in Nat /\ counted[k] \in Nat /\ atStart[k] \in Nat /\ Allowance(k) \in Nat
          /\ Allowance(k)' = Allowance(k)
      BY <3>1 DEF Allowance
    <3>3. last # Forgotten => last[k] \in Nat
      OBVIOUS
    <3>4. link = "stopped" => last = Forgotten
      BY DEF Linked
    <3>5. Within(k)
      OBVIOUS
    <3> QED BY <3>1, <3>2, <3>3, <3>4, <3>5 DEF Within
  <2> QED BY <1>8, <2>1, <2>2 DEF Produce, Linked
<1>9. ASSUME NEW j \in Kinds, ResetTag(j) PROVE OpcuaInv'
  <2>1. OpcuaTypeOK'
    BY <1>9 DEF ResetTag
  <2>2. ASSUME NEW k \in Kinds PROVE Within(k)'
    BY <1>9 DEF ResetTag, Linked, Within, Allowance, Forgotten
  <2> QED BY <1>9, <2>1, <2>2 DEF ResetTag, Linked
<1> QED BY <1>1, <1>2, <1>3, <1>4, <1>5, <1>6, <1>7, <1>8, <1>9 DEF OpcuaNext

\* The kind the machine notifies first after a start, and both kinds when the tags are polled,
\* are never overcounted; the other by no more than the machine showed at the start: in whatever
\* order resets, lost connections, restarts of the plugin and notifications come.
THEOREM OvercountsHaveCauses == OpcuaSpec => []OvercountExplained
<1>1. OpcuaInv => OvercountExplained
  BY DEF OpcuaInv, OvercountExplained, Within, Allowance
<1> QED BY <1>1, OpcuaBegins, OpcuaSteps, PTL DEF OpcuaSpec
-----------------------------------------------------------------------------
(***************************************************************************)
(* The states of a machine and the log of its equipment.  What is          *)
(* remembered is not what is recorded while a callback is on its way, and  *)
(* not after one that failed.  The invariant says what the two have to do  *)
(* with each other as long as no cause is on record; and, for the moment a *)
(* callback takes the cause off the record, what is known of a callback    *)
(* that is alone, whatever the cause.                                      *)
(***************************************************************************)

\* A callback that was never disturbed is the only one; it carries the last value
\* delivered, and once it has been remembered, the last one remembered.
Solitary ==
    \A q \in Flying : call[q].alone =>
        /\ Flying = {q}
        /\ plugin # "down" => heard \in {NoReport, call[q].state}
        /\ call[q].at # "id" => lastState = call[q].state

\* With no cause on record every callback is undisturbed.
Undisturbed == why = "none" => \A q \in Flying : call[q].alone

\* Before a callback has been remembered, what is remembered is what is recorded.
BeforeRead ==
    why = "none" =>
        \A q \in Flying : call[q].at = "id" => lastState \in {NoReport, logged}

\* Without callbacks what was delivered was remembered and recorded.
AtRest ==
    why = "none" /\ Flying = {} =>
        \/ protocol # "opcua" /\ plugin = "down"
        \/ /\ lastState \in {NoReport, logged}
           /\ plugin # "down" => heard \in {NoReport, lastState}

\* The pollers take their callback with them.
PollersStop == protocol # "opcua" /\ plugin = "down" => Flying = {}

OnlyModbus == why = "noMethod" => protocol = "modbus"

ReportInv ==
    /\ ReportTypeOK /\ Solitary /\ Undisturbed /\ BeforeRead /\ AtRest
    /\ PollersStop /\ OnlyModbus

LEMMA ReportsBegin == ReportInit => ReportInv
BY DEF ReportInit, ReportInv, ReportTypeOK, Solitary, Undisturbed, BeforeRead, AtRest,
       PollersStop, OnlyModbus, Flying, Maybe, Causes

\* What Disturbed does to the callbacks: those in flight are no longer alone.
LEMMA DisturbedOnes ==
    ASSUME ReportTypeOK
    PROVE  /\ Disturbed \in [Calls -> Flights \cup {Resting}]
           /\ \A q \in Flying : Disturbed[q] # Resting /\ Disturbed[q].alone = FALSE
           /\ \A q \in Calls \ Flying : Disturbed[q] = Resting
<1>1. \A f \in Flights : /\ [f EXCEPT !.alone = FALSE] \in Flights
                          /\ [f EXCEPT !.alone = FALSE].alone = FALSE
                          /\ [f EXCEPT !.alone = FALSE] # Resting
  BY DEF Flights, Resting
<1>2. \A q \in Flying : q \in Calls /\ call[q] \in Flights
  BY DEF Flying, ReportTypeOK
<1>3. \A q \in Calls \ Flying : call[q] = Resting
  BY DEF Flying
<1>4. \A q \in Flying : Disturbed[q] = [call[q] EXCEPT !.alone = FALSE]
  BY <1>2 DEF Disturbed
<1>5. \A q \in Calls \ Flying : Disturbed[q] = call[q]
  BY DEF Disturbed
<1>6. \A q \in Calls : Disturbed[q] \in Flights \cup {Resting}
  BY <1>1, <1>2, <1>3, <1>4, <1>5
<1>7. Disturbed = [q \in Calls |-> Disturbed[q]]
  BY DEF Disturbed
<1>8. Disturbed \in [Calls -> Flights \cup {Resting}]
  <2> HIDE DEF Disturbed
  <2> QED
    BY <1>6, <1>7
<1>9. ASSUME NEW q \in Flying PROVE Disturbed[q] # Resting /\ Disturbed[q].alone = FALSE
  <2>1. /\ [call[q] EXCEPT !.alone = FALSE].alone = FALSE
        /\ [call[q] EXCEPT !.alone = FALSE] # Resting
    BY <1>1, <1>2
  <2>2. Disturbed[q] = [call[q] EXCEPT !.alone = FALSE]
    BY <1>4
  <2> QED
    BY <2>1, <2>2, Zenon
<1> QED
  BY <1>3, <1>5, <1>8, <1>9

\* The types are kept by every step.
LEMMA ReportTypeKept == ReportTypeOK /\ [ReportNext]_reportVars => ReportTypeOK'
<1> SUFFICES ASSUME ReportTypeOK, [ReportNext]_reportVars PROVE ReportTypeOK'
  OBVIOUS
<1> USE DEF ReportTypeOK, Maybe, Causes, Flights
<1>a. Disturbed \in [Calls -> Flights \cup {Resting}]
  BY DisturbedOnes
<1>b. CutShort => call' \in [Calls -> Flights \cup {Resting}] /\ logged' \in Maybe
  BY DEF CutShort, Flying
<1>c. ASSUME NEW q \in Calls, NEW w \in Causes, Lost(q, w), UNCHANGED <<protocol, machine, plugin, heard, lastState>>
      PROVE  ReportTypeOK'
  BY <1>c DEF Lost
<1>d. ASSUME NEW q \in Calls, NEW s \in MachineStates, NEW b \in BOOLEAN, Receive(q, s, call, b)
      PROVE  call' \in [Calls -> Flights \cup {Resting}] /\ lastState' \in Maybe
  <2>1. [at |-> "check", state |-> s, alone |-> b] \in Flights
    OBVIOUS
  <2>2. CASE s = lastState
    BY <1>d, <2>2 DEF Receive
  <2>3. CASE s # lastState
    <3>1. call' = [call EXCEPT ![q] = [at |-> "check", state |-> s, alone |-> b]] /\ lastState' = s
      BY <1>d, <2>3 DEF Receive
    <3> HIDE DEF Flights
    <3> QED
      BY <2>1, <3>1
  <2> QED
    BY <2>2, <2>3
<1>1. CASE \E s \in MachineStates : MachineMoves(s) \/ SetByHand(s)
  BY <1>1, <1>a DEF MachineMoves, SetByHand
<1>2. CASE StartPlugin \/ SessionLost
  BY <1>2 DEF StartPlugin, SessionLost
<1>3. CASE StopPlugin
  BY <1>3, <1>b DEF StopPlugin
<1>4. CASE ProcessEnds
  BY <1>4, <1>b DEF ProcessEnds
<1>5. ASSUME NEW q \in Calls, Notified(q) PROVE ReportTypeOK'
  BY <1>5, <1>a DEF Notified
<1>6. ASSUME NEW q \in Calls, ReadId(q) PROVE ReportTypeOK'
  <2>1. call[q] \in Flights /\ call[q].state \in MachineStates /\ call[q].alone \in BOOLEAN
    BY <1>6 DEF ReadId, Flying
  <2> QED
    BY <1>6, <1>d, <2>1 DEF ReadId
<1>7. ASSUME NEW q \in Calls, Polled(q) PROVE ReportTypeOK'
  BY <1>7, <1>d DEF Polled
<1>8. ASSUME NEW q \in Calls, Check(q) PROVE ReportTypeOK'
  <2>1. call[q] \in Flights
    BY <1>8 DEF Check, Flying
  <2>2. [call[q] EXCEPT !.at = "write"] \in Flights
    BY <2>1
  <2>3. CASE call' = [call EXCEPT ![q].at = "write"] /\ UNCHANGED <<logged, why>>
    <3> HIDE DEF Flights
    <3> QED
      BY <1>8, <2>2, <2>3 DEF Check
  <2>4. CASE Lost(q, "noMethod") \/ Lost(q, "refused")
    BY <1>8, <1>c, <2>4 DEF Check
  <2> QED
    BY <1>8, <2>3, <2>4 DEF Check
<1>9. ASSUME NEW q \in Calls, Write(q) PROVE ReportTypeOK'
  <2>1. call[q] \in Flights /\ call[q].state \in MachineStates
    BY <1>9 DEF Write, Flying
  <2> QED
    BY <1>9, <1>c, <2>1 DEF Write
<1>10. CASE UNCHANGED reportVars
  BY <1>10 DEF reportVars
<1> QED
  BY <1>1, <1>2, <1>3, <1>4, <1>5, <1>6, <1>7, <1>8, <1>9, <1>10 DEF ReportNext

\* The rest of the invariant, action by action.
LEMMA ReportInvKept == ReportInv /\ [ReportNext]_reportVars => ReportInv'
<1> SUFFICES ASSUME ReportInv, [ReportNext]_reportVars PROVE ReportInv'
  OBVIOUS
<1>0. ReportTypeOK /\ ReportTypeOK'
  BY ReportTypeKept DEF ReportInv
<1> USE DEF ReportInv, Solitary, Undisturbed, BeforeRead, AtRest, PollersStop, OnlyModbus
<1>1. ASSUME NEW s \in MachineStates, MachineMoves(s) PROVE ReportInv'
  BY <1>0, <1>1 DEF MachineMoves, Flying
<1>2. ASSUME NEW s \in MachineStates, SetByHand(s) PROVE ReportInv'
  <2>1. call' = Disturbed /\ why' = "byHand" /\ UNCHANGED <<protocol, plugin>>
    BY <1>2 DEF SetByHand
  <2>2. Flying' = Flying
    BY <1>0, <2>1, DisturbedOnes DEF Flying
  <2>3. \A q \in Flying' : call'[q].alone = FALSE
    BY <1>0, <2>1, <2>2, DisturbedOnes
  <2>4. Solitary' /\ Undisturbed' /\ BeforeRead' /\ AtRest'
    BY <2>1, <2>3
  <2>5. PollersStop' /\ OnlyModbus'
    BY <2>1, <2>2
  <2> QED
    BY <1>0, <2>4, <2>5
<1>3. CASE StartPlugin
  BY <1>0, <1>3 DEF StartPlugin, Flying, ReportTypeOK
<1>4. CASE StopPlugin
  <2>1. CASE protocol = "opcua"
    BY <1>0, <1>4, <2>1 DEF StopPlugin, Flying, ReportTypeOK
  <2>2. CASE protocol # "opcua"
    <3>1. Flying' = {} /\ UNCHANGED <<protocol, why>> /\ plugin' = "down"
      BY <1>4, <2>2 DEF StopPlugin, CutShort, Flying
    <3> QED
      BY <1>0, <2>2, <3>1
  <2> QED
    BY <2>1, <2>2
<1>5. CASE ProcessEnds
  <2>1. Flying' = {} /\ UNCHANGED <<protocol, why>> /\ plugin' = "down" /\ lastState' = NoReport
    BY <1>5 DEF ProcessEnds, CutShort, Flying
  <2> QED
    BY <1>0, <2>1
<1>6. CASE SessionLost
  BY <1>0, <1>6 DEF SessionLost, Flying
<1>b. \A q \in Flying : q \in Calls /\ call[q] \in Flights
  BY <1>0 DEF Flying, ReportTypeOK
<1>c. \A f \in Flights : f # Resting
  BY DEF Flights, Resting
<1>7. ASSUME NEW q \in Calls, Notified(q) PROVE ReportInv'
  <2> DEFINE new == [at |-> "id", state |-> machine, alone |-> Flying = {}]
  <2>1. /\ protocol = "opcua" /\ heard' = machine /\ q \notin Flying
        /\ call' = [Disturbed EXCEPT ![q] = new]
        /\ UNCHANGED <<protocol, machine, plugin, lastState, logged>>
    BY <1>7 DEF Notified
  <2>2. new \in Flights
    BY <1>0 DEF Flights, ReportTypeOK
  <2>3. Disturbed \in [Calls -> Flights \cup {Resting}]
    BY <1>0, DisturbedOnes
  <2>4. call'[q] = new /\ \A r \in Calls \ {q} : call'[r] = Disturbed[r]
    BY <2>1, <2>3
  <2>5. CASE Flying = {}
    <3>0. new = [at |-> "id", state |-> machine, alone |-> TRUE]
      BY <2>5
    <3>1. \A r \in Calls \ {q} : call'[r] = Resting
      BY <2>4, <2>5 DEF Disturbed, Flying
    <3>2. Flying' = {q} /\ call'[q].at = "id" /\ call'[q].state = machine /\ UNCHANGED why
      BY <1>7, <1>c, <2>2, <2>4, <2>5, <3>1 DEF Flying, Notified
    <3>3. call'[q].alone = TRUE
      BY <2>4, <3>0
    <3> HIDE DEF new
    <3> QED
      BY <1>0, <2>1, <2>5, <3>2, <3>3
  <2>6. CASE Flying # {}
    <3>1. why' = "overlapped"
      BY <1>7, <2>6 DEF Notified
    <3>2. \A r \in Flying : call'[r].alone = FALSE
      BY <1>0, <1>b, <2>1, <2>4, DisturbedOnes
    <3>3. Flying' \subseteq Flying \cup {q}
      BY <1>0, <2>4, DisturbedOnes DEF Flying
    <3>4. call'[q].alone = FALSE
      <4>1. new = [at |-> "id", state |-> machine, alone |-> FALSE]
        BY <2>6
      <4> HIDE DEF new
      <4> QED
        BY <2>4, <4>1
    <3> QED
      BY <1>0, <2>1, <3>1, <3>2, <3>3, <3>4
  <2> QED
    BY <2>5, <2>6
<1>d. ASSUME NEW q \in Flying, call' = [call EXCEPT ![q] = Resting]
      PROVE  Flying' = Flying \ {q} /\ \A r \in Flying' : call'[r] = call[r]
  BY <1>0, <1>d DEF Flying, ReportTypeOK
<1>8. ASSUME NEW q \in Calls, ReadId(q) PROVE ReportInv'
  <2> DEFINE s == call[q].state
  <2>1. q \in Flying /\ call[q].at = "id" /\ UNCHANGED <<protocol, machine, plugin, heard, logged>>
    BY <1>8 DEF ReadId
  <2>2. CASE why' = "unread" /\ call' = [call EXCEPT ![q] = Resting] /\ UNCHANGED lastState
    BY <1>0, <1>d, <2>1, <2>2
  <2>3. CASE Receive(q, s, call, call[q].alone) /\ UNCHANGED why
    <3>1. CASE s = lastState
      <4>1. call' = [call EXCEPT ![q] = Resting] /\ UNCHANGED lastState
        BY <2>3, <3>1 DEF Receive
      <4> QED
        BY <1>0, <1>d, <2>1, <2>3, <3>1, <4>1
    <3>2. CASE s # lastState
      <4> DEFINE new == [at |-> "check", state |-> s, alone |-> call[q].alone]
      <4>1. call' = [call EXCEPT ![q] = new] /\ lastState' = s
        BY <2>3, <3>2 DEF Receive
      <4>2. new \in Flights
        BY <1>b, <2>1 DEF Flights
      <4>3. Flying' = Flying /\ call'[q] = new /\ \A r \in Flying \ {q} : call'[r] = call[r]
        BY <1>0, <1>c, <2>1, <4>1, <4>2 DEF Flying, ReportTypeOK
      <4> QED
        BY <1>0, <2>1, <2>3, <4>1, <4>3
    <3> QED
      BY <3>1, <3>2
  <2> QED
    BY <1>8, <2>2, <2>3 DEF ReadId
<1>9. ASSUME NEW q \in Calls, Polled(q) PROVE ReportInv'
  <2>1. /\ protocol # "opcua" /\ plugin = "up" /\ Flying = {} /\ heard' = machine
        /\ Receive(q, machine, call, TRUE)
        /\ UNCHANGED <<protocol, machine, plugin, logged, why>>
    BY <1>9 DEF Polled
  <2>2. \A r \in Calls : call[r] = Resting
    BY <2>1 DEF Flying
  <2>3. CASE machine = lastState
    <3>1. call' = [call EXCEPT ![q] = Resting] /\ UNCHANGED lastState
      BY <2>1, <2>3 DEF Receive
    <3>2. Flying' = {}
      BY <1>0, <2>2, <3>1 DEF Flying, ReportTypeOK
    <3> QED
      BY <1>0, <2>1, <2>3, <3>1, <3>2
  <2>4. CASE machine # lastState
    <3> DEFINE new == [at |-> "check", state |-> machine, alone |-> TRUE]
    <3>1. call' = [call EXCEPT ![q] = new] /\ lastState' = machine
      BY <2>1, <2>4 DEF Receive
    <3>2. new \in Flights
      BY <1>0 DEF Flights, ReportTypeOK
    <3>3. Flying' = {q} /\ call'[q] = new
      BY <1>0, <1>c, <2>2, <3>1, <3>2 DEF Flying, ReportTypeOK
    <3> QED
      BY <1>0, <2>1, <3>1, <3>3
  <2> QED
    BY <2>3, <2>4
<1>10. ASSUME NEW q \in Calls, Check(q) PROVE ReportInv'
  <2>1. q \in Flying /\ call[q].at = "check" /\ UNCHANGED <<protocol, machine, plugin, heard, lastState>>
    BY <1>10 DEF Check
  <2>2. CASE \/ protocol = "modbus" /\ Lost(q, "noMethod")
             \/ protocol # "modbus" /\ Lost(q, "refused")
    <3>1. call' = [call EXCEPT ![q] = Resting] /\ UNCHANGED logged
      BY <2>2 DEF Lost
    <3>2. why' # "none" /\ (why' = "noMethod" => protocol = "modbus")
      BY <2>2 DEF Lost
    <3> QED
      BY <1>0, <1>d, <2>1, <3>1, <3>2
  <2>3. CASE call' = [call EXCEPT ![q].at = "write"] /\ UNCHANGED <<logged, why>>
    <3> DEFINE new == [call[q] EXCEPT !.at = "write"]
    <3>1. /\ new \in Flights
          /\ new.at = "write" /\ new.state = call[q].state /\ new.alone = call[q].alone
      BY <1>b, <2>1 DEF Flights
    <3>2. Flying' = Flying /\ call'[q] = new /\ \A r \in Flying \ {q} : call'[r] = call[r]
      BY <1>0, <1>c, <2>1, <2>3, <3>1 DEF Flying, ReportTypeOK
    <3> QED
      BY <1>0, <2>1, <2>3, <3>1, <3>2
  <2> QED
    BY <1>10, <2>2, <2>3 DEF Check
<1>11. ASSUME NEW q \in Calls, Write(q) PROVE ReportInv'
  <2>1. q \in Flying /\ call[q].at = "write" /\ UNCHANGED <<protocol, machine, plugin, heard, lastState>>
    BY <1>11 DEF Write
  <2>2. call' = [call EXCEPT ![q] = Resting]
    BY <1>11 DEF Write, Lost
  <2>3. CASE why' = "refused" /\ UNCHANGED logged
    BY <1>0, <1>d, <2>1, <2>2, <2>3
  <2>4. CASE logged' = call[q].state /\ why' = IF call[q].alone THEN "none" ELSE why
    BY <1>0, <1>d, <2>1, <2>2, <2>4
  <2> QED
    BY <1>11, <2>3, <2>4 DEF Write, Lost
<1>12. CASE UNCHANGED reportVars
  BY <1>0, <1>12 DEF reportVars, Flying
<1> QED
  BY <1>1, <1>2, <1>3, <1>4, <1>5, <1>6, <1>7, <1>8, <1>9, <1>10, <1>11, <1>12 DEF ReportNext

\* The invariant holds in every reachable state.
THEOREM ReportInvariant == ReportSpec => []ReportInv
BY ReportsBegin, ReportInvKept, PTL DEF ReportSpec

\* What is remembered, recorded and under way always has its type.
THEOREM ReportsTyped == ReportSpec => []ReportTypeOK
<1>1. ReportInv => ReportTypeOK
  BY DEF ReportInv
<1> QED
  BY <1>1, ReportInvariant, PTL

\* Once the reports of a machine have settled the log shows its state, or one of the
\* causes is on record; restarts and lost sessions are none.
THEOREM FollowsMachine == ReportSpec => []LogFollowsMachine
<1>1. ReportInv => LogFollowsMachine
  <2> SUFFICES ASSUME ReportInv, Settled, why \in {"none", "noMethod"} PROVE
               logged = machine \/ (protocol = "modbus" /\ why = "noMethod")
    BY DEF LogFollowsMachine
  <2>1. CASE why = "noMethod"
    BY <2>1 DEF ReportInv, OnlyModbus
  <2>2. CASE why = "none"
    <3>1. machine # NoReport
      BY StateReportsAssumption DEF ReportInv, ReportTypeOK
    <3> QED
      BY <2>2, <3>1 DEF ReportInv, AtRest, Settled
  <2> QED
    BY <2>1, <2>2
<1> QED
  BY <1>1, ReportInvariant, PTL
-----------------------------------------------------------------------------
(***************************************************************************)
(* The files of test equipment.                                            *)
(***************************************************************************)

\* Nothing happened to the file that would let its result be written again.
Unharmed(f) == mishaps[f] \cap {"cutShort", "notMoved", "shared"} = {}

\* A poller has a file in hand from reading it to moving it.
InHandWell(p) ==
    /\ poller[p].at \in {"writing", "moving"} <=> poller[p].file # NoFile
    /\ poller[p].success => poller[p].at = "moving" /\ results[poller[p].file] > 0

\* While nothing happened to a file, one poller has it, it is where it was dropped, and its
\* result is written once, by that poller.
OneHand(f) ==
    Unharmed(f) =>
        /\ \A p, q \in Pollers : poller[p].file = f /\ poller[q].file = f => p = q
        /\ \A p \in Pollers : poller[p].file = f =>
              /\ place[f] = "watched"
              /\ poller[p].at = "writing" => results[f] = 0
              /\ poller[p].at = "moving" /\ results[f] > 0 /\ mishaps[f] = {} => poller[p].success
        /\ place[f] = "watched" /\ results[f] > 0 => \E p \in Pollers : poller[p].file = f

FileExplained(f) ==
    /\ place[f] = "successful" => results[f] > 0
    /\ results[f] > 1 => ~Unharmed(f)
    /\ place[f] = "failed" /\ results[f] > 0 => mishaps[f] # {}
    /\ place[f] = "none" => results[f] = 0 /\ \A p \in Pollers : poller[p].file # f /\ f \notin poller[p].list

DropInv ==
    /\ DropTypeOK
    /\ \A p \in Pollers : InHandWell(p)
    /\ \A f \in ResultFiles : OneHand(f) /\ FileExplained(f)

\* No file is there and no adapter polls.
LEMMA DropBegins == DropInit => DropInv
BY FileDropAssumption
   DEF DropInit, DropInv, DropTypeOK, InHandWell, OneHand, FileExplained, Unharmed, Off, Pollings, Places, Mishaps

\* The fields of a poller.
LEMMA PollingShapes ==
    /\ Off \in Pollings
    /\ \A x \in Pollings :
          /\ x.at \in {"stopped", "sleeping", "listing", "writing", "moving"} /\ x.list \subseteq ResultFiles
          /\ x.file \in ResultFiles \cup {NoFile} /\ x.success \in BOOLEAN
BY DEF Off, Pollings

\* What a step does to a poller, spelled out field by field.
LEMMA PollingSteps ==
    ASSUME NEW x \in Pollings
    PROVE  /\ \A s \in {"sleeping", "listing", "moving"} : LET y == [x EXCEPT !.at = s] IN
                 y \in Pollings /\ y.at = s /\ y.list = x.list /\ y.file = x.file /\ y.success = x.success
           /\ \A l \in SUBSET ResultFiles : LET y == [x EXCEPT !.at = "listing", !.list = l] IN
                 y \in Pollings /\ y.at = "listing" /\ y.list = l /\ y.file = x.file /\ y.success = x.success
           /\ \A f \in ResultFiles : LET y == [x EXCEPT !.list = @ \ {f}] IN
                 y \in Pollings /\ y.at = x.at /\ y.list = x.list \ {f} /\ y.file = x.file /\ y.success = x.success
           /\ \A b \in BOOLEAN : LET y == [x EXCEPT !.at = "moving", !.success = b] IN
                 y \in Pollings /\ y.at = "moving" /\ y.list = x.list /\ y.file = x.file /\ y.success = b
           /\ LET y == [x EXCEPT !.at = "listing", !.file = NoFile, !.success = FALSE] IN
                 y \in Pollings /\ y.at = "listing" /\ y.list = x.list /\ y.file = NoFile /\ y.success = FALSE
BY DEF Pollings

\* A step of one poller leaves the others alone.
LEMMA OnePoller ==
    ASSUME DropTypeOK, NEW p \in Pollers, NEW n \in Pollings, poller' = [poller EXCEPT ![p] = n]
    PROVE  /\ poller' \in [Pollers -> Pollings]
           /\ poller'[p] = n
           /\ \A q \in Pollers \ {p} : poller'[q] = poller[q]
BY DEF DropTypeOK

\* Starting, listing and skipping change what a poller is about to do, and no more.
LEMMA PollerLooks ==
    ASSUME DropInv, NEW p \in Pollers, NEW n \in Pollings, poller' = [poller EXCEPT ![p] = n],
           n.file = poller[p].file, n.success = poller[p].success,
           n.at = poller[p].at \/ (n.at \in {"sleeping", "listing"} /\ poller[p].at \notin {"writing", "moving"}),
           \A f \in n.list : f \in poller[p].list \/ place[f] # "none",
           UNCHANGED <<place, results, mishaps>>
    PROVE  DropInv'
<1>1. /\ poller' \in [Pollers -> Pollings] /\ poller'[p] = n
      /\ \A q \in Pollers \ {p} : poller'[q] = poller[q]
  BY OnePoller DEF DropInv
<1>2. DropTypeOK'
  BY <1>1 DEF DropInv, DropTypeOK
<1>3. \A q \in Pollers : /\ poller'[q].file = poller[q].file /\ poller'[q].success = poller[q].success
                         /\ poller'[q].at = "writing" <=> poller[q].at = "writing"
                         /\ poller'[q].at = "moving" <=> poller[q].at = "moving"
                         /\ \A f \in poller'[q].list : f \in poller[q].list \/ place[f] # "none"
  BY <1>1
<1>4. \A q \in Pollers : InHandWell(q)'
  BY <1>3 DEF DropInv, InHandWell
<1>5. ASSUME NEW f \in ResultFiles PROVE OneHand(f)'
  BY <1>3 DEF DropInv, OneHand, Unharmed
<1>6. ASSUME NEW f \in ResultFiles PROVE FileExplained(f)'
  BY <1>3 DEF DropInv, FileExplained, Unharmed
<1> QED BY <1>2, <1>4, <1>5, <1>6 DEF DropInv

\* A file that a machine writes is new.
LEMMA DropKept == ASSUME DropInv, NEW f \in ResultFiles, Drop(f) PROVE DropInv'
<1>1. /\ place[f] = "none" /\ place' = [place EXCEPT ![f] = "watched"]
      /\ UNCHANGED <<results, poller, mishaps>> /\ results[f] = 0
  BY DEF Drop, DropInv, FileExplained
<1>2. DropTypeOK'
  BY <1>1 DEF DropInv, DropTypeOK, Places
<1>3. \A q \in Pollers : InHandWell(q)'
  BY <1>1 DEF DropInv, InHandWell
<1>4. ASSUME NEW g \in ResultFiles PROVE OneHand(g)' /\ FileExplained(g)'
  <2>1. place \in [ResultFiles -> Places] /\ OneHand(g) /\ FileExplained(g)
    BY DEF DropInv, DropTypeOK
  <2>2. CASE g = f
    BY <1>1, <2>1, <2>2 DEF OneHand, FileExplained, Unharmed
  <2>3. CASE g # f
    BY <1>1, <2>1, <2>3 DEF OneHand, FileExplained, Unharmed
  <2> QED BY <2>2, <2>3
<1> QED BY <1>2, <1>3, <1>4 DEF DropInv

\* A poller that takes a file has it for itself unless another one has it in hand.
LEMMA TakeKept ==
    ASSUME DropInv, NEW p \in Pollers, NEW f \in ResultFiles, NEW s \in {"writing", "moving"},
           poller[p].at = "listing", place[f] = "watched", Take(p, f, s), UNCHANGED <<place, results>>
    PROVE  DropInv'
<1> DEFINE n == [at |-> s, list |-> poller[p].list \ {f}, file |-> f, success |-> FALSE]
<1>0. poller[p] \in Pollings /\ poller[p].list \subseteq ResultFiles
  BY PollingShapes DEF DropInv, DropTypeOK
<1>1. n \in Pollings /\ n.at = s /\ n.file = f /\ n.success = FALSE /\ n.list \subseteq poller[p].list
  BY <1>0 DEF Pollings
<1>2. poller' = [poller EXCEPT ![p] = n]
  BY DEF Take
<1> HIDE DEF n
<1>3. /\ poller' \in [Pollers -> Pollings] /\ poller'[p] = n
      /\ \A q \in Pollers \ {p} : poller'[q] = poller[q]
  BY <1>1, <1>2, OnePoller DEF DropInv
<1>4. poller[p].file = NoFile /\ f # NoFile
  BY FileDropAssumption DEF DropInv, InHandWell
<1>5. /\ mishaps' \in [ResultFiles -> SUBSET Mishaps]
      /\ \A g \in ResultFiles \ {f} : mishaps'[g] = mishaps[g]
      /\ \/ mishaps'[f] = mishaps[f] /\ \A q \in Pollers : poller[q].file # f
         \/ ~Unharmed(f)' /\ mishaps'[f] # {} /\ mishaps[f] \subseteq mishaps'[f]
  <2>1. mishaps \in [ResultFiles -> SUBSET Mishaps]
    BY DEF DropInv, DropTypeOK
  <2>2. CASE \E q \in Pollers \ {p} : poller[q].file = f
    <3>1. mishaps' = [mishaps EXCEPT ![f] = mishaps[f] \cup {"shared"}]
      BY <2>2 DEF Take
    <3> QED BY <2>1, <3>1 DEF Mishaps, Unharmed
  <2>3. CASE \A q \in Pollers \ {p} : poller[q].file # f
    <3>1. mishaps' = mishaps
      BY <2>3 DEF Take
    <3> QED BY <2>1, <2>3, <3>1, <1>4
  <2> QED BY <2>2, <2>3
<1>6. DropTypeOK'
  BY <1>3, <1>5 DEF DropInv, DropTypeOK
<1>7. \A q \in Pollers : InHandWell(q)'
  BY <1>1, <1>3, <1>4 DEF DropInv, InHandWell
<1>8. ASSUME NEW g \in ResultFiles, g # f PROVE OneHand(g)' /\ FileExplained(g)'
  <2>1. \A q \in Pollers : /\ poller'[q].file = g <=> poller[q].file = g
                           /\ poller[q].file = g => poller'[q] = poller[q]
                           /\ poller'[q].list \subseteq poller[q].list
    BY <1>1, <1>3, <1>4, <1>8, FileDropAssumption
  <2>2. mishaps'[g] = mishaps[g] /\ OneHand(g) /\ FileExplained(g)
    BY <1>5, <1>8 DEF DropInv
  <2>3. OneHand(g)'
    BY <2>1, <2>2 DEF OneHand, Unharmed
  <2>4. FileExplained(g)'
    BY <2>1, <2>2 DEF FileExplained, Unharmed
  <2> QED BY <2>3, <2>4
<1>9. FileExplained(f)'
  <2>1. FileExplained(f) /\ (~Unharmed(f) => ~Unharmed(f)')
    BY <1>5 DEF DropInv, Unharmed
  <2> QED BY <2>1, <1>5 DEF FileExplained
<1>10. OneHand(f)'
  <2>1. CASE mishaps'[f] = mishaps[f] /\ \A q \in Pollers : poller[q].file # f
    <3>1. Unharmed(f) => results[f] = 0
      BY <2>1 DEF DropInv, DropTypeOK, OneHand
    <3>2. \A q \in Pollers : poller'[q].file = f => q = p
      BY <2>1, <1>3
    <3> QED BY <1>1, <1>3, <2>1, <3>1, <3>2 DEF OneHand, Unharmed
  <2>2. CASE ~Unharmed(f)'
    BY <2>2 DEF OneHand
  <2> QED BY <1>5, <2>1, <2>2
<1> QED BY <1>6, <1>7, <1>8, <1>9, <1>10 DEF DropInv

\* A result is written by a poller that has the file in hand.
LEMMA ResultKept ==
    ASSUME DropInv, NEW p \in Pollers, WriteResult(p) \/ FailResult(p)
    PROVE  DropInv'
<1>0. PICK f \in ResultFiles : /\ f = poller[p].file /\ f # NoFile
                              /\ poller[p] \in Pollings /\ poller[p].at = "writing" /\ ~poller[p].success
  <2>1. poller[p] \in Pollings /\ poller[p].at = "writing"
    BY DEF WriteResult, FailResult, DropInv, DropTypeOK
  <2> QED BY <2>1, PollingShapes, FileDropAssumption DEF DropInv, InHandWell
<1>1. PICK b \in BOOLEAN, wrote \in BOOLEAN :
         /\ poller' = [poller EXCEPT ![p] = [poller[p] EXCEPT !.at = "moving", !.success = b]]
         /\ UNCHANGED place
         /\ ~wrote => UNCHANGED <<results, mishaps>> /\ b = FALSE
         /\ wrote => /\ results' = [results EXCEPT ![f] = @ + 1] /\ results[f] < MaxResults
                     /\ mishaps' = IF b THEN mishaps ELSE [mishaps EXCEPT ![f] = @ \cup {"unanswered"}]
  <2>1. CASE FailResult(p)
    <3>1. [poller[p] EXCEPT !.at = "moving"] = [poller[p] EXCEPT !.at = "moving", !.success = FALSE]
      BY <1>0 DEF Pollings
    <3>2. poller' = [poller EXCEPT ![p] = [poller[p] EXCEPT !.at = "moving"]] /\ UNCHANGED <<place, results, mishaps>>
      BY <2>1 DEF FailResult
    <3> QED BY <3>1, <3>2
  <2>2. CASE WriteResult(p)
    BY <1>0, <2>2 DEF WriteResult
  <2> QED BY <2>1, <2>2
<1> DEFINE n == [poller[p] EXCEPT !.at = "moving", !.success = b]
<1>2. n \in Pollings /\ n.at = "moving" /\ n.file = f /\ n.success = b /\ n.list = poller[p].list
  BY <1>0, <1>1 DEF Pollings
<1>3. poller' = [poller EXCEPT ![p] = n]
  BY <1>1
<1> HIDE DEF n
<1>4. /\ poller' \in [Pollers -> Pollings] /\ poller'[p] = n
      /\ \A q \in Pollers \ {p} : poller'[q] = poller[q]
  BY <1>2, <1>3, OnePoller DEF DropInv
<1>5. /\ results \in [ResultFiles -> 0..MaxResults] /\ mishaps \in [ResultFiles -> SUBSET Mishaps]
      /\ OneHand(f) /\ FileExplained(f)
  BY <1>0 DEF DropInv, DropTypeOK
<1>6. /\ results' \in [ResultFiles -> 0..MaxResults] /\ mishaps' \in [ResultFiles -> SUBSET Mishaps]
      /\ \A g \in ResultFiles \ {f} : results'[g] = results[g] /\ mishaps'[g] = mishaps[g]
      /\ mishaps[f] \subseteq mishaps'[f] /\ (Unharmed(f)' <=> Unharmed(f))
      /\ results'[f] \in {results[f], results[f] + 1} /\ (b => results'[f] > 0)
      /\ mishaps'[f] = {} => b \/ results'[f] = results[f]
  <2>1. CASE wrote
    BY <1>0, <1>1, <1>5, <2>1, FileDropAssumption DEF Mishaps, Unharmed
  <2>2. CASE ~wrote
    BY <1>0, <1>1, <1>5, <2>2 DEF Unharmed
  <2> QED BY <2>1, <2>2
<1>7. DropTypeOK'
  BY <1>1, <1>4, <1>6 DEF DropInv, DropTypeOK
<1>8. ASSUME NEW q \in Pollers PROVE InHandWell(q)'
  <2>1. CASE q = p
    BY <1>0, <1>2, <1>4, <1>6, <2>1 DEF InHandWell
  <2>2. CASE q # p /\ poller[q].success
    <3>1. poller[q].at = "moving" /\ results[poller[q].file] > 0 /\ poller[q].file # NoFile
      BY <2>2 DEF DropInv, InHandWell
    <3>2. poller[q].file \in ResultFiles
      BY <3>1, PollingShapes DEF DropInv, DropTypeOK
    <3>3. results'[poller[q].file] > 0
      BY <3>1, <3>2, <1>5, <1>6, FileDropAssumption
    <3> QED BY <2>2, <3>1, <3>3, <1>4 DEF DropInv, InHandWell
  <2>3. CASE q # p /\ ~poller[q].success
    BY <2>3, <1>4 DEF DropInv, InHandWell
  <2> QED BY <2>1, <2>2, <2>3
<1>9. ASSUME NEW g \in ResultFiles, g # f PROVE OneHand(g)' /\ FileExplained(g)'
  <2>1. \A q \in Pollers : /\ poller'[q].file = poller[q].file /\ poller'[q].list = poller[q].list
                           /\ poller'[q].file = g => poller'[q] = poller[q]
    BY <1>0, <1>2, <1>4, <1>9
  <2>2. mishaps'[g] = mishaps[g] /\ results'[g] = results[g] /\ OneHand(g) /\ FileExplained(g) /\ place'[g] = place[g]
    BY <1>1, <1>6, <1>9 DEF DropInv
  <2>3. OneHand(g)'
    BY <2>1, <2>2 DEF OneHand, Unharmed
  <2>4. FileExplained(g)'
    BY <2>1, <2>2 DEF FileExplained, Unharmed
  <2> QED BY <2>3, <2>4
<1>10. Unharmed(f) => results[f] = 0 /\ place[f] = "watched"
                         /\ \A q \in Pollers : poller[q].file = f => q = p
  BY <1>0, <1>5 DEF OneHand
<1>11. place[f] # "none" /\ ~(place[f] = "none")'
  BY <1>0, <1>1, <1>5 DEF FileExplained
<1>12. results'[f] \in 0..MaxResults /\ results[f] \in 0..MaxResults /\ place'[f] = place[f]
  BY <1>0, <1>1, <1>5, <1>6
<1>13. FileExplained(f)'
  <2>1. (results[f] > 1)' => ~Unharmed(f)'
    BY <1>5, <1>6, <1>10, <1>12, FileDropAssumption DEF FileExplained
  <2>2. (place[f] = "failed" /\ results[f] > 0)' => mishaps'[f] # {}
    <3>1. mishaps'[f] = {} => Unharmed(f)
      BY <1>6 DEF Unharmed
    <3> QED BY <3>1, <1>10, <1>12
  <2>3. (place[f] = "successful")' => results'[f] > 0
    BY <1>5, <1>6, <1>12, FileDropAssumption DEF FileExplained
  <2> QED BY <2>1, <2>2, <2>3, <1>11 DEF FileExplained
<1>14. OneHand(f)'
  <2> SUFFICES ASSUME Unharmed(f)' PROVE OneHand(f)'
    BY DEF OneHand
  <2>1. \A q \in Pollers : poller'[q].file = f => q = p
    BY <1>4, <1>6, <1>10
  <2>2. (place[f] = "watched")' /\ poller'[p].file = f
    BY <1>2, <1>4, <1>6, <1>10, <1>12
  <2>3. results'[f] > 0 /\ mishaps'[f] = {} => b
    BY <1>6, <1>10, <1>12
  <2> QED BY <2>1, <2>2, <2>3, <1>2, <1>4 DEF OneHand
<1> QED BY <1>0, <1>7, <1>8, <1>9, <1>13, <1>14 DEF DropInv

\* A file moved away is out of every other poller's hands unless they shared it.
LEMMA MoveKept == ASSUME DropInv, NEW p \in Pollers, MoveFile(p) PROVE DropInv'
<1> DEFINE n == [poller[p] EXCEPT !.at = "listing", !.file = NoFile, !.success = FALSE]
<1>0. PICK f \in ResultFiles : /\ f = poller[p].file /\ f # NoFile
                              /\ poller[p] \in Pollings /\ poller[p].at = "moving"
  <2>1. poller[p] \in Pollings /\ poller[p].at = "moving"
    BY DEF MoveFile, DropInv, DropTypeOK
  <2> QED BY <2>1, PollingShapes, FileDropAssumption DEF DropInv, InHandWell
<1>1. /\ poller' = [poller EXCEPT ![p] = n] /\ UNCHANGED results
      /\ \/ /\ place[f] = "watched" /\ place' = [place EXCEPT ![f] = Destination(p)]
            /\ UNCHANGED mishaps
         \/ /\ mishaps' = [mishaps EXCEPT ![f] = @ \cup {"notMoved"}] /\ UNCHANGED place
         \/ place[f] # "watched" /\ UNCHANGED <<place, mishaps>>
  BY <1>0 DEF MoveFile
<1>2. n \in Pollings /\ n.at = "listing" /\ n.file = NoFile /\ ~n.success /\ n.list = poller[p].list
  BY <1>0, PollingSteps
<1> HIDE DEF n
<1>3. /\ poller' \in [Pollers -> Pollings] /\ poller'[p] = n
      /\ \A q \in Pollers \ {p} : poller'[q] = poller[q]
  BY <1>1, <1>2, OnePoller DEF DropInv
<1>4. /\ results \in [ResultFiles -> 0..MaxResults] /\ mishaps \in [ResultFiles -> SUBSET Mishaps]
      /\ place \in [ResultFiles -> Places] /\ OneHand(f) /\ FileExplained(f) /\ InHandWell(p)
  BY <1>0 DEF DropInv, DropTypeOK
<1>5. /\ place' \in [ResultFiles -> Places] /\ mishaps' \in [ResultFiles -> SUBSET Mishaps]
      /\ \A g \in ResultFiles \ {f} : place'[g] = place[g] /\ mishaps'[g] = mishaps[g]
      /\ \/ ~Unharmed(f)' /\ place'[f] = place[f] /\ mishaps'[f] # {}
         \/ /\ mishaps'[f] = mishaps[f]
            /\ place[f] = "watched" => place'[f] = Destination(p)
            /\ place[f] # "watched" => place'[f] = place[f]
  <2>1. Destination(p) \in Places
    BY DEF Destination, Places
  <2>2. CASE place[f] = "watched" /\ place' = [place EXCEPT ![f] = Destination(p)] /\ UNCHANGED mishaps
    BY <1>0, <1>4, <2>1, <2>2
  <2>3. CASE mishaps' = [mishaps EXCEPT ![f] = @ \cup {"notMoved"}] /\ UNCHANGED place
    BY <1>0, <1>4, <2>3 DEF Mishaps, Unharmed
  <2>4. CASE place[f] # "watched" /\ UNCHANGED <<place, mishaps>>
    BY <1>4, <2>4
  <2> QED BY <1>1, <2>2, <2>3, <2>4
<1>6. DropTypeOK'
  BY <1>1, <1>3, <1>5 DEF DropInv, DropTypeOK
<1>7. \A q \in Pollers : InHandWell(q)'
  BY <1>1, <1>2, <1>3 DEF DropInv, InHandWell
<1>8. ASSUME NEW g \in ResultFiles, g # f PROVE OneHand(g)' /\ FileExplained(g)'
  <2>1. \A q \in Pollers : /\ poller'[q].file = g <=> poller[q].file = g
                           /\ poller[q].file = g => poller'[q] = poller[q]
                           /\ poller'[q].list = poller[q].list
    BY <1>0, <1>2, <1>3, <1>8, FileDropAssumption
  <2>2. mishaps'[g] = mishaps[g] /\ results'[g] = results[g] /\ OneHand(g) /\ FileExplained(g) /\ place'[g] = place[g]
    BY <1>1, <1>5, <1>8 DEF DropInv
  <2>3. OneHand(g)'
    BY <2>1, <2>2 DEF OneHand, Unharmed
  <2>4. FileExplained(g)'
    BY <2>1, <2>2 DEF FileExplained, Unharmed
  <2> QED BY <2>3, <2>4
<1>9. Unharmed(f) =>
         /\ \A q \in Pollers : poller[q].file = f => q = p
         /\ place[f] = "watched"
         /\ results[f] > 0 /\ mishaps[f] = {} => poller[p].success
  BY <1>0, <1>4 DEF OneHand
<1>10. place[f] # "none" /\ results'[f] = results[f] /\ (poller[p].success => results[f] > 0)
  BY <1>0, <1>1, <1>4 DEF FileExplained, InHandWell
<1>11. Destination(p) = IF poller[p].success THEN "successful" ELSE "failed"
  BY DEF Destination
<1>12. FileExplained(f)'
  <2>1. CASE ~Unharmed(f)' /\ place'[f] = place[f] /\ mishaps'[f] # {}
    BY <2>1, <1>4, <1>10 DEF FileExplained
  <2>2. CASE mishaps'[f] = mishaps[f]
    <3>1. mishaps[f] = {} => Unharmed(f)
      BY DEF Unharmed
    <3>2. (place[f] = "successful")' => results[f] > 0
      BY <2>2, <1>4, <1>5, <1>10, <1>11 DEF FileExplained
    <3>3. (place[f] = "failed")' /\ results[f] > 0 => mishaps[f] # {}
      BY <2>2, <3>1, <1>4, <1>5, <1>9, <1>10, <1>11 DEF FileExplained, Unharmed
    <3>4. place'[f] # "none"
      BY <1>5, <1>10, <1>11
    <3>5. results[f] > 1 => ~Unharmed(f)'
      BY <2>2, <1>4 DEF FileExplained, Unharmed
    <3> QED BY <2>2, <3>2, <3>3, <3>4, <3>5, <1>10 DEF FileExplained
  <2> QED BY <2>1, <2>2, <1>5
<1>13. OneHand(f)'
  <2> SUFFICES ASSUME Unharmed(f)' PROVE OneHand(f)'
    BY DEF OneHand
  <2>1. mishaps'[f] = mishaps[f] /\ Unharmed(f)
    BY <1>5 DEF Unharmed
  <2>2. \A q \in Pollers : poller'[q].file # f
    BY <2>1, <1>0, <1>2, <1>3, <1>9
  <2>3. place'[f] # "watched"
    BY <2>1, <1>5, <1>9, <1>11
  <2> QED BY <2>2, <2>3 DEF OneHand
<1> QED BY <1>0, <1>6, <1>7, <1>8, <1>12, <1>13 DEF DropInv

\* Mishaps are never forgotten.
LEMMA Grown ==
    ASSUME NEW A, NEW B, A \subseteq B
    PROVE  /\ B = {} => A = {}
           /\ B \cap {"cutShort", "notMoved", "shared"} = {} => A \cap {"cutShort", "notMoved", "shared"} = {}
OBVIOUS

\* A poller stopped in the middle of a file leaves it where it is.
LEMMA StopKept == ASSUME DropInv, NEW p \in Pollers, StopPolling(p) PROVE DropInv'
<1>1. /\ poller' = [poller EXCEPT ![p] = Off] /\ UNCHANGED <<place, results>>
      /\ poller[p] \in Pollings /\ Off \in Pollings
      /\ mishaps \in [ResultFiles -> SUBSET Mishaps]
  BY PollingShapes DEF StopPolling, DropInv, DropTypeOK
<1>2. Off.at = "stopped" /\ Off.file = NoFile /\ ~Off.success /\ Off.list = {}
  BY DEF Off
<1>3. /\ poller' \in [Pollers -> Pollings] /\ poller'[p] = Off
      /\ \A q \in Pollers \ {p} : poller'[q] = poller[q]
  BY <1>1, OnePoller DEF DropInv
<1>4. /\ mishaps' \in [ResultFiles -> SUBSET Mishaps]
      /\ \A g \in ResultFiles : /\ mishaps[g] \subseteq mishaps'[g]
                                /\ poller[p].at = "moving" /\ poller[p].file = g => "cutShort" \in mishaps'[g]
  <2>1. CASE poller[p].at = "moving"
    <3>1. mishaps' = [mishaps EXCEPT ![poller[p].file] = @ \cup {"cutShort"}]
      BY <2>1 DEF StopPolling
    <3>2. PICK f \in ResultFiles : f = poller[p].file
      BY <2>1, <1>1, PollingShapes DEF DropInv, InHandWell
    <3> QED BY <1>1, <3>1, <3>2 DEF Mishaps
  <2>2. CASE poller[p].at # "moving"
    BY <2>2, <1>1 DEF StopPolling
  <2> QED BY <2>1, <2>2
<1>4a. \A g \in ResultFiles : /\ mishaps'[g] = {} => mishaps[g] = {}
                              /\ Unharmed(g)' => Unharmed(g)
  <2> SUFFICES ASSUME NEW g \in ResultFiles
               PROVE  /\ mishaps'[g] = {} => mishaps[g] = {}
                      /\ Unharmed(g)' => Unharmed(g)
    OBVIOUS
  <2>1. mishaps[g] \subseteq mishaps'[g]
    BY <1>4
  <2> QED BY <2>1, Grown DEF Unharmed
<1>5. DropTypeOK'
  BY <1>1, <1>3, <1>4 DEF DropInv, DropTypeOK
<1>6. \A q \in Pollers : InHandWell(q)'
  BY <1>1, <1>2, <1>3 DEF DropInv, InHandWell
<1>7. ASSUME NEW g \in ResultFiles PROVE OneHand(g)' /\ FileExplained(g)'
  <2>1. /\ OneHand(g) /\ FileExplained(g) /\ InHandWell(p) /\ g # NoFile
        /\ place'[g] = place[g] /\ results'[g] = results[g] /\ results[g] \in 0..MaxResults
        /\ Unharmed(g)' => Unharmed(g)
    BY <1>1, <1>4a, FileDropAssumption DEF DropInv, DropTypeOK
  <2>2. \A q \in Pollers : /\ poller'[q].file = g => q # p /\ poller'[q] = poller[q]
                           /\ poller'[q].list \subseteq poller[q].list
    BY <1>2, <1>3, <2>1
  <2>3. FileExplained(g)'
    BY <2>1, <2>2, <1>4a DEF FileExplained
  <2>4. OneHand(g)'
    <3> SUFFICES ASSUME Unharmed(g)' PROVE OneHand(g)'
      BY DEF OneHand
    <3>1. poller[p].file = g => poller[p].at = "writing" /\ results[g] = 0
      <4>1. poller[p].file = g => poller[p].at \in {"writing", "moving"}
        BY <2>1 DEF InHandWell
      <4>2. ~(poller[p].at = "moving" /\ poller[p].file = g)
        <5>1. poller[p].at = "moving" /\ poller[p].file = g => "cutShort" \in mishaps'[g]
          BY <1>4
        <5> QED BY <5>1 DEF Unharmed
      <4> QED BY <2>1, <4>1, <4>2 DEF OneHand
    <3>2. mishaps'[g] = {} => mishaps[g] = {}
      BY <1>4a
    <3>3. \A q \in Pollers \ {p} : poller'[q] = poller[q]
      BY <1>3
    <3>4. place[g] = "watched" /\ results[g] > 0 => \E q \in Pollers \ {p} : poller[q].file = g
      <4>1. place[g] = "watched" /\ results[g] > 0 => \E q \in Pollers : poller[q].file = g
        BY <2>1 DEF OneHand
      <4> QED BY <4>1, <3>1, <2>1
    <3>5. place[g] = "watched" /\ results[g] > 0 => \E q \in Pollers : poller'[q].file = g
      BY <3>3, <3>4
    <3> QED BY <2>1, <2>2, <3>2, <3>5 DEF OneHand
  <2> QED BY <2>3, <2>4
<1> QED BY <1>5, <1>6, <1>7 DEF DropInv

\* Every step of the file drop keeps the invariant.
LEMMA DropSteps == DropInv /\ [DropNext]_dropVars => DropInv'
<1> SUFFICES ASSUME DropInv, [DropNext]_dropVars PROVE DropInv'
  OBVIOUS
<1>1. CASE UNCHANGED dropVars
  BY <1>1 DEF dropVars, DropInv, DropTypeOK, InHandWell, OneHand, FileExplained, Unharmed
<1>2. ASSUME NEW f \in ResultFiles, Drop(f) PROVE DropInv'
  BY <1>2, DropKept
<1>3. ASSUME NEW p \in Pollers, WriteResult(p) \/ FailResult(p) \/ MoveFile(p) \/ StopPolling(p) PROVE DropInv'
  BY <1>3, ResultKept, MoveKept, StopKept
<1>4. ASSUME NEW p \in Pollers, StartPolling(p) \/ List(p) \/ ListDone(p) PROVE DropInv'
  <2>1. poller[p] \in Pollings
    BY DEF DropInv, DropTypeOK
  <2>2. PICK n \in Pollings : /\ poller' = [poller EXCEPT ![p] = n]
                             /\ n.file = poller[p].file /\ n.success = poller[p].success
                             /\ n.at \in {"sleeping", "listing"} /\ poller[p].at \notin {"writing", "moving"}
                             /\ \A f \in n.list : f \in poller[p].list \/ place[f] # "none"
    <3>1. CASE StartPolling(p) \/ ListDone(p)
      <4> DEFINE n == [poller[p] EXCEPT !.at = "sleeping"]
      <4>1. /\ poller' = [poller EXCEPT ![p] = n]
            /\ poller[p].at \notin {"writing", "moving"}
        BY <3>1 DEF StartPolling, ListDone
      <4>2. n \in Pollings /\ n.at = "sleeping" /\ n.list = poller[p].list /\ n.file = poller[p].file
            /\ n.success = poller[p].success
        BY <2>1, PollingSteps
      <4> HIDE DEF n
      <4> QED BY <4>1, <4>2
    <3>2. CASE List(p)
      <4> DEFINE l == {f \in ResultFiles : place[f] = "watched"}
                 n == [poller[p] EXCEPT !.at = "listing", !.list = l]
      <4>1. /\ poller' = [poller EXCEPT ![p] = n]
            /\ poller[p].at \notin {"writing", "moving"}
        BY <3>2 DEF List
      <4>2. l \in SUBSET ResultFiles /\ \A f \in l : place[f] # "none"
        OBVIOUS
      <4> HIDE DEF l
      <4>3. n \in Pollings /\ n.at = "listing" /\ n.list = l /\ n.file = poller[p].file
            /\ n.success = poller[p].success
        BY <2>1, <4>2 DEF Pollings
      <4> HIDE DEF n
      <4> QED BY <4>1, <4>2, <4>3
    <3> QED BY <1>4, <3>1, <3>2
  <2>3. UNCHANGED <<place, results, mishaps>>
    BY <1>4 DEF StartPolling, List, ListDone
  <2> QED BY <2>2, <2>3, PollerLooks
<1>5. ASSUME NEW p \in Pollers, NEW f \in ResultFiles, Parse(p, f) PROVE DropInv'
  <2>1. poller[p] \in Pollings /\ poller[p].at = "listing" /\ UNCHANGED <<place, results>>
    BY <1>5 DEF DropInv, DropTypeOK, Parse
  <2>2. CASE place[f] = "watched" /\ (Take(p, f, "moving") \/ Take(p, f, "writing"))
    BY <2>1, <2>2, TakeKept
  <2>3. CASE poller' = [poller EXCEPT ![p].list = @ \ {f}] /\ UNCHANGED mishaps
    <3> DEFINE n == [poller[p] EXCEPT !.list = @ \ {f}]
    <3>1. n \in Pollings /\ n.at = poller[p].at /\ n.list = poller[p].list \ {f} /\ n.file = poller[p].file
          /\ n.success = poller[p].success
      BY <2>1 DEF Pollings
    <3>2. poller' = [poller EXCEPT ![p] = n]
      BY <2>3
    <3> HIDE DEF n
    <3> QED BY <2>1, <2>3, <3>1, <3>2, PollerLooks
  <2> QED BY <1>5, <2>2, <2>3 DEF Parse
<1> QED BY <1>1, <1>2, <1>3, <1>4, <1>5 DEF DropNext

\* A file among the successful ones has its result, twice only if a poller was stopped or failed
\* between writing and moving it or two had it in hand, and a failed file has one only after
\* a mishap: for any number of files, and of adapters on one directory.
THEOREM ResultsHaveCauses == DropSpec => []ResultsExplained
<1>1. DropInv => ResultsExplained
  BY DEF DropInv, ResultsExplained, FileExplained, Unharmed
<1> QED BY <1>1, DropBegins, DropSteps, PTL DEF DropSpec
-----------------------------------------------------------------------------
(***************************************************************************)
(* The bridge process and its supervisor.                                  *)
(***************************************************************************)

\* The process of the handle: one that ended does not run.
HandleKnown ==
    /\ exit # "none" => handle \notin up
    /\ monitor \in {"sleeping", "launching", "gone", "blocked"} => exit # "none"

\* Who waits for a process that is being started.
Launches ==
    /\ "start" \in threads => user = "starting" /\ monitor = "none" /\ handle = NoProc
    /\ "monitor" \in threads <=> monitor = "launching"
    /\ user = "stopped" => handle = NoProc
    /\ user \in {"stopped", "stopping"} => monitor = "none"

\* A started plugin has a monitor, which goes only for a reason.
Supervised ==
    /\ user = "started" \/ (user = "starting" /\ "start" \notin threads) => monitor # "none"
    /\ monitor \in {"waiting", "sleeping", "launching"} => quick < MaxQuickExits
    /\ monitor = "gone" => exit \in {"clean", "port"} \/ quick = MaxQuickExits

\* Without an orphan nothing runs that the handle does not name, and nothing at all while
\* the monitor brings a process up.
HeldOnly ==
    ~orphaned => up \subseteq {handle}

BridgeInv == BridgeTypeOK /\ HandleKnown /\ Launches /\ Supervised /\ HeldOnly

\* The plugin has not started its bridge.
LEMMA BridgeBegins == BridgeInit => BridgeInv
<1> SUFFICES ASSUME BridgeInit PROVE BridgeInv
  OBVIOUS
<1>1. BridgeTypeOK
  <2>1. quick \in 0..MaxQuickExits
    BY BridgeAssumption DEF BridgeInit
  <2>2. orphaned \in BOOLEAN
    BY DEF BridgeInit
  <2>3. handle \in Procs \cup {NoProc} /\ exit \in Exits
    BY DEF BridgeInit, Exits
  <2> QED BY <2>1, <2>2, <2>3 DEF BridgeInit, BridgeTypeOK
<1>2. HandleKnown /\ Launches /\ Supervised /\ HeldOnly
  BY DEF BridgeInit, HandleKnown, Launches, Supervised, HeldOnly
<1> QED BY <1>1, <1>2 DEF BridgeInv

\* Every step of the bridge, its supervisor and its process keeps the invariant.
LEMMA BridgeSteps == BridgeInv /\ [BridgeNext]_bridgeVars => BridgeInv'
<1> SUFFICES ASSUME BridgeInv, [BridgeNext]_bridgeVars PROVE BridgeInv'
  OBVIOUS
<1> USE BridgeAssumption DEF BridgeInv
<1>1. CASE UNCHANGED bridgeVars
  BY <1>1 DEF bridgeVars, BridgeTypeOK, HandleKnown, Launches, Supervised, HeldOnly
<1>2. CASE StartBridge
  BY <1>2 DEF StartBridge, PortFree, BridgeTypeOK, HandleKnown, Launches, Supervised, HeldOnly
<1>3. CASE Healthy
  BY <1>3 DEF Healthy, BridgeTypeOK, HandleKnown, Launches, Supervised, HeldOnly
<1>4. CASE CancelMonitor
  BY <1>4 DEF CancelMonitor, BridgeTypeOK, HandleKnown, Launches, Supervised, HeldOnly
<1>5. CASE Terminate
  <2>1. "start" \notin threads /\ "monitor" \notin threads /\ monitor = "none"
    BY <1>5 DEF Terminate, Launches
  <2>2. ~orphaned => up' \subseteq {handle'}
    BY <1>5 DEF Terminate, HeldOnly
  <2> QED BY <1>5, <2>1, <2>2 DEF Terminate, BridgeTypeOK, HandleKnown, Launches, Supervised, HeldOnly, Exits
<1>6. CASE NoticeExit
  <2>1. /\ monitor = "waiting" /\ quick < MaxQuickExits /\ exit \in Exits \ {"none"}
        /\ "start" \notin threads /\ "monitor" \notin threads
    BY <1>6 DEF NoticeExit, BridgeTypeOK, Launches, Supervised
  <2>2. quick' \in 0..MaxQuickExits /\ (~GivesUp => quick' < MaxQuickExits)
        /\ (GivesUp => exit \in {"clean", "port"} \/ quick' = MaxQuickExits)
    BY <1>6, <2>1 DEF NoticeExit, GivesUp, BridgeTypeOK, Exits
  <2> QED BY <1>6, <2>1, <2>2 DEF NoticeExit, BridgeTypeOK, HandleKnown, Launches, Supervised, HeldOnly
<1>7. CASE Relaunch
  <2>1. "start" \notin threads
    BY <1>7 DEF Relaunch, Launches
  <2> QED BY <1>7, <2>1 DEF Relaunch, PortFree, BridgeTypeOK, HandleKnown, Launches, Supervised, HeldOnly
<1>8. CASE ServerCrash
  <2>1. up' \subseteq {} \/ orphaned'
    BY <1>8 DEF ServerCrash
  <2> QED BY <1>8, <2>1 DEF ServerCrash, BridgeTypeOK, HandleKnown, Launches, Supervised, HeldOnly, Exits
<1>9. CASE KillOrphans
  BY <1>9 DEF KillOrphans, BridgeTypeOK, HandleKnown, Launches, Supervised, HeldOnly
<1>10. ASSUME NEW how \in Exits, Exit(how) PROVE BridgeInv'
  <2>1. "start" \notin threads /\ monitor \notin {"sleeping", "launching", "gone", "blocked"}
    BY <1>10 DEF Exit, BridgeTypeOK, Launches, HandleKnown
  <2> QED BY <1>10, <2>1 DEF Exit, BridgeTypeOK, HandleKnown, Launches, Supervised, HeldOnly
<1>11. ASSUME NEW p \in Procs, StartLaunched(p) PROVE BridgeInv'
  <2>1. "monitor" \notin threads /\ user = "starting" /\ (~orphaned => up = {})
    BY <1>11 DEF StartLaunched, BridgeTypeOK, Launches, HeldOnly
  <2> QED BY <1>11, <2>1 DEF StartLaunched, BridgeTypeOK, HandleKnown, Launches, Supervised, HeldOnly, Exits
<1>12. ASSUME NEW p \in Procs, MonitorLaunched(p) PROVE BridgeInv'
  <2>1. "start" \notin threads /\ monitor = "launching" /\ user \in {"starting", "started"} /\ (~orphaned => up = {})
    BY <1>12 DEF MonitorLaunched, BridgeTypeOK, HandleKnown, Launches, HeldOnly
  <2> QED BY <1>12, <2>1 DEF MonitorLaunched, BridgeTypeOK, HandleKnown, Launches, Supervised, HeldOnly, Exits
<1>13. ASSUME NEW p \in Procs, NobodyLaunched(p) PROVE BridgeInv'
  BY <1>13 DEF NobodyLaunched, BridgeTypeOK, HandleKnown, Launches, Supervised, HeldOnly
<1> QED BY <1>1, <1>2, <1>3, <1>4, <1>5, <1>6, <1>7, <1>8, <1>9, <1>10, <1>11, <1>12, <1>13 DEF BridgeNext

\* What runs is the process the plugin holds, and a stopped plugin has none, unless the server
\* crashed or a relaunch was under way at the stop; while a started plugin has none it is being
\* brought up, or was given up for a reason: whatever the monitor, the threads and the process do.
THEOREM ProcessFollowsPlugin == BridgeSpec => []BridgeFollowsPlugin
<1>1. BridgeInv => BridgeFollowsPlugin
  BY BridgeAssumption
     DEF BridgeInv, BridgeFollowsPlugin, OrphansExplained, DownExplained,
         BridgeTypeOK, Launches, Supervised, HeldOnly
<1> QED BY <1>1, BridgeBegins, BridgeSteps, PTL DEF BridgeSpec
-----------------------------------------------------------------------------
(***************************************************************************)
(* The plugins of a process.                                               *)
(***************************************************************************)

Works(a, p) == req[a] # Rest /\ req[a].plugin = p

\* Where a request can be with what it does.
Course(a) ==
    req[a] # Rest =>
        /\ req[a].at = "read" => req[a].op = "uninstall"
        /\ req[a].at = "stop" => req[a].op \in {"disable", "uninstall"}
        /\ req[a].at \in {"initialize", "load", "start"} => req[a].op = "enable"
        /\ req[a].at = "initialize" => loaded[req[a].plugin] # 0
        /\ req[a].at = "start" => req[a].inst # 0

\* While no two requests overlap on a plugin, the manager knows its instance.
InstanceKnown(p) ==
    <<p, "crossed">> \notin cause =>
        /\ \A a, b \in Admins : Works(a, p) /\ Works(b, p) => a = b
        /\ \A a \in Admins : Works(a, p) =>
              /\ req[a].at = "load" => loaded[p] = 0
              /\ req[a].at = "start" => req[a].inst = loaded[p]
        /\ \A i \in alive : i[1] = p => i[2] = loaded[p]

Agrees(p) == p \in running <=> Recorded(p)

RowMade(op, sees) ==
    [installed |-> CASE op = "install" -> TRUE [] op = "uninstall" -> FALSE [] OTHER -> sees.installed,
     enabled   |-> op = "enable"]

\* A request that nothing disturbed: it sees the row as it is, and the plugin runs as the
\* request has got it so far.
OnCourse(a, p) ==
    /\ req[a].sees = config[p]
    /\ req[a].op = "enable" => config[p].installed
    /\ req[a].at = "read" => p \notin running
    /\ req[a].at = "row" => IF req[a].op = "uninstall" THEN p \notin running ELSE Agrees(p)
    /\ req[a].at = "stop" => p \in running
    /\ req[a].at \in {"initialize", "load", "start"} => p \notin running
    /\ req[a].at = "commit" => CASE req[a].op = "enable" -> p \in running
                                 [] req[a].op = "install" -> Agrees(p)
                                 [] OTHER -> p \notin running
    /\ req[a].at \in {"initialize", "load", "start", "commit"} \/ (req[a].at = "stop" /\ req[a].op = "disable") =>
           (req[a].holds <=> RowMade(req[a].op, req[a].sees) # req[a].sees)
    /\ req[a].at = "commit" /\ req[a].op = "uninstall" =>
           (req[a].holds <=> RowMade(req[a].op, req[a].sees) # req[a].sees)

Clean(p) == \A c \in cause : c[1] # p

RowFollowed(p) ==
    Clean(p) => /\ Quiet(p) => Agrees(p)
                /\ \A a \in Admins : Works(a, p) => OnCourse(a, p)

PluginInv ==
    /\ PluginTypeOK
    /\ \A a \in Admins : Course(a)
    /\ \A p \in PluginIds : InstanceKnown(p) /\ RowFollowed(p)

\* No plugin is installed.
LEMMA PluginBegins == PluginInit => PluginInv
<1> SUFFICES ASSUME PluginInit PROVE PluginInv
  OBVIOUS
<1>1. PluginTypeOK
  BY PluginsAssumption DEF PluginInit, PluginTypeOK, ConfigRow
<1>2. \A a \in Admins : Course(a)
  BY DEF PluginInit, Course
<1>3. \A p \in PluginIds : InstanceKnown(p) /\ RowFollowed(p)
  BY DEF PluginInit, InstanceKnown, RowFollowed, Works, Agrees, Recorded
<1> QED BY <1>1, <1>2, <1>3 DEF PluginInv

\* The fields of a request.
LEMMA RequestShapes ==
    /\ \A r \in InFlight : /\ r.at \in Stages /\ r.op \in Ops /\ r.plugin \in PluginIds /\ r.sees \in ConfigRow
                           /\ r.holds \in BOOLEAN /\ r.inst \in 0..MaxLoads /\ r # Rest
    /\ Rest.at = "rest" /\ Rest \notin InFlight
<1>1. \A r \in InFlight : /\ r.at \in Stages /\ r.op \in Ops /\ r.plugin \in PluginIds /\ r.sees \in ConfigRow
                           /\ r.holds \in BOOLEAN /\ r.inst \in 0..MaxLoads
  BY DEF InFlight
<1>2. Rest.at = "rest" /\ "rest" \notin Stages
  BY DEF Rest, Stages
<1> QED BY <1>1, <1>2

\* Same as r but for the fields named.
Next1(r, x, s) ==
    /\ x \in InFlight /\ x.at = s /\ x.op = r.op /\ x.plugin = r.plugin

\* What a step of a request on one plugin leaves alone: the other requests, and whatever
\* concerns the other plugins.
OnePlugin(a, p, x) ==
    /\ req' = [req EXCEPT ![a] = x] /\ x \in InFlight \cup {Rest}
    /\ req[a] = Rest \/ req[a].plugin = p
    /\ IF x = Rest THEN req[a] # Rest ELSE x.plugin = p
    /\ cause \subseteq cause' /\ \A c \in cause' \ cause : c[1] = p
    /\ \A q \in PluginIds \ {p} : /\ config'[q] = config[q] /\ loaded'[q] = loaded[q]
                                  /\ q \in running' <=> q \in running
    /\ \A i \in alive' : i[1] # p => i \in alive
    /\ loaded[p] # 0 => loaded'[p] # 0

\* A step of one request on its plugin keeps the invariant if it keeps what the invariant
\* says of that plugin: the requests on other plugins and their rows are out of its reach.
LEMMA OneStep ==
    ASSUME PluginInv, NEW a \in Admins, NEW p \in PluginIds, NEW x, OnePlugin(a, p, x), PluginTypeOK',
           Course(a)',
           req[a] = Rest /\ Others(a, p) # {} => <<p, "crossed">> \in cause',
           <<p, "crossed">> \notin cause' /\ InstanceKnown(p) =>
               /\ x # Rest => /\ x.at = "load" => loaded'[p] = 0
                              /\ x.at = "start" => x.inst = loaded'[p]
               /\ \A i \in alive' : i[1] = p => i[2] = loaded'[p],
           Clean(p)' /\ (\A b \in Admins \ {a} : ~Works(b, p)) =>
               (x = Rest => Agrees(p)') /\ (x # Rest => OnCourse(a, p)')
    PROVE  PluginInv'
<1>1. req \in [Admins -> InFlight \cup {Rest}] /\ req'[a] = x /\ \A b \in Admins \ {a} : req'[b] = req[b]
  BY DEF OnePlugin, PluginInv, PluginTypeOK
<1>2. ASSUME NEW b \in Admins PROVE Course(b)'
  <2>1. CASE b # a /\ req[b] # Rest
    <3>1. req[b].plugin \in PluginIds
      BY <1>1, <2>1, RequestShapes
    <3>2. loaded[req[b].plugin] # 0 => loaded'[req[b].plugin] # 0
      BY <3>1 DEF OnePlugin
    <3> QED BY <1>1, <2>1, <3>2 DEF PluginInv, Course
  <2>2. CASE b # a /\ req[b] = Rest
    BY <1>1, <2>2 DEF Course
  <2> QED BY <2>1, <2>2
<1>3. ASSUME NEW q \in PluginIds, q # p PROVE InstanceKnown(q)' /\ RowFollowed(q)'
  <2>1. \A b \in Admins : /\ Works(b, q)' <=> Works(b, q)
                          /\ Works(b, q) => req'[b] = req[b]
    BY <1>1, <1>3 DEF Works, OnePlugin
  <2>2. config'[q] = config[q] /\ loaded'[q] = loaded[q] /\ (q \in running' <=> q \in running)
    BY <1>3 DEF OnePlugin
  <2>3. <<q, "crossed">> \in cause => <<q, "crossed">> \in cause'
    BY DEF OnePlugin
  <2>4. \A i \in alive' : i[1] = q => i \in alive
    BY <1>3 DEF OnePlugin
  <2>5. InstanceKnown(q)'
    BY <2>1, <2>2, <2>3, <2>4 DEF PluginInv, InstanceKnown
  <2>6. Clean(q)' => Clean(q)
    BY DEF Clean, OnePlugin
  <2>7. (Agrees(q)' <=> Agrees(q)) /\ (Quiet(q)' <=> Quiet(q))
    BY <2>1, <2>2 DEF Agrees, Recorded, Quiet, Works
  <2>8. \A b \in Admins : Works(b, q) /\ OnCourse(b, q) => OnCourse(b, q)'
    BY <2>1, <2>2, <2>7 DEF OnCourse
  <2>9. RowFollowed(q)'
    BY <2>1, <2>6, <2>7, <2>8 DEF PluginInv, RowFollowed
  <2> QED BY <2>5, <2>9
<1>k. InstanceKnown(p)'
  <2> SUFFICES ASSUME <<p, "crossed">> \notin cause' PROVE InstanceKnown(p)'
    BY DEF InstanceKnown
  <2>1. <<p, "crossed">> \notin cause /\ InstanceKnown(p)
    BY DEF OnePlugin, PluginInv
  <2>2. \A b \in Admins : Works(b, p)' /\ b # a => Works(b, p)
    BY <1>1 DEF Works
  <2>3. \A b, c \in Admins : Works(b, p)' /\ Works(c, p)' => b = c
    <3>1. CASE req[a] = Rest
      <4>1. Others(a, p) = {}
        BY <3>1
      <4> QED BY <2>2, <4>1 DEF Others, Works
    <3>2. CASE req[a] # Rest
      <4>1. Works(a, p)
        BY <3>2 DEF OnePlugin, Works
      <4> QED BY <2>1, <2>2, <4>1 DEF InstanceKnown
    <3> QED BY <3>1, <3>2
  <2>4. ASSUME NEW b \in Admins, Works(b, p)'
        PROVE  /\ req'[b].at = "load" => loaded'[p] = 0
               /\ req'[b].at = "start" => req'[b].inst = loaded'[p]
    <3>1. CASE b = a
      BY <1>1, <2>1, <2>4, <3>1 DEF Works
    <3>2. CASE b # a
      <4>1. Works(b, p)
        BY <2>2, <2>4, <3>2
      <4>2. req[a] = Rest => FALSE
        BY <3>2, <4>1 DEF Others, Works
      <4> QED BY <2>1, <3>2, <4>1, <4>2 DEF InstanceKnown, OnePlugin, Works
    <3> QED BY <3>1, <3>2
  <2> QED BY <2>1, <2>3, <2>4 DEF InstanceKnown
<1>4. RowFollowed(p)'
  <2> SUFFICES ASSUME Clean(p)' PROVE (Quiet(p) => Agrees(p))' /\ \A b \in Admins : Works(b, p)' => OnCourse(b, p)'
    BY DEF RowFollowed
  <2>1. Clean(p) /\ <<p, "crossed">> \notin cause'
    BY DEF Clean, OnePlugin
  <2>2. CASE x # Rest
    <3>1. Works(a, p)'
      BY <1>1, <2>2 DEF Works, OnePlugin
    <3>2. \A b \in Admins \ {a} : ~Works(b, p)
      BY <1>1, <1>k, <2>1, <3>1 DEF InstanceKnown, Works
    <3>3. \A b \in Admins : Works(b, p)' => b = a
      BY <1>1, <3>2 DEF Works
    <3> QED BY <2>2, <3>1, <3>2, <3>3 DEF Quiet, Works
  <2>3. CASE x = Rest /\ Quiet(p)'
    <3>1. \A b \in Admins \ {a} : ~Works(b, p)
      BY <1>1, <2>3 DEF Quiet, Works
    <3>2. \A b \in Admins : ~Works(b, p)'
      BY <2>3 DEF Quiet, Works
    <3> QED BY <2>3, <3>1, <3>2
  <2>4. CASE x = Rest /\ ~Quiet(p)'
    <3>1. Works(a, p) /\ \E b \in Admins \ {a} : Works(b, p)
      BY <1>1, <2>4 DEF Quiet, Works, OnePlugin
    <3> QED BY <2>1, <3>1 DEF PluginInv, InstanceKnown, OnePlugin
  <2> QED BY <2>2, <2>3, <2>4
<1> QED BY <1>2, <1>3, <1>k, <1>4 DEF PluginInv

\* A request alone on a plugin that nothing happened to is on its course.
LEMMA SoFar ==
    ASSUME PluginInv, NEW a \in Admins, NEW p \in PluginIds, cause \subseteq cause', Clean(p)',
           \A b \in Admins \ {a} : ~Works(b, p)
    PROVE  /\ Works(a, p) => OnCourse(a, p)
           /\ ~Works(a, p) => Agrees(p)
<1>1. Clean(p)
  BY DEF Clean
<1>2. ~Works(a, p) => Quiet(p)
  BY DEF Quiet, Works
<1> QED BY <1>1, <1>2 DEF PluginInv, RowFollowed

\* A request that begins reads the row as it is.
LEMMA BeginKept ==
    ASSUME PluginInv, NEW a \in Admins, NEW op \in Ops, NEW p \in PluginIds, Begin(a, op, p)
    PROVE  PluginInv'
<1>1. PICK s \in {"row", "stop", "read"} :
         /\ s = "row" <=> op # "uninstall"
         /\ s = "stop" <=> op = "uninstall" /\ p \in running
         /\ req' = [req EXCEPT ![a] = [at |-> s, op |-> op, plugin |-> p, sees |-> config[p], holds |-> FALSE, inst |-> 0]]
  BY DEF Begin
<1> DEFINE x == [at |-> s, op |-> op, plugin |-> p, sees |-> config[p], holds |-> FALSE, inst |-> 0]
<1>2. /\ x \in InFlight /\ x.at = s /\ x.op = op /\ x.plugin = p /\ x.sees = config[p] /\ x.holds = FALSE /\ x.inst = 0
      /\ x # Rest
  <2>1. config[p] \in ConfigRow /\ 0 \in 0..MaxLoads
    BY PluginsAssumption DEF PluginInv, PluginTypeOK
  <2>2. x \in InFlight
    BY <2>1 DEF InFlight, Stages
  <2> QED BY <2>2, RequestShapes
<1>3. req' = [req EXCEPT ![a] = x]
  BY <1>1
<1> HIDE DEF x
<1>4. /\ req[a] = Rest /\ UNCHANGED <<config, loaded, running, alive, hearing>>
      /\ op = "enable" => config[p].installed
      /\ cause' = IF Others(a, p) # {} THEN cause \cup {<<p, "crossed">>} ELSE cause
  BY DEF Begin, Process, Allowed
<1>5. PluginTypeOK' /\ req'[a] = x
  BY <1>2, <1>3, <1>4 DEF PluginInv, PluginTypeOK
<1>6. OnePlugin(a, p, x)
  BY <1>2, <1>3, <1>4 DEF OnePlugin
<1>7. Course(a)'
  BY <1>1, <1>2, <1>5 DEF Course
<1>8. ASSUME Clean(p)', \A b \in Admins \ {a} : ~Works(b, p) PROVE OnCourse(a, p)'
  <2>1. Agrees(p)
    BY <1>4, <1>6, <1>8, SoFar DEF Works, OnePlugin
  <2> QED BY <1>1, <1>2, <1>4, <1>5, <2>1 DEF OnCourse, Agrees, Recorded
<1>9. \A i \in alive' : <<p, "crossed">> \notin cause' /\ InstanceKnown(p) /\ i[1] = p => i[2] = loaded'[p]
  BY <1>4, <1>6 DEF InstanceKnown, OnePlugin
<1> QED BY <1>1, <1>2, <1>4, <1>5, <1>6, <1>7, <1>8, <1>9, OneStep

\* A step that leaves the manager and the row alone.
LEMMA QuietStep ==
    ASSUME PluginInv, NEW a \in Admins, NEW p \in PluginIds, NEW x \in InFlight, Works(a, p),
           req' = [req EXCEPT ![a] = x], x.plugin = p, UNCHANGED <<config, loaded, running, alive, hearing, cause>>,
           req'[a] = x => Course(a)',
           InstanceKnown(p) /\ <<p, "crossed">> \notin cause =>
               (x.at = "load" => loaded[p] = 0) /\ (x.at = "start" => x.inst = loaded[p]),
           OnCourse(a, p) /\ req'[a] = x => OnCourse(a, p)'
    PROVE  PluginInv'
<1>1. PluginTypeOK' /\ req'[a] = x /\ x # Rest
  BY RequestShapes DEF PluginInv, PluginTypeOK
<1>2. OnePlugin(a, p, x)
  BY <1>1 DEF OnePlugin, Works
<1>3. Clean(p)' /\ (\A b \in Admins \ {a} : ~Works(b, p)) => OnCourse(a, p)'
  BY <1>1, <1>2, SoFar DEF OnePlugin
<1>4. <<p, "crossed">> \notin cause' /\ InstanceKnown(p) => \A i \in alive' : i[1] = p => i[2] = loaded'[p]
  BY DEF InstanceKnown
<1> QED BY <1>1, <1>2, <1>3, <1>4, OneStep DEF Works

\* An uninstall reads the row after the stop.
LEMMA ReadRowKept == ASSUME PluginInv, NEW a \in Admins, ReadRow(a) PROVE PluginInv'
<1>1. PICK r \in InFlight, p \in PluginIds : r = req[a] /\ r.plugin = p /\ r.at = "read" /\ Works(a, p) /\ r.op = "uninstall"
  BY RequestShapes DEF ReadRow, At, PluginInv, PluginTypeOK, Works, Course
<1> DEFINE x == [r EXCEPT !.sees = config[p], !.at = "row"]
<1>2. Next1(r, x, "row") /\ x.sees = config[p] /\ x.holds = r.holds /\ x.inst = r.inst
  BY <1>1 DEF PluginInv, PluginTypeOK, Stages, InFlight, Next1
<1>3. req' = [req EXCEPT ![a] = x] /\ UNCHANGED <<config, loaded, running, alive, hearing, cause>>
  BY <1>1 DEF ReadRow, Process
<1> HIDE DEF x
<1>4. req'[a] = x => Course(a)'
  BY <1>1, <1>2 DEF Course, Next1
<1>5. OnCourse(a, p) /\ req'[a] = x => OnCourse(a, p)'
  BY <1>1, <1>2, <1>3 DEF OnCourse, Next1
<1> QED BY <1>1, <1>2, <1>3, <1>4, <1>5, QuietStep DEF Next1

\* An instance that is initialized again is the one the manager knows.
LEMMA ReinitializeKept == ASSUME PluginInv, NEW a \in Admins, Reinitialize(a) PROVE PluginInv'
<1>1. PICK r \in InFlight, p \in PluginIds :
         r = req[a] /\ r.plugin = p /\ r.at = "initialize" /\ Works(a, p) /\ r.op = "enable" /\ loaded[p] # 0
  BY RequestShapes DEF Reinitialize, At, PluginInv, PluginTypeOK, Works, Course
<1>2. PICK s \in {"commit", "start"} : s = IF p \in running THEN "commit" ELSE "start"
  OBVIOUS
<1> DEFINE x == [r EXCEPT !.at = s, !.inst = loaded[p]]
<1>3. Next1(r, x, s) /\ x.sees = r.sees /\ x.holds = r.holds /\ x.inst = loaded[p]
  BY <1>1, <1>2 DEF PluginInv, PluginTypeOK, Stages, InFlight, Next1
<1>4. req' = [req EXCEPT ![a] = x] /\ UNCHANGED <<config, loaded, running, alive, hearing, cause>>
  BY <1>1, <1>2 DEF Reinitialize, Process
<1> HIDE DEF x
<1>5. req'[a] = x => Course(a)'
  BY <1>1, <1>2, <1>3 DEF Course, Next1
<1>6. OnCourse(a, p) /\ req'[a] = x => OnCourse(a, p)'
  BY <1>1, <1>2, <1>3, <1>4 DEF OnCourse, Next1
<1> QED BY <1>1, <1>2, <1>3, <1>4, <1>5, <1>6, QuietStep DEF Next1

\* The flush of a row, and what the request does next.
LEMMA WriteRowKept == ASSUME PluginInv, NEW a \in Admins, WriteRow(a) PROVE PluginInv'
<1>1. PICK r \in InFlight, p \in PluginIds : r = req[a] /\ r.plugin = p /\ r.at = "row" /\ Works(a, p) /\ r.op \in Ops
  BY RequestShapes DEF WriteRow, At, PluginInv, PluginTypeOK, Works
<1>2. PICK h \in BOOLEAN : h <=> RowMade(r.op, r.sees) # r.sees
  OBVIOUS
<1>3. PICK s \in Stages :
         /\ req' = [req EXCEPT ![a] = [r EXCEPT !.holds = h, !.at = s]]
         /\ r.op = "enable" => s = IF p \in running THEN "commit" ELSE IF loaded[p] = 0 THEN "load" ELSE "initialize"
         /\ r.op = "disable" => s = IF p \in running THEN "stop" ELSE "commit"
         /\ r.op \in {"install", "uninstall"} => s = "commit"
  <2> DEFINE next == CASE r.op = "enable"  -> IF p \in running THEN "commit"
                                                 ELSE IF loaded[p] = 0 THEN "load" ELSE "initialize"
                       [] r.op = "disable" -> IF p \in running THEN "stop" ELSE "commit"
                       [] OTHER -> "commit"
  <2>1. Made(a) = RowMade(r.op, r.sees)
    BY <1>1 DEF Made, RowMade
  <2>2. (Made(a) # req[a].sees) = h
    BY <1>1, <1>2, <2>1
  <2>3. req' = [req EXCEPT ![a] = [r EXCEPT !.holds = h, !.at = next]]
    BY <1>1, <2>2 DEF WriteRow
  <2>4. /\ r.op = "enable" => next = IF p \in running THEN "commit" ELSE IF loaded[p] = 0 THEN "load" ELSE "initialize"
        /\ r.op = "disable" => next = IF p \in running THEN "stop" ELSE "commit"
        /\ r.op \in {"install", "uninstall"} => next = "commit"
        /\ next \in Stages
    BY <1>1 DEF Ops, Stages
  <2> HIDE DEF next
  <2> QED BY <2>3, <2>4
<1> DEFINE x == [r EXCEPT !.holds = h, !.at = s]
<1>4. Next1(r, x, s) /\ x.sees = r.sees /\ x.holds = h /\ x.inst = r.inst
  BY <1>1, <1>2, <1>3 DEF InFlight, Next1
<1>5. req' = [req EXCEPT ![a] = x] /\ UNCHANGED <<config, loaded, running, alive, hearing, cause>>
  BY <1>3 DEF WriteRow, Process
<1> HIDE DEF x
<1>6. s \in {"commit", "load", "initialize", "stop"}
  BY <1>1, <1>3 DEF Ops
<1>7. req'[a] = x => Course(a)'
  BY <1>1, <1>3, <1>4, <1>5, <1>6 DEF Course, Next1, Ops
<1>8. OnCourse(a, p) /\ req'[a] = x => OnCourse(a, p)'
  <2> SUFFICES ASSUME OnCourse(a, p), req'[a] = x PROVE OnCourse(a, p)'
    OBVIOUS
  <2>1. /\ x.at = s /\ x.op = r.op /\ x.sees = r.sees /\ x.holds = h
        /\ r.sees = config[p] /\ (r.op = "enable" => config[p].installed)
        /\ IF r.op = "uninstall" THEN p \notin running ELSE Agrees(p)
    BY <1>1, <1>4 DEF OnCourse, Next1
  <2>2. Agrees(p)' <=> Agrees(p)
    BY <1>5 DEF Agrees, Recorded
  <2>3. s = "commit" => CASE r.op = "enable" -> p \in running [] r.op = "install" -> Agrees(p) [] OTHER -> p \notin running
    BY <1>1, <1>3, <2>1 DEF Ops
  <2>4. (s = "stop" => p \in running) /\ (s \in {"initialize", "load"} => p \notin running)
    BY <1>1, <1>3 DEF Ops
  <2>5. h <=> RowMade(x.op, x.sees) # x.sees
    BY <1>2, <2>1
  <2>6. /\ req'[a].at = s /\ req'[a].op = r.op /\ req'[a].sees = r.sees /\ (req'[a].holds <=> h)
        /\ config' = config /\ running' = running
    BY <1>5, <2>1
  <2>7. req'[a].at = "commit" => CASE req'[a].op = "enable" -> p \in running' [] req'[a].op = "install" -> Agrees(p)'
                                   [] OTHER -> p \notin running'
    BY <2>2, <2>3, <2>6
  <2>8. req'[a].holds <=> RowMade(req'[a].op, req'[a].sees) # req'[a].sees
    BY <2>1, <2>5, <2>6
  <2>9. /\ req'[a].sees = config'[p] /\ (req'[a].op = "enable" => config'[p].installed)
        /\ req'[a].at # "read" /\ req'[a].at # "row" /\ req'[a].at # "start"
        /\ (req'[a].at = "stop" => p \in running') /\ (req'[a].at \in {"initialize", "load"} => p \notin running')
    BY <1>6, <2>1, <2>4, <2>6
  <2> HIDE DEF x
  <2> QED BY <2>7, <2>8, <2>9 DEF OnCourse
<1>9. x \in InFlight /\ x.plugin = p /\ (x.at = "load" => loaded[p] = 0) /\ x.at # "start"
  BY <1>1, <1>3, <1>4, <1>6 DEF Next1, Ops
<1> QED BY <1>1, <1>5, <1>7, <1>8, <1>9, QuietStep

\* Instances are numbered from 1.
LEMMA SerialIsNumber == ASSUME PluginInv, NEW p \in PluginIds PROVE Serial(p) \in Nat \ {0}
<1>i. 1 \in Int /\ MaxLoads \in Int
  BY PluginsAssumption
<1>j. IsFiniteSet(1..MaxLoads)
  BY <1>i, FS_Interval
<1>1. IsFiniteSet(1..MaxLoads) /\ IsFiniteSet({p})
  BY <1>j, FS_Singleton
<1>2. IsFiniteSet({p} \X (1..MaxLoads))
  BY <1>1, FS_Product
<1>3. {i \in hearing : i[1] = p} \subseteq {p} \X (1..MaxLoads)
  BY DEF PluginInv, PluginTypeOK, Instances
<1>4. IsFiniteSet({i \in hearing : i[1] = p})
  BY <1>2, <1>3, FS_Subset
<1> QED BY <1>4, FS_CardinalityType DEF Serial

\* A new instance, which the manager knows from then on.
LEMMA LoadKept == ASSUME PluginInv, NEW a \in Admins, Load(a) PROVE PluginInv'
<1>1. PICK r \in InFlight, p \in PluginIds :
         r = req[a] /\ r.plugin = p /\ r.at = "load" /\ Works(a, p) /\ r.op = "enable"
  BY RequestShapes DEF Load, At, PluginInv, PluginTypeOK, Works, Course
<1>2. PICK i \in 1..MaxLoads, s \in {"commit", "start"} :
         /\ s = IF p \in running THEN "commit" ELSE "start"
         /\ loaded' = [loaded EXCEPT ![p] = i] /\ hearing' = hearing \cup {<<p, i>>}
         /\ req' = [req EXCEPT ![a] = [r EXCEPT !.at = s, !.inst = i]]
         /\ UNCHANGED <<config, running, alive, cause>>
  <2>1. Serial(p) \in 1..MaxLoads
    BY <1>1, SerialIsNumber, PluginsAssumption DEF Load
  <2> QED BY <1>1, <2>1 DEF Load
<1> DEFINE x == [r EXCEPT !.at = s, !.inst = i]
<1>s. s \in Stages /\ i \in 0..MaxLoads
  BY PluginsAssumption DEF Stages
<1>3. Next1(r, x, s) /\ x.sees = r.sees /\ x.holds = r.holds /\ x.inst = i
  BY <1>s DEF InFlight, Next1
<1>4. req' = [req EXCEPT ![a] = x]
  BY <1>2
<1> HIDE DEF x
<1>5. x \in InFlight /\ x # Rest /\ req[a] # Rest /\ x.plugin = p
  BY <1>1, <1>3, RequestShapes DEF Next1
<1>6. /\ req'[a] = x /\ loaded'[p] = i /\ i # 0 /\ i \in 0..MaxLoads
      /\ \A q \in PluginIds \ {p} : loaded'[q] = loaded[q]
      /\ loaded' \in [PluginIds -> 0..MaxLoads] /\ hearing' \subseteq Instances
  <2>1. i # 0 /\ i \in 0..MaxLoads
    BY <1>2, PluginsAssumption
  <2>2. <<p, i>> \in Instances
    BY <1>2 DEF Instances
  <2> QED BY <1>2, <1>4, <2>1, <2>2 DEF PluginInv, PluginTypeOK
<1>7. PluginTypeOK'
  BY <1>2, <1>4, <1>5, <1>6 DEF PluginInv, PluginTypeOK
<1>8. OnePlugin(a, p, x)
  BY <1>1, <1>2, <1>4, <1>5, <1>6 DEF OnePlugin
<1>9. Course(a)'
  BY <1>1, <1>2, <1>3, <1>6 DEF Course, Next1
<1>10. <<p, "crossed">> \notin cause' /\ InstanceKnown(p) =>
           /\ x # Rest => /\ x.at = "load" => loaded'[p] = 0
                          /\ x.at = "start" => x.inst = loaded'[p]
           /\ \A j \in alive' : j[1] = p => j[2] = loaded'[p]
  <2> SUFFICES ASSUME <<p, "crossed">> \notin cause', InstanceKnown(p) PROVE \A j \in alive' : j[1] # p
    BY <1>2, <1>3, <1>6 DEF Next1
  <2>1. loaded[p] = 0 /\ \A j \in alive : j[1] = p => j[2] = 0
    BY <1>1, <1>2 DEF InstanceKnown
  <2>2. \A j \in alive : j[2] # 0
    BY PluginsAssumption DEF PluginInv, PluginTypeOK, Instances
  <2> QED BY <1>2, <2>1, <2>2
<1>11. ASSUME Clean(p)', \A b \in Admins \ {a} : ~Works(b, p) PROVE OnCourse(a, p)'
  <2>1. OnCourse(a, p)
    BY <1>1, <1>8, <1>11, SoFar DEF OnePlugin
  <2> QED BY <1>1, <1>2, <1>3, <1>6, <2>1 DEF OnCourse, Next1
<1> QED BY <1>5, <1>7, <1>8, <1>9, <1>10, <1>11, OneStep

\* What starts or stops is the instance the manager knows.
LEMMA StartStopKept ==
    ASSUME PluginInv, NEW a \in Admins, Start(a) \/ Stop(a) \/ StopFails(a)
    PROVE  PluginInv'
<1>1. PICK r \in InFlight, p \in PluginIds : r = req[a] /\ r.plugin = p /\ Works(a, p) /\ r.at \in {"start", "stop"}
  BY RequestShapes DEF Start, Stop, StopFails, At, PluginInv, PluginTypeOK, Works
<1>2. PICK s \in {"commit", "read"} :
         /\ req' = [req EXCEPT ![a] = [r EXCEPT !.at = s]]
         /\ s = "read" => r.at = "stop" /\ r.op = "uninstall"
         /\ s = "commit" => r.op \in {"enable", "disable"}
         /\ UNCHANGED <<config, loaded, hearing>>
         /\ \/ /\ r.at = "start" /\ r.op = "enable" /\ r.inst \in 1..MaxLoads /\ running' = running \cup {p} /\ UNCHANGED cause
               /\ alive' = alive \cup {<<p, r.inst>>}
            \/ /\ r.at = "stop" /\ running' = running \ {p} /\ UNCHANGED cause
               /\ alive' = alive \ {<<p, loaded[p]>>}
            \/ cause' = cause \cup {<<p, "failed">>} /\ UNCHANGED <<running, alive>>
  <2>1. CASE Start(a)
    <3>1. r.at = "start" /\ r.op = "enable" /\ r.inst \in 1..MaxLoads
      BY <1>1, <2>1, RequestShapes, PluginsAssumption DEF Start, At, PluginInv, Course
    <3> QED BY <1>1, <2>1, <3>1 DEF Start, GoTo
  <2>2. CASE Stop(a)
    <3>1. r.at = "stop" /\ r.op \in {"disable", "uninstall"}
      BY <1>1, <2>2 DEF Stop, At, PluginInv, Course, Works
    <3>2. PICK s \in {"commit", "read"} : s = IF r.op = "uninstall" THEN "read" ELSE "commit"
      OBVIOUS
    <3> QED BY <1>1, <2>2, <3>1, <3>2 DEF Stop, GoTo
  <2>3. CASE StopFails(a)
    <3>1. r.at = "stop" /\ r.op \in {"disable", "uninstall"}
      BY <1>1, <2>3 DEF StopFails, At, PluginInv, Course, Works
    <3>2. PICK s \in {"commit", "read"} : s = IF r.op = "uninstall" THEN "read" ELSE "commit"
      OBVIOUS
    <3> QED BY <1>1, <2>3, <3>1, <3>2 DEF StopFails, GoTo, Process
  <2> QED BY <2>1, <2>2, <2>3
<1> DEFINE x == [r EXCEPT !.at = s]
<1>3. Next1(r, x, s) /\ x.sees = r.sees /\ x.holds = r.holds /\ x.inst = r.inst
  BY <1>1, <1>2 DEF InFlight, Next1, Stages
<1>4. req' = [req EXCEPT ![a] = x]
  BY <1>2
<1> HIDE DEF x
<1>5. x \in InFlight /\ x # Rest /\ req[a] # Rest /\ x.plugin = p
  BY <1>1, <1>3, RequestShapes DEF Next1
<1>6. /\ req'[a] = x /\ running' \subseteq PluginIds /\ alive' \subseteq Instances
      /\ cause' \subseteq PluginIds \X {"reinstalled", "failed", "lost", "crossed"}
  BY <1>2, <1>4 DEF PluginInv, PluginTypeOK, Instances
<1>7. PluginTypeOK'
  BY <1>2, <1>4, <1>5, <1>6 DEF PluginInv, PluginTypeOK
<1>8. OnePlugin(a, p, x)
  <2>1. \A j \in alive' : j[1] # p => j \in alive
    BY <1>2
  <2>2. cause \subseteq cause' /\ \A c \in cause' \ cause : c[1] = p
    BY <1>2
  <2>3. \A q \in PluginIds \ {p} : q \in running' <=> q \in running
    BY <1>2
  <2>4. config' = config /\ loaded' = loaded
    BY <1>2
  <2> QED BY <1>1, <1>4, <1>5, <2>1, <2>2, <2>3, <2>4 DEF OnePlugin
<1>9. Course(a)'
  BY <1>1, <1>2, <1>3, <1>6 DEF Course, Next1
<1>10. <<p, "crossed">> \notin cause' /\ InstanceKnown(p) =>
           /\ x # Rest => /\ x.at = "load" => loaded'[p] = 0
                          /\ x.at = "start" => x.inst = loaded'[p]
           /\ \A j \in alive' : j[1] = p => j[2] = loaded'[p]
  <2> SUFFICES ASSUME <<p, "crossed">> \notin cause', InstanceKnown(p)
               PROVE  \A j \in alive' : j[1] = p => j[2] = loaded'[p]
    BY <1>2, <1>3 DEF Next1
  <2>1. <<p, "crossed">> \notin cause /\ loaded' = loaded
    BY <1>2
  <2>2. r.at = "start" => r.inst = loaded[p]
    BY <1>1, <2>1 DEF InstanceKnown
  <2>3. \A j \in alive : j[1] = p => j[2] = loaded[p]
    BY <2>1 DEF InstanceKnown
  <2> QED BY <1>2, <2>1, <2>2, <2>3
<1>11. ASSUME Clean(p)', \A b \in Admins \ {a} : ~Works(b, p) PROVE OnCourse(a, p)'
  <2>1. OnCourse(a, p)
    BY <1>1, <1>8, <1>11, SoFar DEF OnePlugin
  <2>2. <<p, "failed">> \notin cause'
    BY <1>11 DEF Clean
  <2>3. s = "commit" => (r.op = "enable" => p \in running') /\ (r.op = "disable" => p \notin running')
    BY <1>1, <1>2, <2>2 DEF PluginInv, Course, Works
  <2>4. s = "read" => p \notin running'
    BY <1>1, <1>2, <2>2
  <2>5. /\ req'[a].at = s /\ req'[a].op = r.op /\ req'[a].sees = r.sees /\ req'[a].holds = r.holds /\ config' = config
    BY <1>2, <1>3, <1>6 DEF Next1
  <2>c. r.at = "stop" /\ s = "commit" => r.op = "disable"
    BY <1>1, <1>2 DEF PluginInv, Course, Works
  <2>d. s = "commit" => r.at = "start" \/ (r.at = "stop" /\ r.op = "disable")
    BY <1>1, <2>c
  <2>e. s = "commit" => (r.holds <=> RowMade(r.op, r.sees) # r.sees)
    BY <1>1, <2>1, <2>d DEF OnCourse
  <2>6. r.sees = config[p] /\ (r.op = "enable" => config[p].installed)
        /\ (s = "commit" => (r.holds <=> RowMade(r.op, r.sees) # r.sees))
    BY <1>1, <2>1, <2>e DEF OnCourse
  <2> QED BY <1>2, <2>3, <2>4, <2>5, <2>6 DEF OnCourse
<1> QED BY <1>5, <1>7, <1>8, <1>9, <1>10, <1>11, OneStep

\* The committed row is what the request made of the plugin.
LEMMA CommitRowKept == ASSUME PluginInv, NEW a \in Admins, CommitRow(a) PROVE PluginInv'
<1>1. PICK r \in InFlight, p \in PluginIds :
         r = req[a] /\ r.plugin = p /\ Works(a, p) /\ r.at = "commit" /\ r.op \in Ops /\ r.sees \in ConfigRow
         /\ r.holds \in BOOLEAN
  BY RequestShapes DEF CommitRow, At, PluginInv, PluginTypeOK, Works
<1>2. /\ req' = [req EXCEPT ![a] = Rest] /\ UNCHANGED <<loaded, running, alive, hearing>>
      /\ cause \subseteq cause' /\ \A c \in cause' \ cause : c[1] = p
      /\ cause' \subseteq PluginIds \X {"reinstalled", "failed", "lost", "crossed"}
      /\ r.op = "install" /\ p \in running => <<p, "reinstalled">> \in cause'
      /\ config' = IF r.holds THEN [config EXCEPT ![p] = Merged(a)] ELSE config
  BY <1>1 DEF CommitRow, Process, PluginInv, PluginTypeOK
<1> DEFINE y == RowMade(r.op, r.sees)
<1>3. y \in ConfigRow /\ Made(a) = y
  BY <1>1 DEF ConfigRow, RowMade, Ops, Made
<1>4. /\ y.installed = (r.op = "install" \/ (r.op # "uninstall" /\ r.sees.installed))
      /\ y.enabled = (r.op = "enable")
  BY <1>1 DEF RowMade, ConfigRow, Ops
<1> HIDE DEF y
<1>5. /\ Merged(a) \in ConfigRow
      /\ r.sees = config[p] => Merged(a) = y
  <2>1. config[p] \in ConfigRow
    BY DEF PluginInv, PluginTypeOK
  <2>2. Merged(a) = [c \in {"installed", "enabled"} |-> IF y[c] # r.sees[c] THEN y[c] ELSE config[p][c]]
    BY <1>1, <1>3 DEF Merged
  <2>3. \A c \in {"installed", "enabled"} : y[c] \in BOOLEAN /\ r.sees[c] \in BOOLEAN /\ config[p][c] \in BOOLEAN
    BY <1>1, <1>3, <2>1 DEF ConfigRow
  <2>4. Merged(a) \in ConfigRow
    BY <2>2, <2>3 DEF ConfigRow
  <2>5. r.sees = config[p] => Merged(a).installed = y.installed /\ Merged(a).enabled = y.enabled
    BY <2>2
  <2>6. r.sees = config[p] => Merged(a) = y
    BY <1>3, <2>4, <2>5 DEF ConfigRow
  <2> QED BY <2>4, <2>6
<1>6. /\ req'[a] = Rest /\ Rest \in InFlight \cup {Rest} /\ req[a] # Rest
      /\ \A q \in PluginIds \ {p} : config'[q] = config[q]
      /\ config'[p] = IF r.holds THEN Merged(a) ELSE config[p]
      /\ config' \in [PluginIds -> ConfigRow]
  BY <1>1, <1>2, <1>5 DEF PluginInv, PluginTypeOK, Works
<1>7. PluginTypeOK'
  BY <1>2, <1>6 DEF PluginInv, PluginTypeOK
<1>8. OnePlugin(a, p, Rest)
  BY <1>1, <1>2, <1>6 DEF OnePlugin
<1>9. Course(a)'
  BY <1>6 DEF Course
<1>10. <<p, "crossed">> \notin cause' /\ InstanceKnown(p) => \A j \in alive' : j[1] = p => j[2] = loaded'[p]
  BY <1>2 DEF InstanceKnown
<1>11. ASSUME Clean(p)', \A b \in Admins \ {a} : ~Works(b, p) PROVE Agrees(p)'
  <2>1. OnCourse(a, p)
    BY <1>1, <1>8, <1>11, SoFar DEF OnePlugin
  <2>2. <<p, "reinstalled">> \notin cause'
    BY <1>11 DEF Clean
  <2>3. r.op = "install" => p \notin running
    BY <1>2, <2>2
  <2>4. r.sees = config[p] /\ (r.op = "enable" => config[p].installed)
    BY <1>1, <2>1 DEF OnCourse
  <2>5. r.op = "enable" <=> p \in running
    BY <1>1, <2>1, <2>3 DEF OnCourse, Ops
  <2>6. r.holds <=> y # r.sees
    BY <1>1, <2>1 DEF OnCourse, y
  <2>7. config'[p] = y
    BY <1>1, <1>5, <1>6, <2>4, <2>6
  <2>8. y.installed /\ y.enabled <=> r.op = "enable"
    BY <1>4, <2>4
  <2> QED BY <1>2, <2>5, <2>7, <2>8 DEF Agrees, Recorded
<1> QED BY <1>1, <1>6, <1>7, <1>8, <1>9, <1>10, <1>11, OneStep DEF Works

\* A request that fails leaves a cause, or everything as it was.
LEMMA FailKept == ASSUME PluginInv, NEW a \in Admins, Fail(a) \/ LoseRow(a) PROVE PluginInv'
<1>1. PICK r \in InFlight, p \in PluginIds : r = req[a] /\ r.plugin = p /\ Works(a, p) /\ r.op \in Ops
  <2>1. req[a].at # "rest"
    BY DEF Fail, LoseRow, At
  <2> QED BY <2>1, RequestShapes DEF PluginInv, PluginTypeOK, Works
<1>2. /\ req' = [req EXCEPT ![a] = Rest] /\ UNCHANGED <<config, loaded, running, alive, hearing>>
      /\ cause \subseteq cause' /\ \A c \in cause' \ cause : c[1] = p
      /\ cause' \subseteq PluginIds \X {"reinstalled", "failed", "lost", "crossed"}
      /\ (\E c \in cause' : c[1] = p) \/ (r.at = "row" /\ r.op # "uninstall")
  <2>1. /\ req' = [req EXCEPT ![a] = Rest] /\ UNCHANGED <<config, loaded, running, alive, hearing>>
        /\ \/ r.at = "row" /\ r.op # "uninstall" /\ cause' = cause
           \/ cause' = cause \cup {<<p, "failed">>}
           \/ cause' = cause \cup {<<p, "lost">>}
    BY <1>1 DEF Fail, LoseRow, At, Process
  <2>2. cause \subseteq PluginIds \X {"reinstalled", "failed", "lost", "crossed"}
    BY DEF PluginInv, PluginTypeOK
  <2>3. CASE r.at = "row" /\ r.op # "uninstall" /\ cause' = cause
    BY <2>1, <2>2, <2>3
  <2>4. CASE \E f \in {"failed", "lost"} : cause' = cause \cup {<<p, f>>}
    <3>1. PICK f \in {"failed", "lost"} : cause' = cause \cup {<<p, f>>}
      BY <2>4
    <3>2. <<p, f>>[1] = p /\ <<p, f>> \in cause' /\ \A c \in cause' : c \in cause \/ c = <<p, f>>
      BY <3>1
    <3>3. <<p, f>> \in PluginIds \X {"reinstalled", "failed", "lost", "crossed"}
      OBVIOUS
    <3>4. cause \subseteq cause' /\ cause' \subseteq PluginIds \X {"reinstalled", "failed", "lost", "crossed"}
      BY <2>2, <3>1, <3>3
    <3>5. (\E c \in cause' : c[1] = p) /\ \A c \in cause' \ cause : c[1] = p
      BY <3>2
    <3> QED BY <2>1, <3>4, <3>5
  <2> QED BY <2>1, <2>3, <2>4
<1>3. req'[a] = Rest /\ req[a] # Rest
  BY <1>1, <1>2 DEF PluginInv, PluginTypeOK, Works
<1>4. PluginTypeOK'
  BY <1>2 DEF PluginInv, PluginTypeOK
<1>5. OnePlugin(a, p, Rest)
  BY <1>1, <1>2, <1>3 DEF OnePlugin
<1>6. Course(a)'
  BY <1>3 DEF Course
<1>7. <<p, "crossed">> \notin cause' /\ InstanceKnown(p) => \A j \in alive' : j[1] = p => j[2] = loaded'[p]
  BY <1>2 DEF InstanceKnown
<1>8. ASSUME Clean(p)', \A b \in Admins \ {a} : ~Works(b, p) PROVE Agrees(p)'
  <2>1. OnCourse(a, p)
    BY <1>1, <1>2, <1>8, SoFar
  <2>2. r.at = "row" /\ r.op # "uninstall"
    BY <1>2, <1>8 DEF Clean
  <2>3. Agrees(p)
    BY <1>1, <2>1, <2>2 DEF OnCourse
  <2> QED BY <1>2, <2>3 DEF Agrees, Recorded
<1> QED BY <1>3, <1>4, <1>5, <1>6, <1>7, <1>8, OneStep DEF Works

\* A new process runs what the rows say, but for what fails.
LEMMA RebootKept == ASSUME PluginInv, NEW failing \in SUBSET PluginIds, Reboot(failing) PROVE PluginInv'
<1> DEFINE wanted == {p \in PluginIds : config[p] = [installed |-> TRUE, enabled |-> TRUE]}
<1>1. PICK started \in SUBSET PluginIds :
         /\ started = wanted \ failing /\ failing \subseteq wanted
         /\ running' = started /\ loaded' = [p \in PluginIds |-> IF p \in started THEN 1 ELSE 0]
         /\ alive' = started \X {1} /\ hearing' = started \X {1}
         /\ req' = [a \in Admins |-> Rest] /\ cause' = failing \X {"failed"} /\ config' = config
  BY DEF Reboot
<1>2. \A p \in PluginIds : p \in wanted <=> Recorded(p)
  BY DEF Recorded, PluginInv, PluginTypeOK, ConfigRow
<1>3. started \subseteq wanted /\ \A p \in wanted : p \notin failing => p \in started
  BY <1>1
<1> HIDE DEF wanted
<1>4. 1 \in 1..MaxLoads /\ 0 \in 0..MaxLoads /\ 1 \in 0..MaxLoads
  BY PluginsAssumption
<1>5. alive' \cup hearing' \subseteq Instances
  BY <1>1, <1>4 DEF Instances
<1>6. PluginTypeOK'
  <2>1. loaded' \in [PluginIds -> 0..MaxLoads]
    BY <1>1, <1>4
  <2>2. cause' \subseteq PluginIds \X {"reinstalled", "failed", "lost", "crossed"}
    BY <1>1
  <2> QED BY <1>1, <1>5, <2>1, <2>2 DEF PluginInv, PluginTypeOK
<1>7. \A a \in Admins : Course(a)' /\ \A p \in PluginIds : ~Works(a, p)'
  BY <1>1 DEF Course, Works
<1>8. \A p \in PluginIds : InstanceKnown(p)'
  <2>1. \A i \in alive' : i[1] \in started /\ i[2] = 1
    BY <1>1
  <2> QED BY <1>1, <1>7, <2>1 DEF InstanceKnown
<1>9. \A p \in PluginIds : RowFollowed(p)'
  <2> SUFFICES ASSUME NEW p \in PluginIds, Clean(p)' PROVE Agrees(p)'
    BY <1>7 DEF RowFollowed
  <2>1. p \notin failing
    <3> SUFFICES ASSUME p \in failing PROVE FALSE
      OBVIOUS
    <3>1. <<p, "failed">> \in cause'
      BY <1>1
    <3> QED BY <3>1 DEF Clean
  <2> QED BY <1>1, <1>2, <1>3, <2>1 DEF Agrees, Recorded
<1> QED BY <1>6, <1>7, <1>8, <1>9 DEF PluginInv

\* Every step of the requests and of the process keeps the invariant.
LEMMA PluginSteps == PluginInv /\ [PluginNext]_pluginVars => PluginInv'
<1> SUFFICES ASSUME PluginInv, [PluginNext]_pluginVars PROVE PluginInv'
  OBVIOUS
<1>1. CASE UNCHANGED pluginVars
  BY <1>1 DEF pluginVars, PluginInv, PluginTypeOK, Course, InstanceKnown, RowFollowed, Works, OnCourse,
       Agrees, Recorded, Clean, Quiet
<1>2. ASSUME NEW a \in Admins, NEW op \in Ops, NEW p \in PluginIds, Begin(a, op, p) PROVE PluginInv'
  BY <1>2, BeginKept
<1>3. ASSUME NEW a \in Admins, ReadRow(a) \/ WriteRow(a) PROVE PluginInv'
  BY <1>3, ReadRowKept, WriteRowKept
<1>4. ASSUME NEW a \in Admins, Load(a) \/ Reinitialize(a) PROVE PluginInv'
  BY <1>4, LoadKept, ReinitializeKept
<1>5. ASSUME NEW a \in Admins, Start(a) \/ Stop(a) \/ StopFails(a) PROVE PluginInv'
  BY <1>5, StartStopKept
<1>6. ASSUME NEW a \in Admins, CommitRow(a) \/ Fail(a) \/ LoseRow(a) PROVE PluginInv'
  BY <1>6, CommitRowKept, FailKept
<1>7. ASSUME NEW failing \in SUBSET PluginIds, Reboot(failing) PROVE PluginInv'
  BY <1>7, RebootKept
<1> QED BY <1>1, <1>2, <1>3, <1>4, <1>5, <1>6, <1>7 DEF PluginNext

\* The invariant says more than the property.
LEMMA PluginsAgree == PluginInv => RunsAsRecorded
<1> SUFFICES ASSUME PluginInv, NEW p \in PluginIds
             PROVE  /\ Quiet(p) /\ (p \in running) # Recorded(p) => \E c \in cause : c[1] = p
                    /\ <<p, "crossed">> \notin cause => \A i \in alive : i[1] = p => i[2] = loaded[p]
  BY DEF RunsAsRecorded
<1>1. <<p, "crossed">> \notin cause => \A i \in alive : i[1] = p => i[2] = loaded[p]
  BY DEF PluginInv, InstanceKnown
<1>2. Recorded(p) \in BOOLEAN
  BY DEF Recorded, PluginInv, PluginTypeOK, ConfigRow
<1>3. Quiet(p) /\ Clean(p) => (p \in running <=> Recorded(p))
  BY DEF PluginInv, RowFollowed, Agrees
<1>4. Clean(p) \/ \E c \in cause : c[1] = p
  BY DEF Clean
<1> QED BY <1>1, <1>2, <1>3, <1>4

\* With no request on a plugin it runs if and only if its row says so, unless a start or a stop
\* failed, it was installed while it ran, a commit was lost or two requests overlapped on it; and
\* no instance runs that the manager has lost, unless two overlapped: for any plugins and any
\* number of administrators, through restarts.
THEOREM RowsAreFollowed == PluginSpec => []RunsAsRecorded
<1>1. PluginSpec => []PluginInv
  BY PluginBegins, PluginSteps, PTL DEF PluginSpec
<1> QED BY <1>1, PluginsAgree, PTL
=============================================================================
