------------------------------- MODULE ErpCalls -------------------------------
(***************************************************************************)
(* The reports clients post through an ERP plugin (adapters/erp/routes.py, *)
(* with the SAP S/4HANA or the Oracle Cloud ERP adapter below, or one of   *)
(* the simulators, which book a report in memory or fail at random).  The  *)
(* client of an adapter keeps a bearer token, renewed a minute before it   *)
(* expires, and for SAP a CSRF token, fetched once and kept until the      *)
(* plugin stops.  An ERP that is not reached, and one that refuses either  *)
(* token, are one error to the route: completions, consumptions and scrap  *)
(* are then queued and the caller is told of a success; labor, downtime    *)
(* and quality results are not queued.                                     *)
(***************************************************************************)
EXTENDS Naturals

CONSTANTS
    DirectCalls,
    Queueable     \* the calls that report a completion, a consumption or scrap

ASSUME ErpCallAssumption == Queueable \subseteq DirectCalls

VARIABLES
    erp,       \* the plugin that is installed
    session,   \* the client of its adapter: whether it is connected, and its tokens
    direct,    \* what each call is doing, and what its caller was told
    posted,    \* how often the ERP booked the report
    enqueued,  \* rows for it in erp_outbound_queue
    doubts     \* ghost: what went wrong with each call

erpCallVars == <<erp, session, direct, posted, enqueued, doubts>>

Erps == {"sap", "oracle", "simulator"}

Disconnected == [on |-> FALSE, bearer |-> "none", csrf |-> "none"]

ClientStates == [on : BOOLEAN, bearer : {"none", "good", "due", "revoked"},
             csrf : {"none", "good", "ended"}]

InFlightCalls == {"asking", "authorized", "ready", "queueing"}

ErpCallTypeOK ==
    /\ erp \in Erps /\ session \in ClientStates
    /\ direct \in [DirectCalls -> InFlightCalls \cup
                                  {"idle", "posted", "queued", "failed", "unavailable"}]
    /\ posted \in [DirectCalls -> 0..1] /\ enqueued \in [DirectCalls -> 0..1]
    /\ doubts \in [DirectCalls -> SUBSET {"unanswered", "refused", "cut"}]

ErpCallInit ==
    /\ erp \in Erps /\ session = Disconnected
    /\ direct = [d \in DirectCalls |-> "idle"]
    /\ posted = [d \in DirectCalls |-> 0] /\ enqueued = [d \in DirectCalls |-> 0]
    /\ doubts = [d \in DirectCalls |-> {}]

Books == <<posted, enqueued>>

\* connect: with a bearer token from the start, without a CSRF token.
ConnectErp ==
    /\ ~session.on
    /\ session' = [on |-> TRUE, bearer |-> "good", csrf |-> "none"]
    /\ UNCHANGED <<erp, direct, Books, doubts>>

DisconnectErp ==
    /\ session.on
    /\ session' = Disconnected
    /\ UNCHANGED <<erp, direct, Books, doubts>>

\* The bearer token comes near its end, or the ERP withdraws a token.
TokensAge ==
    /\ erp # "simulator"
    /\ \/ session.bearer = "good" /\ \E b \in {"due", "revoked"} :
                                        session' = [session EXCEPT !.bearer = b]
       \/ session.csrf = "good" /\ session' = [session EXCEPT !.csrf = "ended"]
    /\ UNCHANGED <<erp, direct, Books, doubts>>

CallErp(d) ==
    /\ direct[d] = "idle"
    /\ direct' = [direct EXCEPT ![d] = IF session.on THEN "asking" ELSE "unavailable"]
    /\ UNCHANGED <<erp, session, Books, doubts>>

\* ERPConnectionError: only some reports are queued.
NotReached(d) == IF d \in Queueable THEN "queueing" ELSE "failed"

\* A token that is due is renewed, or the call ends there.
RenewBearer(d) ==
    /\ direct[d] = "asking"
    /\ \/ /\ session.on /\ session.bearer = "due"
          /\ session' = [session EXCEPT !.bearer = "good"]
          /\ direct' = [direct EXCEPT ![d] = "authorized"]
       \/ /\ erp = "simulator" \/ (session.on /\ session.bearer # "due")
          /\ direct' = [direct EXCEPT ![d] = "authorized"]
          /\ UNCHANGED session
       \/ /\ erp # "simulator" /\ (~session.on \/ session.bearer = "due")
          /\ direct' = [direct EXCEPT ![d] = NotReached(d)]
          /\ UNCHANGED session
    /\ UNCHANGED <<erp, Books, doubts>>

\* Only SAP asks for a CSRF token.  A fetch that fails is logged; one from a client that
\* has been disconnected meanwhile fails the call.
FetchCsrf(d) ==
    /\ direct[d] = "authorized"
    /\ \/ /\ session.on /\ erp = "sap" /\ session.csrf = "none"
          /\ \E t \in {"none", "good"} : session' = [session EXCEPT !.csrf = t]
          /\ direct' = [direct EXCEPT ![d] = "ready"]
       \/ /\ erp # "sap" \/ (session.on /\ session.csrf # "none")
          /\ direct' = [direct EXCEPT ![d] = "ready"]
          /\ UNCHANGED session
       \/ /\ erp = "sap" /\ ~session.on
          /\ direct' = [direct EXCEPT ![d] = "failed"]
          /\ UNCHANGED session
    /\ UNCHANGED <<erp, Books, doubts>>

OracleTakes == session.on /\ session.bearer \in {"good", "due"}

SapTakes == OracleTakes /\ session.csrf = "good"

Book(d) ==
    /\ direct[d] = "ready"
    /\ posted' = [posted EXCEPT ![d] = 1]
    /\ UNCHANGED <<erp, session, enqueued>>

Answered(d) == direct' = [direct EXCEPT ![d] = "posted"] /\ UNCHANGED doubts

\* The answer is lost, or is an error of a server before the ERP.
Unanswered(d) ==
    /\ direct' \in {[direct EXCEPT ![d] = s] : s \in {NotReached(d), "failed"}}
    /\ doubts' = [doubts EXCEPT ![d] = @ \cup {"unanswered"}]

PostToSap(d) == erp = "sap" /\ SapTakes /\ Book(d) /\ (Answered(d) \/ Unanswered(d))

PostToOracle(d) == erp = "oracle" /\ OracleTakes /\ Book(d) /\ (Answered(d) \/ Unanswered(d))

\* In memory, connected or not: what is booked is answered.
PostToSimulator(d) == erp = "simulator" /\ Book(d) /\ Answered(d)

\* 401 and 403 count as a lost connection.
RefuseReport(d) ==
    /\ direct[d] = "ready" /\ session.on
    /\ (erp = "sap" /\ ~SapTakes) \/ (erp = "oracle" /\ ~OracleTakes)
    /\ direct' = [direct EXCEPT ![d] = NotReached(d)]
    /\ doubts' = [doubts EXCEPT ![d] = @ \cup {"refused"}]
    /\ UNCHANGED <<erp, session, Books>>

\* The ERP refuses the report itself, or fails, as a simulator does at random; or it is
\* not reached.
LoseReport(d) ==
    /\ direct[d] = "ready"
    /\ \/ direct' = [direct EXCEPT ![d] = "failed"]
       \/ /\ session.on /\ erp # "simulator"
          /\ direct' = [direct EXCEPT ![d] = NotReached(d)]
    /\ UNCHANGED <<erp, session, Books, doubts>>

\* Mutant of QueueReport: the route answers without a commit.
QueueUncommitted(d) ==
    /\ direct[d] = "queueing"
    /\ direct' = [direct EXCEPT ![d] = "queued"]
    /\ UNCHANGED <<erp, session, Books, doubts>>

\* enqueue and commit.  A commit that raises may have happened.
QueueReport(d) ==
    /\ direct[d] = "queueing"
    /\ \/ /\ enqueued' = [enqueued EXCEPT ![d] = 1]
          /\ direct' = [direct EXCEPT ![d] = "queued"]
          /\ UNCHANGED doubts
       \/ /\ direct' = [direct EXCEPT ![d] = "failed"]
          /\ \E n \in 0..1 : enqueued' = [enqueued EXCEPT ![d] = n]
          /\ doubts' = [doubts EXCEPT ![d] = @ \cup {"cut"}]
    /\ UNCHANGED <<erp, session, posted>>

ErpServerEnds ==
    /\ session' = Disconnected
    /\ direct' = [d \in DirectCalls |-> IF direct[d] \in InFlightCalls THEN "failed" ELSE direct[d]]
    /\ doubts' = [d \in DirectCalls |-> IF direct[d] \in InFlightCalls THEN doubts[d] \cup {"cut"}
                                        ELSE doubts[d]]
    /\ UNCHANGED <<erp, Books>>

ErpCallNext ==
    \/ ConnectErp \/ DisconnectErp \/ TokensAge \/ ErpServerEnds
    \/ \E d \in DirectCalls :
         \/ CallErp(d) \/ RenewBearer(d) \/ FetchCsrf(d) \/ PostToSap(d)
         \/ PostToOracle(d) \/ PostToSimulator(d)
         \/ RefuseReport(d) \/ LoseReport(d) \/ QueueReport(d)

ErpCallSpec == ErpCallInit /\ [][ErpCallNext]_erpCallVars

-----------------------------------------------------------------------------
\* A caller told of a success has its report booked or queued: both only if the answer of
\* the ERP was lost, so that the queue will book it a second time.  A caller told of a
\* failure has neither, unless an answer was lost or the process ended.
CallsExplained ==
    \A d \in DirectCalls :
        /\ direct[d] = "posted" => posted[d] = 1 /\ enqueued[d] = 0
        /\ direct[d] = "queued" =>
              enqueued[d] = 1 /\ (posted[d] = 1 => "unanswered" \in doubts[d])
        /\ direct[d] \in {"failed", "unavailable"} =>
              /\ posted[d] = 1 => doubts[d] \cap {"unanswered", "cut"} # {}
              /\ enqueued[d] = 1 => "cut" \in doubts[d]
=============================================================================
