---------------------------- MODULE RouteDefaults ----------------------------
(***************************************************************************)
(* The default route of a product, which the orders of the product travel  *)
(* unless they name another.  It is a flag of the route, and routes are    *)
(* shared by products: a request that sets the flag first clears that of   *)
(* the route that has it, for every product of the route, having read it   *)
(* in its own transaction.                                                 *)
(***************************************************************************)
EXTENDS Naturals, FiniteSets

CONSTANTS RouteIds, ProductIds, RouteEditors

VARIABLES routesMade,  \* active routes
          default,     \* routes with the flag
          serves,      \* active assignments, pairs of a route and a product
          editing,     \* [RouteEditors -> request]
          arrived,     \* pairs assigned when the route already had the flag
          overtaken    \* routes that got the flag after another request committed

defaultVars == <<routesMade, default, serves, editing, arrived, overtaken>>

Resting == [op |-> "none"]
Edits == {Resting} \cup
    [op : {"create", "standalone", "set", "importFirst", "importNext"}, route : RouteIds, products : SUBSET ProductIds,
     clear : SUBSET RouteIds, late : BOOLEAN]

RouteDefaultsTypeOK ==
    /\ routesMade \subseteq RouteIds
    /\ default \subseteq routesMade
    /\ serves \subseteq routesMade \X ProductIds
    /\ editing \in [RouteEditors -> Edits]
    /\ arrived \subseteq serves
    /\ overtaken \subseteq RouteIds

RouteDefaultsInit ==
    /\ routesMade = {} /\ default = {} /\ serves = {}
    /\ editing = [q \in RouteEditors |-> Resting]
    /\ arrived = {} /\ overtaken = {}

\* The default routes of a product; more than one makes every look-up fail.
DefaultsOf(p) == {r \in routesMade \cap default : <<r, p>> \in serves}

ProductsOf(r) == {p \in ProductIds : <<r, p>> \in serves}

\* Reading: the routes whose flag must go.  The session does not flush before a query, so
\* each look-up sees the flags as committed, whichever product was cleared before it, and
\* fails for a product with two.
AskDefault(q, op, r, products) ==
    /\ editing[q].op = "none"
    /\ \A p \in products : Cardinality(DefaultsOf(p)) <= 1
    /\ editing' = [editing EXCEPT ![q] =
            [op |-> op, route |-> r, products |-> products,
             clear |-> UNION {DefaultsOf(p) : p \in products}, late |-> FALSE]]
    /\ UNCHANGED <<routesMade, default, serves, arrived, overtaken>>

NewRoute(r) ==
    /\ r \notin routesMade
    /\ \A q \in RouteEditors : editing[q].op # "none" => editing[q].route # r

AskCreateDefault(q, r, p) == NewRoute(r) /\ AskDefault(q, "create", r, {p})

AskCreateStandalone(q, r) == NewRoute(r) /\ AskDefault(q, "standalone", r, {})

\* Mutant of AskSetDefault: the flag is cleared for one product of the route only.
AskSetDefaultOfOne(q, r) ==
    /\ r \in routesMade \ default
    /\ \E p \in ProductsOf(r) : AskDefault(q, "set", r, {p})

\* Setting a flag that is set already changes nothing.
AskSetDefault(q, r) ==
    /\ r \in routesMade \ default
    /\ AskDefault(q, "set", r, ProductsOf(r))

\* sync_routes_from_erp, for a route the product does not have: the flag if it is the
\* first one.  (With two routes or more the query for the others fails, and the import.)
AskImport(q, r, p) ==
    LET others == {s \in routesMade : <<s, p>> \in serves} IN
    /\ NewRoute(r) /\ editing[q].op = "none"
    /\ Cardinality(others) <= 1
    /\ editing' = [editing EXCEPT ![q] =
            [op |-> IF others = {} THEN "importFirst" ELSE "importNext", route |-> r,
             products |-> {p}, clear |-> {}, late |-> FALSE]]
    /\ UNCHANGED <<routesMade, default, serves, arrived, overtaken>>

\* Writing and committing what was decided then.
OthersLate(q) ==
    editing' = [p \in RouteEditors |->
                  IF p = q \/ editing[p].op = "none" THEN Resting
                  ELSE [editing[p] EXCEPT !.late = TRUE]]

WriteDefault(q) ==
    LET m == editing[q] IN
    /\ m.op # "none"
    /\ default' = (default \ m.clear) \cup (CASE m.op = "set"        -> {m.route} \cap routesMade
                                             [] m.op = "importNext" -> {}
                                             [] OTHER               -> {m.route})
    /\ IF m.op = "set"
       THEN UNCHANGED <<routesMade, serves>>
       ELSE /\ routesMade' = routesMade \cup {m.route}
            /\ serves' = serves \cup ({m.route} \X m.products)
    /\ overtaken' = IF m.late THEN overtaken \cup {m.route} ELSE overtaken \ {m.route}
    /\ OthersLate(q)
    /\ UNCHANGED arrived

RollBackEdit(q) ==
    /\ editing[q].op # "none"
    /\ editing' = [editing EXCEPT ![q] = Resting]
    /\ UNCHANGED <<routesMade, default, serves, arrived, overtaken>>

(***************************************************************************)
(* Requests with nothing to read that matters here: one step each.  Those  *)
(* under way become late.                                                  *)
(***************************************************************************)
Overtake ==
    editing' = [q \in RouteEditors |->
                  IF editing[q].op = "none" THEN Resting ELSE [editing[q] EXCEPT !.late = TRUE]]

ClearDefault(r) ==
    /\ r \in routesMade \cap default
    /\ default' = default \ {r}
    /\ Overtake
    /\ UNCHANGED <<routesMade, serves, arrived, overtaken>>

Assign(r, p) ==
    /\ r \in routesMade
    /\ <<r, p>> \notin serves
    /\ serves' = serves \cup {<<r, p>>}
    /\ arrived' = IF r \in default THEN arrived \cup {<<r, p>>} ELSE arrived
    /\ Overtake
    /\ UNCHANGED <<routesMade, default, overtaken>>

Unassign(r, p) ==
    /\ <<r, p>> \in serves
    /\ serves' = serves \ {<<r, p>>}
    /\ arrived' = arrived \ {<<r, p>>}
    /\ Overtake
    /\ UNCHANGED <<routesMade, default, overtaken>>

\* What is left of a deleted route is seen by no query: it is as if it had not been made.
DeleteRoute(r) ==
    /\ r \in routesMade
    /\ routesMade' = routesMade \ {r}
    /\ default' = default \ {r}
    /\ serves' = serves \ ({r} \X ProductIds)
    /\ arrived' = arrived \ ({r} \X ProductIds)
    /\ Overtake
    /\ UNCHANGED overtaken

RouteDefaultsNext ==
    \/ \E q \in RouteEditors, r \in RouteIds :
         \/ \E p \in ProductIds : AskCreateDefault(q, r, p) \/ AskImport(q, r, p)
         \/ AskCreateStandalone(q, r)
         \/ AskSetDefault(q, r)
    \/ \E q \in RouteEditors : WriteDefault(q) \/ RollBackEdit(q)
    \/ \E r \in RouteIds :
         \/ ClearDefault(r) \/ DeleteRoute(r)
         \/ \E p \in ProductIds : Assign(r, p) \/ Unassign(r, p)

RouteDefaultsSpec == RouteDefaultsInit /\ [][RouteDefaultsNext]_defaultVars

\* A product has two default routes only when one of them was assigned to it with the
\* flag already set (assigning clears nothing), or got the flag in a request that
\* another one overtook.  From then on the orders of the product find no route, and no
\* other route of it can be made the default.
DefaultsExplained ==
    \A p \in ProductIds :
        Cardinality(DefaultsOf(p)) > 1 =>
            \E r \in DefaultsOf(p) : <<r, p>> \in arrived \/ r \in overtaken
=============================================================================
