# Specifications of the MES server

TLA+ models of the manufacturing execution server in `src/server/src/mes` and of
the plugins it ships with (`src/server/plugins/system`), TLC configurations that
check them on small instances, and proofs checked by TLAPS. Paths below are
relative to `src/server/src/mes` unless they start with `src/`.

- [The system](#the-system)
- [Modules](#modules)
- [Runs](#runs)
- [Fairness](#fairness)
- [Proofs](#proofs)
- [Disagreements](#disagreements)
- [What is not modelled](#what-is-not-modelled)
- [Plan](#plan)

To check one run, or the proofs of one module:

    tlc -workers 2 -config WipItems.cfg MCWip
    tlapm WipProofs.tla

`PROJECT.json` lists the runs with their properties, the mutants (small changes
of the models that make each property fail), the source lines each definition
stands for, the hazards of the code and the theorems.

## The system

A FastAPI server over an SQL database (PostgreSQL, or SQLite in development).
Every HTTP request runs in one `AsyncSession`: it reads rows, changes them in
memory, flushes and commits once (`framework/db/session.py`). Nothing uses
`SELECT ... FOR UPDATE`, version columns or a stricter isolation than READ
COMMITTED. As a service the server runs as several processes
(`src/run-service.sh:390`, four unless configured), and each of them has its own
event bus, its own plugins and its own background loops.

| Component | State | Operations | Interacts with |
|---|---|---|---|
| Production orders, `core/operations` | status, quantities, two counters | create, edit, delete, release, start, complete, close | started by the creation of items, counted up by items that finish |
| WIP generator, `core/operations/wip_generator.py` | none of its own | every 5 s, makes units or a lot for each released order | creates items |
| Units and lots, `core/wip` | status, current step, equipment, history rows | create, start, complete step, move, hold, release, scrap, transfer | asks routing for the next step, counts on the order, publishes events |
| Routing engine, `core/routing` | none | first step, next step, validation | reads routes and dispositions |
| Routes and dispositions, `core/product_def` | steps, disposition lists, flags | edit, soft delete | read by routing while items travel |
| Inventory and material lots, `core/inventory`, `core/material` | lots, balances, transactions, genealogy | receive, putaway, pick, move, consume (two ways), ship, adjust, edits | receives finished items from WIP |
| Dispatch, `core/dispatch` | equipment of an item | evaluate, execute, automatic after each move | handlers of moved events, reads queue depths and equipment state |
| ERP outbound queue, `adapters/erp/queue.py` | rows with status, attempts, retry time | insert, send in batches, reset | filled by handlers of completed events, drained by a loop in `main.py` |
| ERP inbound queue, `adapters/erp/inbound_queue.py` | rows with status, attempts, retry time | insert, process, reset | creates orders and items |
| ERP adapters and direct calls, `adapters/erp` | tokens of the HTTP clients, materials | reports of clients, material import | queues what the ERP did not take |
| Equipment state and counters, `core/performance` | state log, production counters | change state, increment, upsert, purge | written by adapters and plugins, read by dispatch |
| Equipment and test adapters, `adapters`, `src/server/plugins/system` | last states, last counts, files in hand | callbacks and polls | write states, counters and test results |
| Plugins and process bridge, `framework/plugin` | plugins of this process, child process | load, start, stop, enable, disable, supervise | provides the adapters to the loops |
| Event bus and gateway, `framework/events` | handlers, WebSocket clients | subscribe, publish, broadcast | connects all of the above inside one process |
| Master data: physical model, products, materials, units, schedules, definitions, alert rules | 33 tables with keys and soft deletes | create, update, delete | read by everything else |
| Capabilities of equipment, `core/physical_model` | windows of time per type and class | create, update, delete | read by planning |
| Work schedules, `core/work_schedule` | shifts, rotations, teams, holidays | edits; working time of an interval, shift of an instant | shift names on history rows |
| Demo data, `core/demo` | none of its own | seeds, repeated at will | writes into 21 tables and receives stock |
| The rest | | genealogy queries, OEE formulas, dashboards, authentication, clients | read-only, or separate programs |

What is hard, and what correctness means, component by component:

- **Orders.** Requests that interleave read, increment and write counters
  without a lock. The counters should equal the items that finished or were
  scrapped, an order should only go forward, and no request should wait for ever.
- **Units and lots.** A dozen requests in any order, several of which write
  history rows, steps, statuses and the order's counters together. The rows,
  the step and the status must agree; nothing is counted twice; what is settled
  stays settled.
- **Routing.** There is no edge table: edges follow from lists that are edited
  one by one. What validation accepts, navigation must be able to follow, also
  when the route is edited under the items.
- **Inventory.** The same pieces are recorded in up to four places. They must
  not drift apart in ways nobody explains, and a unit must exist once.
- **ERP.** Several loops without mutual exclusion, results committed after the
  fact, answers that get lost, passes that fail half way, a list that changes while
  it is read page by page. What is marked sent must have arrived, duplicates
  must have a cause, an order from the ERP must get its pieces, a caller must
  not be told what is not so, and nothing may stay queued for ever.
- **Dispatch, events.** Handlers that run before the request that published
  the event has committed, limits that are checked and then acted upon, and a
  dictionary that is walked while others change it.
- **Equipment state, counters, machines.** A cap on the log that is global,
  increments that are not atomic, callbacks that overtake one another, and
  absolute counts that are turned into increments.
- **Plugins, bridge, files.** Settings that reach one process out of four, requests
  that check a plugin and then wait for it, a supervisor that can be cancelled while
  it starts a process, and files that two processes pick up.
- **Master data, capabilities, default routes, seeds.** Requests that look up and
  then write, with a different mix of look-ups, forms and indexes for each
  table. Keys, windows and defaults must stay unique, or the gap must be known.
- **Schedules.** A walk over days, shifts across midnight and rotations taken as a
  whole, against the plain length of the shifts in the window.

`PROJECT.json` lists every such hazard with its line and the properties that
cover it.

## Modules

    Routing --- RouteEditing           WipLifecycle (abstract)
       |                                   ^
       +------- Wip -----------------------+ refines
    OrderRequests     the requests of Wip, interleaved
    Dispatch          the equipment of the items of Wip
    CompletionReports the reports of completed steps, on their way to ErpOutbound
    Inventory         the lots and locations
    ErpOutbound --- refines --> ReportDelivery (abstract)
    ErpInbound, ErpCalls, ErpSync
    EquipmentState --- StateReports;   CounterRows --- OpcuaCounts
    Plugins, Bridge, Events, FileDrop
    TableRules --- MasterData, DemoSeed
    RouteDefaults, Capabilities, WorkTime

Where two modules share a table of the database, one of them writes what
the other takes as a step of its environment: StateReports ends where EquipmentState
begins (the open row of a machine), OpcuaCounts where CounterRows does (an increment),
CompletionReports where ErpOutbound does (a pending row). The `MC` modules
instantiate one specification each, except MCServer, MCEngineering and MCRequests, which put
several that share no state in one run, one of them in each behaviour.

### Production

**Routing** (`core/routing/service.py`). Operators over a route, which is a
record of the steps, the input and output disposition lists, the initial flags
and the active dispositions. `NextSteps` and `FirstSteps` return the set of
answers, which is empty where the code raises. `ValidRoute` has one conjunct
per rule of `validate_route`; the breadth-first search is the least set closed
under the edges. `Navigable` and `EntryAgreed` say what validation is good for.

**RouteEditing** (`core/product_def/service.py`, with the moves of one item).
Creating, deleting and flagging steps, replacing disposition lists and deleting
dispositions, interleaved with an item that enters and walks the route. Lists may
name dispositions that were deleted, because nothing checks that they were not.

**RouteDefaults** (`core/product_def`). The default route of a product is a flag of
the route, and products share routes. A request that sets the flag clears that of the
route that has it, having read it in its own transaction; requests overlap. The look-ups for one product after the other
see the flags as committed, since sessions do not flush before a query (`autoflush=False`,
`framework/db/session.py:33`): one product with two defaults makes the request fail.

**Wip** (`core/wip`, `core/operations`, with the creation of the item's stock in
`core/wip/transfer.py` left to Inventory). One request at a time: each action is a
whole handler, with every call it makes that changes state. Units and lots have
the same life cycle in two classes of the code and are one set `Items` here;
where they differ (completing a step) there are two actions. Of the history rows
the model keeps what later requests query: the number of open rows per step, and
the step of the row closed last. The column `current_equipment_id` belongs to Dispatch.
A request that raises changes nothing, so it has no action.

**WipLifecycle** is what all that should look like from a distance: orders go
through stages one way, items join orders that are released or running, and
an item gets one final fate. `Wip` implements it under the mapping at the end of
the module.

**OrderRequests** (`framework/db/session.py`, and the unit and order requests).
The same requests as transactions: the read of the unit, the read of its order, the
flushes and the commit are steps that interleave with those of other requests. A
request keeps the values it read; an UPDATE takes the row's lock and holds it until the
commit or the rollback, and writes only the columns that changed. Inserting a
serial number waits for a request that inserted the same one. A request may
fail at any point. Two ghost variables note which requests overlapped and
which committed a settlement.

**Dispatch** (`core/dispatch`, with the requests of `core/wip` that write the same
row). Transactions as in OrderRequests, here about the step, status and equipment of an
item. A move announces itself (`Publish`) before it commits; the handler of the
event (`Handle`, `Drop`) compares the step of the event with the row as committed,
evaluates and assigns. Between evaluation and assignment the queues are checked
again, between that and the commit they are not. Operators name equipment at a
start without any check and in `POST /dispatch/execute` with a check of its queue but
not of its step; a start without equipment dispatches in its own session.
`_publish_after_commit` promises events that follow the commit; the model lets them
come before it, as the comment above that function explains they do. The ranking of
options is abstracted, and the SELECTs of one evaluation count as one moment. Ghost
variables note on which items two transactions met, for which an operator chose, for
which dispatch was given up, and how often a queue was joined past its check.

**Inventory** (`core/inventory/service.py`, `core/material/service.py`). Lots
with their balances, the sum of their transactions per location and the sum of
their genealogy. Quantities are integers, floats in the code, so rounding is
abstracted. One request at a time. Two ghost variables note which on-hand
quantities an operator overwrote, and which lots had their status or tracking
edited by hand.

### ERP

**ErpOutbound** (`adapters/erp/queue.py`, `main.py`). Rows and the loops of
several processes. A loop reads a batch of the oldest due rows (`Select`), sends
them one by one, each of which may be accepted, refused, or accepted without an
answer, and then writes all results in one commit (`Save`), unless it is lost
before (`Lose`). Because only changed columns are written, a stale result
overwrites a newer one only where it differs from what the loop had read; `Save`
models that. The clock is one action (`Elapse`) that ends the waiting time of a
row. Operators reset failed rows in two steps, a read and a write. Ghost
variables count how often the ERP took a report and how often something happened
that lets it be taken once more.

**ReportDelivery** is what the queue promises, without loops, batches, attempts and
delays: a report waits, arrives at most once while it does, is called sent only then,
and for good; one that was given up may be asked for again. Each excuse allows one copy
more, and lets a report that was settled be written again; it is neither lost nor called
sent before it arrived. `ErpOutbound` implements it (`RefinesDelivery`), with the
rows in `pending` or `retry` as waiting and the lapses as excuses. Several reports may
move in one step, since a batch is saved or lost as a whole.

**CompletionReports** (`core/wip/service.py`, `adapters/erp/handlers.py`). One visit of
one item to one step. The request closes the history row and awaits the handlers of
the completed event; the handler commits the report in a session of its own, and only
then does the request commit, or roll back.

**ErpInbound** (`adapters/erp/inbound_queue.py`, `core/demo/order_processors.py`,
`core/operations/wip_generator.py`). Copies of one ERP order in the queue, the loops that turn a
copy into an order with its pieces, and the generators that make the pieces of
released orders that have none. A pass of a loop is one session; a processor that fails
half way keeps what it had inserted, since it has no savepoint. A session that inserts
a number another one has inserted and not committed waits for it.

**ErpCalls** (`adapters/erp/routes.py`, the SAP and Oracle adapters). One report of a
client: the bearer token with its renewal, the CSRF token that is fetched once, the call,
its retry, its answer, and the queue that takes what seems not to have arrived.

**ErpSync** (`adapters/erp/routes.py`). The import of materials: the list is fetched
page by page while the ERP changes it, then every material is looked up and
updated in one transaction. Imports overlap.

### Equipment, plugins, events

**EquipmentState** (`core/performance/service.py`, `engine.py`). A change of state closes
the open row of the equipment and inserts an open one; requests read the log and write it
later. Ghost variables keep the row of each equipment's latest change, and count the changes that were
written without having read the one before. The log is cut to `LogCap` rows over all equipment, open or not. The state models
of the two availability plugins are written out, and TLC evaluates with every run of MCServer
that from each of their states every other can be reached (`NoTrap`).

**StateReports** (OPC UA, Modbus and AVEVA plugins with their adapters). Callbacks and polls
report the state of one machine; each drops what it was told last, remembers
the rest and then records it.

**CounterRows** (`core/performance/service.py`). The rows of one equipment, order
and day, incremented and replaced by sessions that select first and write at their
commit. Ghost variables bound what the rows may show together from either side.

**OpcuaCounts** (`src/server/plugins/system/packml_opcua_counters`). From absolute counts
of a machine to increments, by subscription or by polling.

**Plugins** (`framework/plugin/manager.py`, `routes.py`). What runs in one process, against
the rows that record what should; requests await the plugin between check and commit, and
the process restarts.

**Bridge** (`framework/plugin/base.py`, `src/server/plugins/system/kafka_java_bridge`). The
child process, its monitor, and the start and stop of the plugin, which may cancel the
monitor at any await. A process is started in a thread that a cancellation does not stop.

**Events** (`framework/events/gateway.py`). A broadcast walks the dictionary of connections
with its holes, and awaits every send; connections come and go.

**FileDrop** (`src/server/plugins/system/file_drop_test_results`). The pollers of several
processes list, read, insert and move the same files.

### Master data

**TableRules** says of each of the 33 tables which look-ups its service makes, which requests its
routes serve, which of its forms carry the key, and which rows its unique index
compares. **MasterData** is one machine for the requests of any of them: a request first
reads (parent, row, rows with the same key) and later writes and commits.

**Capabilities** (`core/physical_model`). Windows of one group, which create and update
compare with the active ones before they write. A window may be open at either end.

**DemoSeed** (`core/demo/service.py`). One key of any of 21 tables, or one lot, through
seeds that are repeated, overlap, and meet what users have done to the rows.

**WorkTime** (`core/work_schedule/service.py`). The working time of a team between two
instants, walked day by day as the code does it, less the holidays, gone through by their start until one
reaches the end, and the shift at an instant, each against a reference that counts ticks.

Some definitions of the models are followed or preceded by a second one whose
comment says "Mutant of ...": the same definition with a plausible mistake. No
specification uses them.

## Runs

| Run | Instance | Shows |
|---|---|---|
| `wip_items`: `WipItems.cfg`, MCWip | 2 orders (one discrete, one batch), 2 units, 1 lot; machine, test, pack with a rework loop; quantities, counts and open rows up to 2 | history rows only at the current step; an item has a step exactly while its status says so; counters equal the items; settled items stay; implements WipLifecycle |
| `requests`: `Requests.cfg`, MCRequests | 3 requests on 2 units of 1 order; or 2 processes with 1 report, 3 attempts, 1 fault, 1 reset; or 2 processes with 2 reports, 3 attempts and batches of one | counters lose only what overlapping requests wrote; transitions are legal without overlap; every request ends; every duplicate has one of four causes, and without them a report is delivered exactly once (implements ReportDelivery); a report is sent or given up, and keeps no other from its turn |
| `inventory`: `Inventory.cfg`, MCInventory | 1 lot, a RIP location and 2 shelves, quantities up to 2, 2 receipts | on-hand agrees with the balances once synchronised; a unit is in one place and used once; balances never exceed the transactions; what they fall short of is in the genealogy; what is gone stays gone |
| `dispatch`: `Dispatch.cfg`, MCDispatch | 3 transactions, 2 items, 2 steps, 2 machines with one place each, one with a state log | a queue exceeds its limit only by racing dispatches, unchecked starts and returns from hold; an item is at equipment of its step; an item without equipment has a cause |
| `server`: `Server.cfg`, MCServer | 11 parts, 2 processes or requests of each kind | one property for each part, and three for the inbound queue: see below |
| `engineering`: `Engineering.cfg`, MCEngineering | 8 parts; 3 steps and 2 dispositions; 2 rows, 2 keys and 2 requests for each of the tables; days of 4 ticks, 6 rotations | see below |
| `wip_two_rows`: `WipTwoRows.cfg`, MCWip | 1 order, 2 units | violation: an item that was started twice cannot move |
| `route_retired`: `RouteRetired.cfg`, MCRouteEditing | as in `engineering` | violation: an item ends its route at a step that is not terminal |
| `order_lost_update`: `OrderLostUpdate.cfg`, MCOrderRequests | as in `requests` | violation: an increment is lost |
| `inventory_ledger`: `InventoryLedger.cfg`, MCInventory | as `inventory` | violation: consumption leaves the transactions behind |
| `working_time`: `WorkTimeExact.cfg`, MCWorkTime | windows of up to four days, no holidays | violation: the working time is not the length of the shifts |
| `modbus_states`: `ModbusStates.cfg`, MCStateReports | 1 machine with 3 states, 2 callbacks | violation: the state of a Modbus machine is never recorded |

What the parts of `server` show:

- *inbound*: a copy marked processed has its order (`ProcessedMeansOrder`); an order has fewer
  or more pieces than ordered for one cause each (`PiecesExplained`); two open copies of one order
  have a cause (`DoubledCopiesExplained`).
- *states*, *reports*: the row of an equipment's latest change is open until the cap deletes it as the
  oldest of all, and there is one open row more at most for every change that had not seen the one before it
  (`LogFollowsEquipment`); once reports have settled the log shows the state of the machine, but for the
  named causes (`LogFollowsMachine`).
- *counters*, *opcua*: what the rows of a key show lies between what must be left and what can have been
  doubled when sessions overlap, and is exact where none did (`CountersAddUp`); only the kind notified second
  can be overcounted, and by how much (`OvercountExplained`).
- *plugins*, *bridge*: what runs is what the row says (`RunsAsRecorded`), and the process follows the
  plugin (`BridgeFollowsPlugin`).
- *events*, *files*, *completions*, *calls*: a browser misses an event only where an insertion
  closed the holes of the dictionary behind the walk, and a walk breaks off only if somebody came or went
  (`MissedExplained`); when a
  result is there twice or a file is filed wrongly (`ResultsExplained`), when reports and completions
  differ (`CompletionsReported`), and what a caller may believe (`CallsExplained`).

What those of `engineering` show: a route that validates navigates and has one entry, whatever
edits led to it (`ValidRoutesNavigate`, `ValidRoutesAgreeOnEntry`); keys shared, requests refused and rows
adopted in a table only where its rules leave room (`MasterDataExplained`); overlapping windows
(`OverlapsExplained`), second defaults (`DefaultsExplained`), materials an import misses or sets
back (`SyncExplained`) and what repeated seeds double (`SeedsExplained`) have named causes; the working
time is the reference plus three errors, holidays take off their union at least and their sum at most though
the loop over them ends early, and the shift of an instant is the one under way but in the hours after
midnight (`SchedulesExplained`).

Deadlock is not checked where the bounds let the system stop (all requests made,
all items settled), which is in every run. The type invariants of the modules are theorems, and
are not checked again by the runs.

Why the bounds are enough to be interesting:

- Two units are needed for an order whose items are in different states; a loop
  in the route makes a step be visited twice; two open rows are what the close
  queries cannot deal with. `MaxCount` and `MaxQuantity` bound numbers the actions
  only add. The constraint `OneOrder` follows a batch order with its lot or a discrete order with
  its units: orders share nothing but the route.
- Three steps and two dispositions give routes with a branch, a loop, a step that
  nothing leads to, two steps fed by one disposition and lists that name a
  deleted one. Only one step may be flagged or deleted and only one disposition
  deleted, which bounds the run and none of the proofs.
- Three requests let one overlap two others one after the other, which is what it
  takes for a counter to lose more than one increment. `ArriveInOrder` lets the
  requests arrive in one order only; it stands in for symmetry, which is unsound with liveness.
- Two loops give stale writes, a batch that is lost and a reset in between. Two reports
  and batches of one make one report wait for the other's retries. With two faults, or with faults and two
  reports together, the state space is out of reach for a run of minutes; the proofs of the safety properties cover them.
- In inventory, what is interesting happens to one lot: lots share nothing but
  the locations. Three locations allow a split over two and a third that is drawn
  from first. Counts include a negative one, because an adjustment accepts it.
- Three transactions are a move, the handler of its event, and one more that meets
  either of them. One place per machine makes any second item a queue that
  overflows; the second step can only be done by one machine.
- Two pieces are one more than a failure half way; two attempts are a retry and a give-up; a log
  of two rows for two equipments is cut as soon as one of them changes twice, for which one name of a state is
  enough, as the rows differ by their start; three loads are a
  start, a restart and an enable that overlap; three quick exits are the bridge's own limit;
  three browsers and three entries let one go before the walk, leave a hole, and another's coming close it
  while a third is still owed the event.
- Two rows and two keys are what a unique index is about; two requests are what can overtake each
  other. One page of one material and one new version make a list change between two pages. Days of
  four ticks have shifts within a day, across midnight and of a whole day; the windows cover
  less than a day up to more than two rotations.
- `BoundRaces` follows the state log through one change that had not seen the one before it;
  `BoundCopies`, `BoundPulls` and `BoundImports` let less happen at once where two of everything would be
  out of reach, and `BoundSteps` forgets lists nothing reads. The theorems know none of these bounds.

The units, the shelves, the items and transactions of `dispatch`, the equipment and the
processes of `server` and the keys and requests of `engineering` are symmetric: nothing in the
specifications tells them apart.

## Fairness

Nobody has to make a request, and events are lost when the server stops: nothing is
fair, except in two modules.

`OrderRequests`: weak fairness of `Proceed(r)` for each request. The server goes on
with a request it has begun, and a lock wait ends when the holder of the lock does; a
commit is never refused at READ COMMITTED. Starting requests and failing are
not fair. With it `EveryRequestEnds`.

`ErpOutbound`: weak fairness of reading a batch, sending or saving for each
process, since `_outbound_queue_loop` sleeps a fixed time and catches every
exception; and of `Elapse` for each report, since time passes. Whether the ERP accepts is
not fair, nor are completed steps, resets, faults or the start of a plugin.
`QueueDrains` assumes in its premise that some process keeps its plugin.

## Proofs

The theorems hold for every value of the constants that satisfies the
assumptions stated in the modules: sets disjoint where the rows are different
tables, finite where the code holds finitely many rows, bounds natural numbers. TLC
evaluates the assumptions with each run. Every safety property of the runs that pass is a
theorem; so are the three action properties and the two refinements. Each was checked by TLC first, with its inductive invariant.

**Sums.** What the fold behind a sum over a set computes: nothing for the empty set, one term
more for one member more, in any order; and from that, sums of parts, of changed functions
and of bounded terms. Induction over finite sets is stated with the property as the set of the subsets
that have it (`SetInduction`), because a property that is an operator is beyond the
provers, and is proved by a least counterexample. Sums over an interval of numbers are taken term by
term (`SumOfInterval`), moved (`SumMoved`) and split (`SumInParts`) by induction over the natural numbers,
stated in the same way (`CountingUp`).

**WipProofs.** The properties of the run are not inductive one by one. Whether a move may leave an item
at another step with no row left behind depends on all open rows being at the step it leaves,
and on the close query refusing more than one. `IInv` joins types, rows, steps, orders, and the
accounting. `Decomposition` flattens `Next` into kinds of steps; one lemma per action shows that
it keeps `IInv`. `OrderAccounting` is kept because an item is counted on its order when it enters the
settled states, and from then on keeps its quantity and its order; `Sums` turns that into the
two counters. `SettledItemsStay` goes through the actions with `IInv`: each that changes
an item has a guard on its status, except the insertion, which needs the item to be absent.
`Refinement` maps each kind of step to an action of `WipLifecycle` or a stutter: for a
transfer of a completed item the fate stays `good`; an insertion maps to `Join`, for which the
order must be released or running.

**InventoryProofs.** The books: each movement enters in the transactions what it does to the
balances, and only the direct consumption takes from the balances alone, by a nonnegative
amount. This is half of the docstring that `inventory_ledger` refutes: the two sides part,
but in one direction only. The totals: `LotOK` is kept by every request for each lot. It says that the
on-hand quantity nobody overwrote is the sum of the balances, that balances and recorded use
make up at least what the transactions say, and of a lot tracked by units that nobody edited that it is
at one location at most, at none once it is gone. `GoneUnitsStay` goes through the requests
with it.

**DispatchProofs.** While an item has not been seen by two transactions at a time, the one that is on
it still sees the row as it is, so that what it writes is what it worked out: equipment of the step it
wrote, and an item that waits without has been announced or is in somebody's hands. That a queue keeps
its limit, but for the joins past the check, is inductive by itself once the types are known.

**ErpProofs.** *Outbound*: a budget. What the ERP has of a report, what the loops that hold it may
still send, and what the next loop to read it may send, are together at most one more than
its lapses. For the refinement (`DeliveryRefined`) it is not enough: what a loop writes may overwrite what
became of the row since. `Undisturbed` says that the row is still open then or has a lapse, which
is inductive only with the fact that a row in two batches has one. `ReportStep` maps each action to
a step of the delivery, the arrival by the budget. *Inbound*: at most one session has written an order and not committed; its pieces are
numbered from one, what a session has not committed are the next numbers, and a generator that counted
before others committed is in `late`. *Import*: the part of the list before the offset has been read
while the list stays; what was read is no newer than the ERP and, while the sync is alone, no
older than a row has ever been.

**ServerProofs.** *Orders*: the counter a request has read lies between the settlements committed by
requests that ran alone and all settlements; a request that runs alone still finds the rows as it read
them; locks are held by requests in flight only. *Events*: a walk whose dictionary kept its holes
owes the event only to browsers it has not passed: a browser that goes leaves a hole where it stood, one that comes
is entered at the end, and only an insertion that closes the holes moves entries to where the walk has been. A walk that
breaks off has found another number of connections than it began with, so somebody came or went. *State log*: every
open row but the latest is charged to a change that was written without having read the one before it, and the
cap deletes the latest only with none older in the log. *Counters*: what a session holds is the rows as they were
when it read them, so that what it writes is its own amount on top of counts between the bounds; a session
that was overtaken may undo what others wrote since, which the lower bound does not count, and the upper bound
counts every amount. *Completions, calls*: a session that no other overlapped writes what it read, plus its own.

**PluginProofs.** *Counts*: what was counted and what the machine shows are together at most what it
made, the last-known count, and the allowance of the kind notified second. *Machine states*: a callback
that was never disturbed is the only one and carries what was heard last; without callbacks and causes,
what was heard was remembered and recorded. *Files*: where each
poller is with a file, against where the file and its results are. *Bridge*: without an orphan
nothing runs that the handle does not name, and a started plugin has a monitor, which goes only for a reason.
*Plugins*: a request that nothing disturbed sees the row as it is, and the plugin runs as that
request has got it so far.

**EngineeringProofs.** One argument for master data, windows, defaults and seeds: a request no commit overtook
still sees what it looked up, and one that was overtaken marks the row it writes. For master
data it is carried out once, from a few facts that hold of the rules of every table (`RulesOfTables`, and
`RulesOfSeeds` for the seeds), so that a further table only has to be added to these lemmas. *Routes*: in a valid route every output is
the input of some step, of at most one, so that the destinations are a singleton; the
dispositions being active, the step offers it; one entry makes both rules pick the same.
*Seeds*: rows stay as far apart as the look-up or the index keeps them, a deleted row means users
deleted it, and pieces are at booked places only. *Working time*: the reference counts ticks, so it is a sum
over the days of what each shift has in the window (`TicksOfDays`). The walk does not add these one
by one: it adds a night shift in two parts, and a whole rotation at once. `WalkInv` is the account: what is
worked is what the days since the evening before have in the window, plus the last day of every
rotation taken as a whole, less what is left of the last shift. A day keeps it because what the walk adds on a morning is what was left
(`RemainderOfDay`) and what it adds for the day is its part before midnight (`TodayIs`). A whole
rotation keeps it because its list of entries has the days and the time its segments sum to
(`RotationIs`, over the library's flattening), so that it is the days it skips and its last day
again (`RotationTaken`). *Holidays*: the periods the early end leaves out
start no earlier than the one it stops at, which reaches the end of the window, so that what is gone through covers
the rest; a sum over sets of ticks is no less than the size of their union (`UnionNoMore` in Sums). Of the shift of an instant nothing has to be summed up: it is a comparison of
times of day, on two days (`InstantExplained`).

Only model-checked is liveness: `EveryRequestEnds` and `QueueDrains` rest on fairness, hence on `ENABLED`.

## Disagreements

Six runs end in a violation, on purpose. Each states what a comment or docstring
of the repository says and finds a behaviour of the code that differs:

- `wip_two_rows`: `move_unit` closes "any open history record" but reads with
  `scalar_one_or_none`, which raises when there are two: `start_unit` admits an item that
  is in process already, and adds a row at each start.
- `route_retired`: a step with an empty output list is terminal, and so becomes a
  step whose only disposition was soft-deleted, on a route that still validates.
- `order_lost_update`: the counters of an order are incremented, unless two requests
  do it at the same time.
- `inventory_ledger`: transactions should add up to the balance, but the material
  endpoint consumes without recording one.
- `working_time`: the walk should add the shifts clipped to the window; it counts the last day of
  a rotation again when it skips one, the whole rest of a night shift on the last day,
  and a shift of a whole day that starts where the window ends.
- `modbus_states`: the Modbus plugin should track availability; it calls
  `record_state_transition`, which `core/performance/engine.py` does not have, and only logs the error.

Smaller ones, which the models follow and no run is about:

- `src/server/plugins/system/packml_opcua_counters/plugin.py:12-14` promises increments by the difference; what
  holds instead is `OvercountExplained`.
- The comment at `src/server/plugins/system/stomp_jms/plugin.py:58` says that the plugin manager injects the event
  bus; nothing does. `reconnect_attempts` of its manifest is not used.
- Nothing calls `subscribe_tag` of the MQTT and STOMP adapters. `mqtt_counters` would count a message once
  per server process.
- `_assert_no_capability_overlap` (`core/physical_model/service.py:898-911`) says that a null end is +infinity, but
  compares a new window without an end only with the windows without a start; one of the causes in
  `OverlapsExplained`.
- The AVEVA poll loop compares values without their quality or time (`adapters/historian/aveva/adapter.py:466`).
- `health_check` of the ERP adapters takes a refusal (401, 403) for health; the simulators validate
  nothing, and that for SAP applies `since` to the planned start.
- No shipped plugin has companions of type plugin, so the loops over them in `framework/plugin/routes.py` have
  nothing to do.

## What is not modelled

- **Genealogy, OEE, dashboards:** read-only queries and arithmetic on floats.
- **Schedules and responses of orders, BOMs, parameters, recipes, requirement rows, actuals:**
  records that are written and displayed and on which no modelled guard depends. Their tables with keys
  are in MasterData.
- **Units of measure, data collection:** the tables are in MasterData; conversions and range checks
  are on floats.
- **Interleaved movements of inventory**, except receipts with seeds (DemoSeed): Inventory runs one request at a
  time.
- **Transforms of the ERP adapters, wire protocols of the equipment adapters:** field mappings and external
  libraries.
- **Authentication:** every request is taken as permitted.
- **Server start-up, command line, clients, browser tests:** wiring, and separate programs that
  call the REST interface.

`PROJECT.json` says for every component what of it is modelled.

## Plan

1. The movements of Inventory as interleaved transactions, in the manner of OrderRequests: two
   consumptions that read one balance, a pick that meets a count.
2. An abstract specification of the inbound queue, as ReportDelivery is one of the outbound queue.
