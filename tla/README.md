# Nulstar: TLA+ specifications

Nulstar is a microservice platform in C++/Qt. Every service is a process with one
event loop. A *service manager* keeps the registry of the others; they connect to
it over WebSockets, negotiate a protocol version, register their API with the
roles they offer and the roles they depend on, and are told where their
dependencies listen. A *connector* passes requests of outside clients on, the
*main controller* starts and stops the processes.

Handlers run to their end one at a time, so no data is shared between threads.
What is hard is elsewhere: which message, disconnection or timer a loop serves
first; signals that run slots synchronously, so that a handler is entered again
while an outer call still iterates the same list; nested event loops; processes
that stop, restart or leave while somebody keeps their name, address or request.

## Inventory

| Component | State | Operations | Interacts with | Hard | Correct when |
|---|---|---|---|---|---|
| **Service manager, registry** (`NServiceManagerController`) | pending and active registrations, retry counters, event queue | `RegisterAPI`, `fFindDependencies` (0.5 s timer), `fOnWebSocketDisconnected`, `GetConsolidatedAPI` | its comm server (closes connections, is told of disconnections), every service | a disconnection closes the dependents' connections, which disconnects them, and so on inside the same call; dependencies may be satisfied by modules that only wait themselves | active modules' dependencies are registered; no entry outlives its connection; subscribers know the current registry; a module that can start does |
| **Service manager, forwarding** | forwarded requests with the connection they came from | `ForwardMessage`, `fProcessResponse` | connector, the target module | late, lost and repeated answers | each answer reaches the request it belongs to |
| **Connection table** (`NWebSocketServer`) | name → socket | accept, negotiate, request, send, close, disconnected | `NCoreService` | names are clock readings; closing runs the disconnected slot inside the close; answers come late | answers and reports concern the right connection |
| **Request dispatch** (`NCoreService`) | subscriptions by message id | `fInvokeMethod`, `sEventTriggered` | methods of the service | several methods per request, colliding ids, events while clients come and go | a client gets the responses it asked for, and no more |
| **Service client** (`NCoreService`, `NWebSocket`) | sockets, negotiation state, retry timers | connect, negotiate, register, retry, connect to dependencies | service manager, dependencies | restarts at the other end noticed late; a timer that runs while the connection is open | it registers again after every failure, once per connection |
| **HTTP bridge** (`NConnectionController`) | nested event loops, one per HTTP request | route, timeout, response | forwarding | loops end in reverse order; an answer and a timeout race | a client gets the answer to its own request |
| **Downloads** (`NDownloader`) | downloads by id, timers | download, progress, finished, error, timeout | updater | `abort()` runs the finished handler inside the timeout handler | a download finishes, or fails and can be started again |
| **Module processes** (`NMainController`) | processes by name and version | start, stop, start all, stop all, shut down | operating system, forwarding | nested event loops, crashed processes | what it believes to run runs, and only once |
| **Module manager** (`NModuleManager`) | module infos | scan, read configuration, last version | main controller | merge of defaults and settings, version order | the newest version and the merged settings |
| **Run guard** (`NRunGuard`) | shared memory segment, semaphore | try to run, release | other processes | check and creation are two critical sections | at most one instance runs |
| **Updater**, `NVersionManifest` | installed and latest manifest, check timer | check, verify, `checkupdates` (installing is empty in the code) | downloads | one step of several fails, versions are published meanwhile | a new version is announced in the end |
| **HTTP server** (`QAbstractHttpServer`, `QHttpServerRequest`, the router, `http_parser`) | parser state, the request being built, the socket's signals | read, parse, call back, choose a rule | HTTP bridge | a request comes in pieces; numbers near their limits; errors in the middle | a request reaches the rule as it was sent |

Left out for good: `NApiBuilder` (reflection), `NLogger`, `NSignalWatcher` (I/O),
`Tester` and `StatsManager` (a manual client and stubs). The hazards, each at its
line, are listed in `PROJECT.json`.

## Modules

| Module | Models |
|---|---|
| `ModuleRegistry` | what the service manager promises: modules join, become active when their dependencies are members, leave without leaving anybody active unsatisfied |
| `ServiceManager` | the registry as it is programmed, with the connection table and the event queue as far as they matter to it |
| `ServiceManager_proofs` | theorems about these two |
| `NWebSocketServer`, `NWebSocketServer_proofs` | the connection table with its names, and theorems about it |
| `RequestDispatch`, `RequestDispatch_proofs` | request execution and event subscriptions |
| `ServiceClient`, `ServiceClient_proofs` | the client side: connect, negotiate, register, retry; the proofs also hold those about `NRunGuard` |
| `Forwarding` | what a client that asks for methods of modules is promised, without processes and queues |
| `MessageForwarding`, `MessageForwarding_proofs` | a request's way through connector, service manager and module and back, over HTTP or WebSockets |
| `HttpUrl`, `HttpParser` | `http_parser`: URLs, and the state machine for requests |
| `HttpServer`, `HttpServer_proofs` | one HTTP connection: fragments, parser, request object, router (EXTENDS `HttpParser`) |
| `NModuleManager` | the module manager as operators over what is installed |
| `NMainController`, `NMainController_proofs` | the main controller's process (EXTENDS `NModuleManager`) |
| `NDownloader` | the downloader as a value, one operator per handler |
| `NUpdateController`, `NUpdateController_proofs` | the updater with its downloader (INSTANCE of `NDownloader`) |
| `NRunGuard` | the single-instance guard |
| `MC...` | instances of these for TLC |

### ServiceManager

An action is a handler with everything it calls. The registry key
`"name|socket"` is represented by the connection, `moduleOn` says which module is
behind it, and `ModuleRoles` and `Dependencies` give the roles, each in one of its
versions, as sets.

* `Accept`, `RegisterAPI`, `GetConsolidatedAPI` are the slots of the same names.
* `fFindDependencies` is one pass of the search timer over a copy of the pending
  list. Activations during the pass only move modules from one list to the
  other, so which modules are satisfied does not depend on the order; which of
  several providers is named does, and is left open. `CountersAfterSearch`
  leaves the counters alone: the code increments those of the copy.
* `fSocketDisconnected` is a disconnection with its whole cascade. `close()`
  emits `disconnected()` before it returns, so the slot runs inside the loop that
  closes dependents. The recursion ends because a socket has left the table
  before its slot runs; `ClosedFrom` states its result, the least set closed
  under "an active dependent of a closed, registered module is closed".
  With `CanStall`, a peer that does not read can keep the last bytes from being
  written; then the `NWebSocket` is destroyed before `disconnected()` comes, the
  registry is never told, and the cascade does not continue from there (`stuck`).
* `mMessageRequestEventQueue` is keyed by message id, as in `NCoreService`: a request
  under an id that is taken, be it by a client that is gone, is answered and not queued
  (`Queued`). Of the queue's counters only 1 is ever due (`Due`; `RequestDispatch` counts).
* `told` remembers which providers a connection was told about, and
  `consolidated` what each subscriber with a subscription that runs was last sent.

`fFindDependencies` also models the refusal (limit reached, connection closed)
that the code contains and never reaches, since it counts in a copy.

### NWebSocketServer

`fRemoveConnections` is the close of a table entry with the slot it runs; its
`lost` argument is the entry's peer if it does not read. Clock readings are free: they may repeat and go
back. Properties that need different readings say so (`ReadingsDiffer`), the
others hold whatever the clock shows. `ServiceManager` and `RequestDispatch` use
unique connection ids, which is what holds under `ReadingsDiffer`.

### RequestDispatch

`fProcessRequest` is a request with its methods, each checked, run, answered and
possibly queued; `sEventTriggered` runs the due subscriptions. `Deferred` methods
(`RegisterAPI`) are answered by other handlers. `since` in a request remembers
the number of events before it, and `idWasFree` that nothing was queued under its id, for
the properties only. Where the code and the
protocol document disagree, the model does what the code does and the properties
take no side: `NeverTooOften` and `EveryEventAnswered` are about requests for one
method, because the document has one consolidated response for several and the code
one for each, and about clients that have not sent `Unsubscribe`, which the code
ignores. A subscription that is not queued because its id was taken is promised
nothing by `EveryEventAnswered`; the one that took it must not suffer from it.

### ServiceClient

One service with the sockets it opens. `Starts`, `Stops`, `Closes`,
`ServerReceives` and `ModuleIsActive` are the other processes; what they do is
taken from `NWebSocketServer` and the service manager. `Disconnected` comes any
time after the server lost the connection, so it may be up again by then.

### MessageForwarding

Three processes, each with a queue towards the next; connections lose what they
hold when they break. An id is a request with one of its methods, which is what
one forwarded message carries.

* The connector's route for HTTP runs in an event loop inside the handler
  (`waiting` is the stack of those). `sHttpResponseProcessed` has no id: every
  waiting route takes the answer for its own. Listeners of routes that have
  returned are still connected and write to frames that are gone; what that does
  is left open (`crashed`), as is a function that ends without a value, and a
  request object that is deleted while its route waits. `mixed` remembers which
  HTTP requests met another.
* `ForwardMessage` is the service manager's method with the checks of
  `NCoreService::fInvokeMethod` before it; `RelayAnswer` and `RelayedToClient`
  are the two functions called `fProcessResponse`.
* `ModuleAnswers` is a service as `RequestDispatch` has it, well or badly ending.
* `Fate` tells from the queues and the clients what has become of a forwarded method;
  it maps the WebSocket side to `Forwarding`.

### HttpUrl, HttpParser, HttpServer

`HttpParser` has one operator per state of the C code, applied to the parser and
one symbol; `goto reexecute` is the application of the next state's operator to
the same symbol. A symbol stands for a character or for a piece of a word the
parser knows ("con", "nection"), so that cutting words is covered too, and
matching a header name takes a few steps instead of fourteen. `MaxLength` stands
for the largest 64-bit number and `MaxHeaderSize` for 80 KB; both are reached.

The length of a header is counted as the code does it: most symbols before they are
looked at, and those of a header's name or value, which the code reads in an inner
loop, together when the run ends or the fragment does. `run` is the number of symbols
of such a run; `RunGoesOn` and `RunEnds` lengthen and count it. What is counted stays counted when it is too much, so
`nread` is beyond the limit after an overflow.

`HttpServer` adds the callbacks of `QHttpServerRequest` and `handleReadyRead`. A
conversation is generated as messages and turned to text (`Text`), so the
properties can compare what reaches the router with what was sent, not with
what was parsed. `socket = "deaf"` is the state after `socket->disconnect()`, which
cuts signals and leaves the connection open; `"crashed"` is the end of the service:
the warning about an upgrade reads through the end of the headers, or `onBody` reserves room
for a length that a cast to `int` has made huge or negative (`Unreservable`, beyond
`Reservable`, a body that is sure to find memory; whether it does end is left open).

What the properties leave out is in their text: `RequestsAsSent` is about
conversations without `Strange` messages (folded lines, headers without a value,
control characters, trailers and blank lines between requests, of which one that comes
alone is answered with an extra 404), and about fragments that neither end in a URL
or a header nor hold parts of two messages. `AssertionsHold` is about the
assertions of `http_parser.c`. It does not include those of `qhttpserverrequest.cpp`: its
`Q_ASSERT(!lastHeader.isEmpty())` (198) fails in a debug build, and there only, when a
header value comes in two pieces, because the first piece clears `lastHeader` (205).

### NModuleManager, NMainController

`NModuleManager` reads a disk (directories, configuration files, executables).
`QVersionNumber` is modelled as Qt documents it, as segments and a suffix. An info keeps
its parameters in one list; the code splits it by groups, and a look-up names the group
either way. What a file says is a list of parameters; `Overrides` reads it with the
quirk of the code, which replaces only a value that is not empty.
`NMainController` has the calls in progress as a stack, `frames`: a call that
waits does so in an event loop of its own, requests are handled on top of it, and
a call goes on only when everything above it has returned. `main`, `exec` and
the destructor are the bottom of that stack. A module's program runs until it is
killed; a start script ends at once and leaves the module running.

### NDownloader, NUpdateController

Each operator of `NDownloader` is what one handler makes of the downloader's
state, with `abort()` running the finished handler inside the timeout handler
(`TimedOut`) and `operator[]` making an entry where there is none (`At`). The
updater's slots are called from inside the handlers, so a step of
`NUpdateController` is a handler with the slot it runs. The last progress signal
of a reply carries its data.

### NRunGuard

One process per instance, one step per call of `QSharedMemory` or
`QSystemSemaphore`, crashes between any two. The semantics of these two classes
on Unix are stated in the module's head. `NCoreService`'s constructor runs the guard, so
every service is such an instance.

## What is checked

| Run | Shows |
|---|---|
| `sm_safety` | Six properties of the registry, with four connections, a chain of dependencies connector → transaction → block, and stalled closes. Four connections are enough for a chain of three with a second provider of one of its roles; two message ids let two clients use one, or one client two, and counters 1 and 2 a subscription that runs and one that never does. |
| `sm_promise` | With transaction and block modules that need each other and three connections: the registry implements `ModuleRegistry` (closes do not stall), and a module whose dependencies stay registered becomes active. |
| `wss_table` | The connection table, three peers and four clock readings, repeating or not. Two peers can share a name while a third asks or leaves. |
| `dispatch_served` | Two clients, one of which may use the other's message id, two requests in all, counters 0 to 2, three events: enough for two subscriptions under one id, two of one client, and a counter of 2 to come round. A request for one method that was not unsubscribed gets no response too many, and with counter 1 none too few. |
| `dispatch_counter` | *Violated:* a subscription with counter 2 is served again. |
| `client_registers` | Three stops, closes or socket errors, in any order: the service registers again, once per connection, and its dependencies are connected. A dependency that refuses the version is tried for ever, without disturbing the others. |
| `forwarding_http` | Two HTTP requests and a WebSocket request, one module, no lost connections: routes return in the order of their stack, and a request that met no other gets its own answer. Two routes are enough for one to wait on top of the other and for an answer to come after its route is gone. |
| `forwarding_ws` | Two WebSocket clients, on servers of different scope, two modules, one of them with a method of its own, two lost connections: no answer comes twice, entries are forgotten when nothing fails, and each request for one method is answered then; the three processes implement `Forwarding` (a method runs once at most, data comes only from one that ran, nothing is lost unless a connection was). Two losses let a connection break, come back and break again, or take a module with it. |
| `http_server` | 25 conversations of one to three messages, cut into up to three fragments at any place: every token can be cut twice. What `http_parser.c` asserts holds; it accepts and says the same however the input is cut, and refuses the same, with the same error or with an overflow found earlier; requests reach the router as they were sent. One conversation has a header that is both too long and no number, one a body there may be no room for. |
| `http_split` | *Violated:* the same without the condition that no URL or header is cut. |
| `main` | 133 installations: five complete ones with versions of every form, and every way three files can set one parameter; three requests, one module that ends by itself, a signal at any time. Three requests allow one in each kind of wait and one more on top. |
| `updater` | Three versions, two failures, at most three replies at a time (there are two ids, so the third number is only there for a timer that outlives its reply). |

The violated properties are what `Documents/Protocol/Message Protocol.md` and
`http_parser.h` say; the findings in `PROJECT.json` quote the lines.

Bounds: `MaxEvents` and `MaxRequests` cap the history counters of
`RequestDispatch`; `MaxFailures` the failures in `ServiceClient` and
`MessageForwarding`; `MaxFragments` the fragments; `MaxShutdowns` and `MaxEnds` what
comes from outside in `NMainController`; `MaxVersion`, `MaxErrors` and `Reply`
the updater's world. Connections, peers and requests are used once. `RetryLimit`
is 2 instead of 20, `MaxLength` 127, `MaxHeaderSize` 32 and `Reservable` 64, which only bring the
limits nearer. Deadlock is not checked: every system here may come to rest when no
process does anything.

Fairness: in `ServiceManager`, the search timer (`WF` of `fFindDependencies`),
which is periodic and never stopped. In `ServiceClient`, timers and socket events
of the event loops that are running (`WF` of `RetryTimeout`, `fOnConnected`,
`Disconnected`, `fOnTextMessageReceived`, and the server's `ServerReceives`). In
`MessageForwarding`, the messages in the queues, the route's timer and the return
of the innermost route; not reconnection, and no request. In `NMainController`, one
`WF` of `GoOn`: code that does not wait goes on, and what waits does so for a timer.
In `NUpdateController`, the check timer, the event queue, and that a reply ends,
because its own timer does not let it wait for ever; not that it ends well, which the
bound on errors gives. Nothing makes a process start or an outside peer act;
the liveness properties assume what they need (`<>[](managerAddress \in listening)`).

### What the code does, and nobody may expect

The models follow the code where it differs from the documents or looks
unintended. Two of these are runs (`dispatch_counter`, `http_split`); the rest is only
described here:

* A module whose dependencies never come is never refused: the counter that is
  incremented is a copy's (`NServiceManagerController.cpp` 140). So is a second
  registration, or an invalid one: never answered.
* Requests are processed on connections that have not negotiated
  (`NWebSocketServer.cpp` 66); a request with two methods gets two answers (154);
  `Unsubscribe` is ignored (`NWebSocket.cpp` 89); subscriptions outlive their
  connections.
* Forwarded subscriptions are always refused, since `ForwardMessage` has no
  minimum of its own, and leave their entry in the connector's table. A request
  with a minimum among its parameters is refused unless it is a subscription. A
  relayed answer is always "successful".
* An HTTP answer goes to every route that waits; it may come to a frame that is gone.
* A fragment with parts of two HTTP messages merges them in one request object; a blank
  line that comes alone between two requests is answered with a 404; the
  scheme is `http` again after every fragment. After a parse error the client is
  never answered.
* How long a header may be depends on the fragments, and so may the error for one that
  is too long and wrong otherwise (`http_parser.c` 1366, 1666).
* `onBody` casts a 64-bit length to `int` (`qhttpserverrequest.cpp` 221).
* A download that times out is not tried again, and its id is blocked for the life
  of the process, although `NDownloader.h` 19 says "Retry automatically without
  emitting an error signal".
* A shutdown that is asked for before `exec` starts is forgotten by it. Of the main
  controller's methods only `shutdownsystem` can be called by a request: the
  others do not take one as their argument. A module that ends by itself is taken to
  run for ever.
* An empty value in a general configuration file is not replaced by that of a more
  specific one but hides it (`NModuleManager.cpp` 105).
  The latest version is the latest directory, managed or not (240).
* Two instances started after a crash may both refuse to run, because the
  constructor of `NRunGuard` attaches without the semaphore; a second
  `fTryToRun` by the instance that runs would release the guard.

## What is proved

Each theorem holds for every value of the constants that meets the module's
`ASSUME`s, each of which is justified below; TLC evaluates them in the runs. Each
proof has one inductive invariant, `IInv` (its parts are named and commented in the
proof module, and TLC has checked it on the instance of the run first), one lemma
or step per action, and a theorem per property. A theorem `Invariance` states
`Spec => []IInv` where the proof module needs it by name.

**Registry** (`ServiceManager_proofs`; any modules, connections and roles, any
dependencies; `SMConstants`: offers and dependencies are sets of roles, `NoModule`
is no module, the limit is positive)

* All six properties of `sm_safety`, with and without stalled closes. `IInv` adds
  to the properties that a used connection belongs to a module, that clients
  are told providers of roles they asked for, and that no counter of a search has moved. `ActiveDependenciesRegistered` needs
  `RegistryHasNoGhosts`: a connection may only get a new module when nothing
  registered refers to it. The disconnection is the hard step: a provider that
  leaves the registry was reported, so the cascade closed its active dependents
  with it (`ClosedFromDependents`). That the cascade closes nobody else is the
  minimality of `ClosedFrom` (`ClosedFromReason`). That the counters never move makes
  the search close nothing (`SearchClosesNothing`).
* `SubscribersKnow` is about the subscriptions that are in the event queue: which are is
  decided by message ids that may collide with those of other clients, also of clients
  that are gone, and by the counter. Requests only add to the queue, so a client that
  is told stays told.
* `KeepsThePromise`: if closes cannot stall, `ServiceManager` implements
  `ModuleRegistry`. A registration maps to `Join` (a second one to a stutter), a
  search to `Activate`, a disconnection with its cascade to `Leave`; that those
  who stay are satisfied is `ActiveDependenciesRegistered` after the step. With
  stalled closes it does not hold: a stuck dependent stays active in the lists
  while its provider goes.
* `PromiseIsKept`: in the abstract registry nobody is active unsatisfied.

**Connection table** (`NWebSocketServer_proofs`; any peers and positive clock
readings, `WSSConstants`)

* All properties of `wss_table`, with and without stalled peers, and two more that no
  run repeats: an open socket is in the table under its name (`OpenSocketsNamed`),
  and no step closes two connections (`OneClosedAtATime`). `IInv` adds that a
  socket's name is the reading it was accepted at, that only named peers wait for
  answers and that only given names are reported. With repeated readings only
  `TableHoldsOpenSockets` and `ClosedAreReported` remain; the others have
  `ReadingsDiffer` as hypothesis, which makes names unique (`NamesDiffer`).

**Request dispatch** (`RequestDispatch_proofs`; any clients, message ids that may
collide, methods, minima and counters; `DispatchConstants`, and
`DeferredTakeNoSubscription`: the only method whose handler answers later,
`RegisterAPI`, is registered without a minimum)

* `NeverTooOften` and `EveryEventAnswered`, for requests for one method. Neither is inductive: an entry of the event
  queue says nothing of the request it came from. `QueuedAreRequested` does: the
  entry was made by a request of its client, and `mEventCounter` is 1 plus the
  events since if it asks for every event, and 1 for ever otherwise, because
  `sEventTriggered` counts only what it runs. So a counter of 1 is served at each
  event and no other ever again, which gives both bounds (`AnswersCounted`,
  `SoleIsQueued`) and explains the violated run `dispatch_counter`.

**Service client** (`ServiceClient_proofs`; any roles, addresses and failures;
`ClientConstants`)

* All safety properties of `client_registers`. `ActiveIsNegotiated` and `RegisteredOnce` follow from how far a connection can
  be that both ends have (`AcceptedAdvance`): the proposal, or its acceptance, is under
  way, or the connection is active; then the registration, then its answer. Nothing
  is said of a connection the server lost, and that is the point: the reset at the
  disconnection (`UnconnectedAreFresh`) is what starts the order anew.

**Forwarding** (`MessageForwarding_proofs`; any clients, routes, modules and failures,
a finite set of methods; `ForwardingConstants`: the two kinds of requests differ,
no module offers the connector's own method, WebSocket requests are well formed)

* `AnsweredOnce`, `EntriesAccounted`, `HttpAnswersOwn`. Every step moves one message from
  the head of a queue to the end of another, or drops it. `OncePerPlace`,
  `OnePlace` and `UnmadeNowhere` say that a forwarded method is in one place of
  one queue at most, the answer at the client counted as a place. `EntriesFollow`
  says which entries there are for each place. The cardinalities of the properties
  follow at the end (`AnsweredAtMostOnce`, `EntriesAreAccounted`).
* Two invariants are not inductive for a reason worth knowing. `TypeOK` needs that a
  connection that is gone has nothing under way (`GoneEmpty`), since the entry of a
  forwarded request records the connection it came over. That an unmixed HTTP request is alone needs that a route begins
  without a response (`NoOldResponse`): a response left from before would be taken
  for an answer when the loop ends.
* `PromiseKept`: the WebSocket side implements `Forwarding`. What has become of a method
  (`Fate`) is where its message is, so the proof follows the message: for each kind
  of step a lemma says which place it leaves and which it enters, and that no other
  method's place changes. `IInv` gives that there is one place; besides, that what is
  under way was forwarded (`UnderWayKnown`, a theorem of its own, `AnswersKnown`), or a
  message might appear whose method was never asked for. `NothingLostAlone` draws
  the conclusion a user cares for: without a failure, a method that was forwarded is
  on its way, or answered.

**Updater and downloader** (`NUpdateController_proofs`; any versions, errors, and two or
more reply numbers, `UpdaterConstants`; `NoReplyIsNothing` only says that `None` is no
reply)

* `RepliesHaveTheirEntry`. The handlers of a reply read the table of downloads by id; the
  lemmas treat the downloader as a value, one per handler. Needed besides the
  property: a timer runs only for a reply that is not finished (`TimersOfReplies`),
  for the timeout handler looks its reply up; and for `TypeOK`, that what arrives
  for the manifest's id is a manifest (`ManifestsOfVersions`). `OneIsFree` shows that
  two reply numbers always leave one free: the set `Reply` is no bound.

**Module processes** (`NMainController_proofs`; any installations, however many requests
are handled within the waits; `MainConstants`: no executable has an empty name, and a disk
is a finite tree, `IsDisk`, whose files have a parameter once, as `QSettings` gives them)

* `OneProcess`. It needs to know about the stack of calls: nothing that starts a module
  can be on top of a call that stops one (`StartsAtTheBottom`), since no request
  starts modules; while `stopmodule` waits, the processes of the stop script it ran
  are down (`StoppedByScript`); and a module is stopped the way it was started
  (`StartedAsConfigured`), since `NModuleManager` is read once. Modules whose stop script
  is missing are excepted, by the property: such a module loses its entry and
  runs on.
* `WhatFilesSay` states `ConfigurationRead`: which modules are managed, each listed once, and
  their scripts are what `SaidOf` says, which looks for the most specific file with the
  parameter and knows nothing of lists that are updated. Between two parameters the list
  gives each name one value or none (`Gives`, by `OverrideGives`); that is carried over
  a file (`FileGives`) and over the three files (`ParamsGive`). The list of modules
  is three nested flattenings, of namespaces, modules and versions; each joins lists of
  disjoint sets of directories (`JoinLists`). Values hidden by an empty one are
  excepted (`HiddenByEmpty`): there `Gives` fails, since the list then has two values of
  one name.

**HTTP server** (`HttpServer_proofs`; any router, any conversation, any cutting into any
number of fragments, any limits; `ParserConstants`: the largest length is above 16,
which is what one digit may add, and `ServerConstants`: what is sent is text)

* `TypeCorrect` and `AssertionsKept`. The latter are the assertions of `http_parser.c`; they
  are compiled in, since no build file defines `NDEBUG`, and a connection that
  violates one ends the service. The assertions of `qhttpserverrequest.cpp` are not
  among them. That no length overflows is part of the types, and that a header the
  parser has accepted so far is not longer than the limit; one that it refused is.
* The inductive part is about the parser between two fragments (`Waiting`): state,
  lengths, flags and kind of header fit each other (`Lengths`; for instance the
  lengths are not at their limit wherever they are counted down). Within a fragment
  the marks of the data fit the state as well (`Marks`) and stay within the fragment
  (`Good`). Each state of the C code is an operator, with a lemma: it makes a good
  parser of a good one, or reports an error.
* A call goes through the symbols of a fragment, and a request through the callbacks.
  Both are recursive functions; that they are what their equations say
  (`Executions`, `CallbacksMade`), and that every value is good, is proved by
  induction over the numbers, stated for a set instead of a predicate (`AllNumbers`).
* `FragmentsAlike` (property `FragmentsDoNotMatter`): for any input without control
  characters and any way to cut it, a parser without an error is the parser that one
  call with all that has arrived would leave, the count of the header included, and
  has notified the same; with an error, that call has one too, the same or, if the
  fragments ended in `HEADER_OVERFLOW`, perhaps another. The
  comparison is with a second parser that reads the whole input in one call. At each
  symbol the two (`Twins`) have equal fields (`Same`), and what each has notified, with
  the piece of the datum under way up to its own place, is one list (`Heard`). The
  count is the one field that need not be equal, because the end of a fragment counts a
  run that the second parser is still in; what agrees is the count with the run (`Total`).
  Each
  state of the C code keeps that, with a lemma of its own again (`...Twins`), because
  it branches on the fields that are equal only, never on marks, places or earlier
  callbacks, and because two pieces of a datum say what one says (`JoinPieces`). The
  end of a call hands over what is under way (`LeftoverHeard`), and the next marks it
  again at its first symbol (`StartsAlike`), so the invariant `FInv` carries over from
  fragment to fragment. The call the property speaks of, with all that has arrived, is
  compared with the whole input in the same way, as one fragment. The marks must
  be exactly where the state needs them (`Exact`): without that the next call would
  mark a datum that the second parser does not have under way, or the other way round.
* The counts can disagree about the limit in one direction only. If the fragments' parser
  finds the header too long at the end of a fragment, the second parser may be in the
  run that is too long already (`Doomed`). It stays in it, or ends it and finds the
  same, or finds another error in the run first (`DoomedStays`, `DoomedEnds`):
  `Outcome` is what can come of it, and it is what the property says of errors.
  Control characters are excepted because the code skips the rest of a header value
  that says nothing to it in one loop that does not look at them, whereas a new call
  looks at its first symbol (`skipping`, the other field that is not compared).
* The proof corrected the model twice: some `CASE`s of the parser had guards that overlap,
  as the cases of the C code's `if` chains do, which TLC reads in their order and
  TLA+ leaves open.

**Run guard** (`ServiceClient_proofs`, at its end; any processes)

* `MutualExclusion`: at most one instance runs. `GuardInv`: whoever created the segment stays attached to it
  until it releases it, an attached segment exists, and there is one creator at a
  time. `create` fails on a segment that exists, and that is enough: the semaphore
  plays no part. No run repeats this.

Only model-checked:

* Liveness (`SatisfiedBecomesActive`, `EventuallyRegistered`, `EventuallyConnected`,
  `HttpReturns`, `WsAnswered`, `ShutdownStops`, `NewVersionAnnounced`): it rests on
  fairness and `ENABLED`, which the prover does not handle.
* `RequestsAsSent` of `HttpServer`: it compares what the parser found with the text of a
  request as it was generated. A proof would have to follow the parser through every
  state for every text of the grammar, which is not there for all values of the
  constants (`Conversations` is any set). That the cutting of the text makes no
  difference to the parser is proved; what is left to TLC is one call with one text.

## Not modelled

* The parser's half for HTTP responses, and its `http_parser_pause` and
  error texts: nothing in the server uses them.
* `QHttpServer`'s listening, the writing of responses, and path expressions with
  arguments: the only route of the program is "/".
* The JSON of messages and registration maps, `NApiBuilder` (reflection), library
  paths and start-up parameters of modules: conversions of data without state.
* `StatsManager` (stubs), `Tester` (a manual client), `NLogger`, `NSignalWatcher` (I/O),
  `updatesystem` (empty), `restartmodule` and `scanmanagedmodules` (no caller).

## Plan

1. Action properties that follow from the invariants proved: an entry of
   `mForwardedMessages` goes only with its answer or its connection; a process of the main
   controller is stopped only by a call that names it.
2. The HTTP side of forwarding under `Forwarding`, for requests that met no other.
