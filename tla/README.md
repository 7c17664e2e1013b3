# A verification of webthing-cpp

webthing-cpp is a header-only C++ library that turns objects of an application
into web things: properties, actions and events that clients read, change and
listen to over HTTP and WebSockets, and find by mDNS. The library is in
`include/bw/webthing/`, programs that use it are in `examples/`. This directory
holds TLA+ modules that model its core, TLC configurations that check them on small
instances, and proofs checked by TLAPS.

## The system

| component | state | operations | talks to |
|---|---|---|---|
| event storage, `SimpleRingBuffer` (storage.hpp) | `buffer`, `current_size`, `start_pos`, optional mutex | `add`, `get`, iteration | a `Thing`: emitters add, the event loop lists |
| action storage, `FlexibleRingBuffer` (storage.hpp) | a deque, optional mutex | `add`, `remove_if`, iteration | a `Thing`, one per action name |
| `Action` (action.hpp) | `status`, `time_completed` | `start`, `finish`, `cancel`, `as_action_description` | runs in a detached thread, notifies its thing, is read by the event loop |
| `Value`, `Property` (value.hpp, property.hpp) | `last_value`, observers, metadata | `set`, `notify_of_external_update`, `set_value` | a value has observers (properties), a forwarder (the device); sensors and actions call it from threads of their own |
| `Thing`, `Event` (thing.hpp, event.hpp, webthing.hpp) | properties, stored actions and events, message observers | `set_property`, `perform_action`, `remove_action`, `add_event`, `*_notify` | observers lead to the server |
| `WebThingServer` (server.hpp) | routes, `webserver_loop`, the mDNS service | `start`, `stop`, the HTTP and WebSocket handlers, `handle_thing_message` | all of the above; uWebSockets runs its handlers one at a time |
| `MdnsService` (mdns.hpp) | `run_requested`, `running`, the records, static addresses | `start_service`, `stop_service`, `service_callback` | the network, the server's lifecycle |
| builder, `ThingContainer` (server.hpp) | name, base path, port, hosts, the things in order | `host`, `build`, `get_thing` | decide which routes and links there are |
| a program, examples/multiple-things.cpp | `read_from_sensor`, the brightness, a fade's `cancel` | a sensor's thread, `FadeAction`, the SIGINT handler | the server, values and events from threads of its own; the logger's mutex |
| JSON validation, other utilities | none that changes while threads run | | |

Four kinds of threads meet: the one of the event loop, which runs every HTTP and
WebSocket handler and every callback of `Loop::defer`; one detached thread per
action; the application's own (sensors, emitters, the caller of `stop`); and the
detached thread of the mDNS service. Every notice (a property changed, an action
went on, an event happened) is made by whichever thread caused it and handed to
the loop by `defer`, which publishes it later. Little of the shared state is
locked: only the additions to and the removals from the storages are.

What makes each part correct, and what is hard about it:

* **event storage**: it holds the latest elements in order, although an `add` is
  several assignments; a listing, which takes no lock, stays in range and shows nothing
  stale and nothing old twice;
* **action storage**: it is a bounded log, although an action that a DELETE has
  found may be evicted before it is removed;
* **actions**: listeners hear created, pending, completed, in this order and to
  the end, although two threads send the notices and the action may leave the
  store meanwhile; what is announced can be looked up although it is announced
  before it is stored;
* **values**: every change is announced to the listeners of every property, the value
  that things settle on is among what was announced, and it is the last announcement as
  long as calls do not overlap;
* **lifecycle**: `stop` and `start` return, and no announcement outlives them,
  whatever the order in which the threads of start, stop and mDNS come;
* **mDNS**: answers are complete and fit, and a goodbye takes back all that was
  announced, although the addresses are found in variables shared by all services; no
  address of an earlier start is announced, and the one that is leads to a host that the
  server accepts, with the exceptions below;
* **the API**: what is refused changes nothing, a property never has a value its
  metadata forbids, listeners agree with what a GET answers and hear only the thing
  they are connected to, although all things publish through one application;
* **routing**: every link of a description is served, though links are put together
  in `Thing`, `PropertyBase` and `Action` and the routes in the server;
* **a program**: an interrupt ends it, although the handler joins, waits and logs on
  the very thread that it interrupted; a fade comes to its end, although clients
  change the value that it reads back.

## The modules

| module | models | its actions are |
|---|---|---|
| `BoundedLog` | what both storages promise | `Add`, `Remove` |
| `SimpleRingBuffer` | the event storage | single accesses to the shared fields: the lock, the comparison, `push_back`, `++current_size`, the overwritten slot, `start_pos`; `begin`/`end`, `resolve_index`, the dereference |
| `SimpleRingBufferProofs`, `ActionThreadsProofs`, `PropertyValueProofs`, `ServerLifecycleProofs`, `MdnsServiceProofs`, `RoutingProofs`, `WebThingApiProofs`, `MultipleThingsExampleProofs` | | theorems about the module of the name |
| `ActionThreads`, `MCActionThreads` | the action storage, `Action`, `perform_action`, `remove_action`, and the handlers of actions | the steps of `perform_action` and of `add`; the assignments and notices of an action's thread; the handlers cut at the points where another thread may come in; the publication of a notice |
| `PropertyValue` | `Value` and the properties that share one | the steps of a call: forward, compare, assign, build the message of an observer, defer it; publication |
| `ServerLifecycle` | `start`, `stop`, the mDNS thread and notices that come early | each read or write of a shared flag or pointer |
| `MdnsService`, `MCMdnsService` | what a service announces, answers and takes back, and the hosts that its server accepts | construction of the server; the enumeration of the interfaces, the stores to the shared variables, the opening of the sockets, the copies from the shared variables and the announcement; one question, goodbye, a change of the network |
| `Routing` | the builder, the containers, routes, dispatch and links | none: operators, since all is settled when the server is built |
| `WebThingApi`, `MCWebThingApi` | the HTTP and WebSocket interface to the things of a server | one handler each; a PUT and a POST are two, at the head and at the end of the body; `add_event` and `event_notify` of an emitter; publication |
| `MultipleThingsExample` | examples/multiple-things.cpp and the program of the tests, each with its server | the steps of `ServerLifecycle`, taken by the main thread or by the handler that interrupts it; the sensor's loop; the fade's loop; requests; the line being logged |

`SimpleRingBuffer` and `ActionThreads` implement `BoundedLog` (`RefinesBoundedLog`,
`StoreRefinesBoundedLog`, which says besides that nothing is added twice), and so do the
events of each thing in `WebThingApi` (`EventsAreBoundedLogs`).
`WebThingApi` takes an `add` to a storage as one step, as these refinements allow, and a
call of `Value::set`, too: it has one caller there, the loop. It says what the storages
hold; what a listing of the events shows that runs beside an `add` is in
`SimpleRingBuffer`. It EXTENDS `Routing`, from which its actions take the things
and names that requests lead to. `MultipleThingsExample` EXTENDS `ServerLifecycle`: the
variables of the server change by its actions only, and the program decides which of
its threads takes them and when. `PropertyValue` and `ActionThreads` are about what other
threads do in the middle of those calls. `ServerLifecycle` takes the service as a
sequence of phases whose content is `MdnsService`.

Names follow the code. Variables marked *history* record what happened and steer
nothing. An operator whose comment says *Mutant* is a plausible bug in the
operator below it and takes no part in `Next`; for every checked property there is
one which breaks it, so that each check is known to be able to fail. Where a finding
contradicts a property, a theorem says how far the property holds, if there is more to
say than the trace does.
`PROJECT.json` lists for each definition the lines it models.

### Abstractions

* Values, events, actions and names are model values. A JSON value in `WebThingApi`
  is its kind and a number, since the conversions only tell these apart.
* A path is the sequence of what stands between its slashes. `Routing` says which
  handler gets it, with which thing and parameters (uWebSockets' router, as the code
  uses it, is external); what is only read, and what is answered without touching
  anything, is the action `Answer`. Queries are not looked at by the code. Names that
  need escapes in a URL are left out: the code neither escapes nor decodes them.
* A host header is a name and a port or none. The `Stoi` of the instance reads "1x"
  as 1, as `std::stoi` does.
* An interface is its address and a kind: one for LAN traffic, down, point-to-point,
  loopback, or an IPv6 address local to the link. Both enumerations of addresses see
  the same sequence of interfaces and filter it by their own rules.
* The result of JSON schema validation is a constant, the set of allowed values;
  for an action's input it is chosen freely.
* Read and written by two threads without a lock, `status`, `last_value` and the
  flags of the mDNS service are taken to be read as last written. C++ promises less
  (they are data races): what the models find wrong is wrong in the mildest
  reading, and what they find right rests on this one.
* Lookups in the deque of the action storage and the copies of shared pointers are
  atomic. Application code (a perform_action, a forwarder) returns.
* A thread can always be created, but for the one of a POST in `WebThingApi`, whose
  failure (server.hpp:912) is caught and answered with 400 when the action has been
  announced and stored (`PostWithoutThread`). In a WebSocket message it would leave the
  handler and end the program.
* Of a body that arrives in several pieces only the last one is parsed. It may be a
  whole document or not, as it may when it is the only one.
* A topic is a tuple of a thing's id, a kind and a name, where the code joins strings;
  ids with a slash in them could make two topics one.
* The stores to the static mDNS addresses and the copies of them are each one step. (The
  code copies a struct without a lock; the copy of an IPv6 address may tear.) Of the
  loop over the interfaces the stores of the first address of each family remain, in
  either order.
* `TimeOut` in `ServerLifecycle` does not fire once the service has seen that its
  run has ended: it then needs at most one `select` of 100 ms, and the time-out is
  five seconds. A thread that is starved for that long is not modelled.

## The runs

Every `.cfg` has a line that says what its instance is. Passing runs:

| run | instance | what it shows |
|---|---|---|
| `RingBuffer` | 2 writers, 1 reader, 5 elements, 2 slots (126 thousand states) | `HoldsTheLatest`: from `start_pos` on, the slots are the latest additions in order. `IterationIsSafe`: an iteration never throws and never reads an unconstructed slot. `NothingStaleIsListed`: it shows nothing older than what was there when it began, and what was there in order, none twice. `UndisturbedListingIsExact`: as long as nothing is overwritten it shows a gapless piece from the oldest element on. `RefinesBoundedLog`. |
| `Actions` | 3 actions of one name, store of 2, clients only (1.1 million states) | `NoticesInOrder`, `CompletedNoticeHasTime`, `AnnouncedCanBeFound`, `PostAnswersCreated`, `StoreRefinesBoundedLog` |
| `ActionsFromThreads` | 2 actions, store of 1, a thread beside the loop, fairness | `StoreRefinesBoundedLog` with two adders, `RemovedIsCancelledAndGone` even if the action is evicted between the lookup and the removal, and `EveryActionIsAnnouncedToTheEnd` even if it is evicted or removed while it runs |
| `Values` | see `Values.cfg`: threads and the loop, 2 properties, one of them read-only (604 thousand states) | `EveryChangeIsAnnounced`, `SettledValueWasAnnounced`, `SequentialCallsAgree` |
| `Lifecycle` | the example and the program of the tests; one start, at most one stop or SIGINT, one fade, one PUT, fairness (213 thousand states) | `StoppedServiceIsSilent`, `RunningServerStops`, `StartReturnsAfterStop`, `InterruptEndsProgram`, `FadeEnds` |
| `Mdns` | 2 servers with TLS, 3 networks between which the host changes (345 thousand states) | `AdditionalRecordsFit`, `QuestionsAreAnswered`, `NothingOutlivesGoodbye`, `NoAddressOfAnEarlierStart`, `AnnouncedAddressIsAccepted` |
| `Api` | 2 things, 2 clients, 1 socket, 3 requests, 2 emitters, 2 events in a storage of 1; the routes of seven servers (697 thousand states) | `RefusedChangesNothing`, `ValuesStayAllowed`, `ListenersKnowTheValues`, `ListenersHearOnlyTheirThing`, `HeardEventIsStored`, `EventsOfAThreadInOrder`, `LinksAreServed`, `TrailingSlashIsHarmless` |

Runs that end in a counterexample, because the code does other than the
repository says:

| run | property | what the trace shows |
|---|---|---|
| `ActionsTornReply` | `CompletedReplyHasTime` | `finish` sets the status before the time (action.hpp:172); a GET in between answers "completed" without `timeCompleted`, where action_tests.cpp:145-147 expects both |
| `ValuesDoubleNotice` | `NotifiesOnlyChanges` | two calls with one value both find it different (value.hpp:39) and both notify, against value_tests.cpp:39 |
| `LifecycleStopHangs` | `StopReturns` | `stop` resets `run_requested` before `start_service` sets it (mdns.hpp:928); the service runs on, and the time-out of five seconds keeps the waiting loop going instead of ending it (server.hpp:567) |
| `LifecycleEarlyNotice` | `NoticesReachALoop` | a property that changes before `start()` meets an uninitialised `webserver_loop` (server.hpp:1049) |
| `ApiWideInteger` | `AcceptedAsRequested` | an integer wraps to an `int` (server.hpp:828) before it is validated; a forbidden one is answered with 200 and another value is set |

### Bounds, and why they are enough

What is proved (below) holds for every value of the constants; of those properties
the runs are the cheap check. For the others:

* Ring: five additions to two slots wrap twice, so that every slot is overwritten
  by either writer, and a listing may overlap any number of additions.
* Actions: three in a store of two evict the oldest in every state of its life.
  All have one name; stores of different names share nothing.
* Values: `MaxCalls` bounds the calls; three of them can overlap in every pair.
* API: `MaxRequests` bounds requests and messages; three is enough for a PUT that
  is held between head and body while another client and the socket change the
  same property. Events are bounded by being emitted once, actions by `Id`
  (`IdsLeft`), of which the instance has one for every action that its requests can ask
  for. `HalfRange` = 4 makes an
  int three bits wide, of which the values of the instance use the sign and the
  overflow. The socket connects and disconnects without bound, to either thing. The
  things share the names of a property, an action and an event, so that only their ids
  keep them apart. Both events of the instance are of a name that is available: the
  silence about others is modelled and not exercised.
* Routing: servers of one and of two things, under base paths of zero, one and two
  segments, one of which looks like the index of a thing. (`RoutingProofs` is about
  every base path and any number of things.) Indexes: in range, out of it, negative, half a number, none.
* mDNS: two services, since all they share is two variables: each may look for its
  addresses, store them and copy them at any point between two such steps of the other,
  and start again after a goodbye. Three networks, between which the host changes at any
  point: one whose usable addresses come after others and in both families, one with
  another address, and one with IPv6 only. An enumeration that fails finds nothing.
* Programs: one signal. A second one would join a thread that is joined already, which
  throws in the handler. Fades from 50 to 0, 49 and 57 go down, down by one and up, in
  several steps and in one, and the one PUT (to 100) comes at any point of them. One
  fade; two that run at once towards different levels may fight for ever, since each
  goes on from the value it reads.

Symmetry is used in runs without liveness properties only, among actions, clients,
emitters and events that are only compared for equality.

### Fairness

Only `ActionsFromThreads` and the lifecycle runs need any. Each thread is scheduled
(weak fairness of its steps), a handler that has begun ends, and the loop drains
the callbacks of `Loop::defer` in each of its iterations (strong fairness of
`Publish`, which another handler disables while it runs). Nobody has to send a
request, call `stop`, or fail; no clock has to run out. In `MultipleThingsExample` the
main thread is scheduled as one, whether it runs the handler or what it interrupted;
the threads of the sensor and of the fade are scheduled, their sleeps end. A thread
that needs the logger's mutex gets it when it is free.

## The proofs

Every theorem holds for all values of the constants that satisfy the named
assumptions of its module, which TLC evaluates in the runs. But for the ones about
routes, which are about operators, the proofs have the same plan: an invariant that is
inductive, which `Init` implies and every action keeps (one step for each action, under
it one for each part that the action can disturb), and which implies the property. TLC
has checked each of these invariants on the instance of the run before it was proved.
Every safety property of a passing run is stated by a theorem. Of the five properties
that a run refutes, four have a theorem that narrows down where they fail; the exception
is `NoticesReachALoop`, which one notice before `start()` refutes.

### Event storage (`SimpleRingBufferProofs`)

For every `MaxSize` but zero, any sets of threads and elements, with or without the
mutex (then with one writer, `ProtectionAssumption`):

| theorem | states |
|---|---|
| `Typing` | `Spec => []TypeOK` |
| `RingInvariant`, `ReadersInvariant`, `ListingInvariant` | the inductive invariants |
| `RingHoldsTheLatest` | `Spec => []HoldsTheLatest` |
| `RingIterationIsSafe` | `Spec => []IterationIsSafe` |
| `ListingsAreFresh` | `Spec => []NothingStaleIsListed` |
| `UndisturbedListingsAreExact` | `Spec => []UndisturbedListingIsExact` |
| `RingRefinesBoundedLog` | `Spec => RefinesBoundedLog` |

`HoldsTheLatest` is not inductive: between the two assignments of an overwriting
`add` the slots are ahead of `start_pos`. `RingInv` says what holds at every step:
at most one writer is inside `add` (`Exclusive`), the branch it took is still the
right one (`BranchTaken`), `current_size` follows the length of the vector and
nothing rotates before the ring is full (`Sizes`), and the slots, read from where
the contents begin, are the end of the history of additions. `ReadersInv` adds for
each reader that its positions stay below `current_size`, which never falls: hence
no listing throws. `ListingInv` follows a listing through the additions that come
between its steps. What it has read at a position, and what stands in the slot it is
about to read, is no older than what was at that position when it began (`ReadInv`);
if it was there when the listing began, it is no newer than what has come to that
position since, so that what is read next is newer (`OrderInv`, which needs that no
element is added twice, `Unique`); and while nothing has been overwritten it is what was
there (`ExactInv`). A writer keeps this because it only ever replaces the oldest slot by
the newest element (`AddKeepsListing`); a reader, because the slot it resolves is that
far from the start, or the one that was just overwritten (`ResolvedSlot`). The refinement maps the log to `Contents`, and shows that
`push_back` and the overwritten slot are an `Add` of the log and every other step a
stutter.

### Actions and their storage (`ActionThreadsProofs`)

For any actions, names and threads and every limit of the store but zero:

| theorem | states |
|---|---|
| `Invariant`, `Typing` | the inductive invariant, and `Spec => []TypeOK` |
| `NoticesStayInOrder` | `Spec => []NoticesInOrder` |
| `CompletedNoticesAreTimed` | `Spec => []CompletedNoticeHasTime` |
| `AnnouncedIsFound` | `Spec => []AnnouncedCanBeFound` |
| `RemovedStaysGone` | `Spec => []RemovedIsCancelledAndGone` |
| `PostDescribesCreated` | `Spec => PostAnswersCreated` |
| `StoreIsBoundedLog` | `Spec => StoreRefinesBoundedLog` |
| `TornRepliesRunBesideFinish` | how far the refuted `CompletedReplyHasTime` holds: a reply's status and time disagree only if the action's thread set the status since it was read, or stands between setting it and taking the time |

That listeners hear created, pending, completed in order depends on three things
that happen in two threads and in the loop. `NoticeInv` counts them together: of each
action the first `Sent` notices have been handed to the loop (a number that
`StatusInv` gives by the phase of the action's thread), the first `Heard` of them
have been published, and the others wait in the loop in this order. `CallerInv`
says that an action belongs to one caller until its thread starts, `EnteredInv` that
an action which was pushed is in the store, was removed, or was evicted, and
`StoreInv` that a store holds each action once and at most one more than its limit,
while `add` is between its push and its pop. `StoreIsBoundedLog` shows for each name
which step of which handler is the `Add` or `Remove` of the log, with `RemoveAtIndex`
and its neighbours saying what the removal leaves.

### Values (`PropertyValueProofs`)

For any threads, properties and number of overlapping calls:

| theorem | states |
|---|---|
| `Invariant`, `Typing` | the inductive invariant, and `Spec => []TypeOK` |
| `OneNoticeForEachChange` | `Spec => []EveryChangeIsAnnounced` |
| `LastValueIsAnnounced` | `Spec => []SettledValueWasAnnounced` |
| `CallsInTurnAgree` | `Spec => []SequentialCallsAgree` |
| `CallsInTurnNotifyOnlyChanges` | how far the refuted `NotifiesOnlyChanges` holds: for all calls until two have overlapped |

`CountInv` is the conservation law: for each property the assignments so far are the
notices published, those that wait in the loop and those that some call still owes.
`ToldInv` says that the present value has been published, waits, or will be read by a
call that owes a notice: the call that assigned it, or one that assigned before and
reads it again. `OneCall`, `LatestInv` and `DeviceInv` say the stronger things that
hold while calls do not overlap, when the last notice that is owed or waits carries the
value; `DifferentInv`, that what a call has found different is
still different when it assigns.

### The server's life and the programs (`ServerLifecycleProofs`, `MultipleThingsExampleProofs`)

| theorem | states |
|---|---|
| `LifecycleTyping` | `Spec => []TypeOK` |
| `LifecycleSilenceInvariant` | `Spec => []SilenceInv` |
| `LifecycleStoppedServiceIsSilent` | `Spec => []StoppedServiceIsSilent` |
| `TimeOutMeansOvertaken` | where the refuted `StopReturns` fails: a time-out that strikes leaves `stop()` waiting, and it strikes only if `stop()` came before the service was running (`RunningServerStops` is the rest) |
| `ProgramImplementsServer` | `ProgramSpec => Spec` |
| `ProgramStoppedServiceIsSilent` | `ProgramSpec => []StoppedServiceIsSilent` |
| `ProgramTyping` | `ProgramSpec => []ProgramTypeOK` |

`SilenceInv` says that `running` and `announced` hold exactly in certain phases of
the mDNS thread, and that a service which was caught running never comes back to
the phases before it runs. `stop()` leaves its wait when `running` is false, and the
only such phase that is left is the end. `ServerLifecycle` has no constants, so that
TLC sees all of it; the proof gives the reason, and needs no assumption.

Every step of a program's threads is a step of `ServerLifecycle` or leaves its
variables alone (`ProgramStep`), one case for each thread, again without assumptions.
So what is proved of the server holds in the programs, for any levels and any number
of PUTs. `ProgramTyping`, with `LevelAssumption` (levels are percentages), is about
the arithmetic of a fade: its increment is an integer, since the number of steps it
divides by is never zero (`IncIsInteger`), and the brightness it goes on to never
leaves 0 to 100, whatever clients set in between, since it stops at the destination
(`NextStepInRange`).

### mDNS (`MdnsServiceProofs`)

For any services, networks and addresses:

| theorem | states |
|---|---|
| `Invariant`, `Typing` | the inductive invariant, and `Spec => []TypeOK` |
| `PacketsAreWithinBounds` | `Spec => AdditionalRecordsFit` |
| `CallbackAnswersWhatItOwns` | `Spec => QuestionsAreAnswered` |
| `GoodbyeIsComplete` | `Spec => []NothingOutlivesGoodbye` |
| `NothingIsLeftOver` | `Spec => []NoAddressOfAnEarlierStart` |
| `AnnouncedAddressPasses` | `Spec => []AnnouncedAddressIsAccepted` |

`CacheInv`: what anybody believes of a service is its type or one of the records it
announces now, and the second only while it serves; so a goodbye, which takes back the
records it can still compute, takes back all, though the variables they were first
read from may have changed. What the shared variable may hold is followed through all interleavings: `PendingInv`
says that an address which a service has found and not yet stored is one that every
other service counts as found beside it, if that one has not copied yet; `StoredInv`,
that who opens its sockets has stored what it found; `StaticInv`, that from this store
to the copy the variable holds the service's own address or one of those; `CopyInv`, that this is what it takes for its own. The
history `beside` is that set. `HostInv` says that the hosts of a server are those of
the network it was built in; `UsableAddress`, that the
address which the enumeration for the records finds is among those that the other
enumeration, with its other rules, finds for the hosts.

### Routes and links (`RoutingProofs`)

For every server that is `WellFormed`, with any base path and any number of things:

| theorem | states |
|---|---|
| `AtMostOneRoute` | no request matches two routes, so that their order does not matter |
| `DescriptionIsServed` | every link of the description of the i-th thing comes to the handler it is for, and there to this thing and this name |
| `ActionLinkServed` | so does the link of an action, with its name and id |
| `SlashHarmless` | a GET of any path with a slash at its end comes to the same, at once or after one redirection to the path itself |
| `BuildIsWellFormed` | what `Build` makes of a builder is well-formed |

A pattern is the base path, `:thing_id` on a server of many, and the tail of a route; a
path that it takes falls into the same pieces (`MatchesInPieces`, `MatchesBelow`). A base
path has no parameters, so that it takes itself only. The tails are told apart by their
length, their first literal and their method; the two routes of the list of things are
shorter than any route of a thing, but for the one that ends with a slash, whose empty
segment no `:thing_id` takes. Hence `AtMostOneRoute`, and `Dispatch` has no choice. The
parameters of a link's path stand at known positions (`ParametersListed`), after the
index of the thing, which `std::stoi` reads back as it was written. Only two kinds of
routes take a path that ends with a slash, and both have a twin without it; every other
such path is redirected, never to itself, since `Location` leaves out the base path
exactly where a server of one thing, or of many, has a route for it.

`WellFormed` is what the code takes for granted: one thing in a `SingleThing`, a base
path without `:` segments that does not end with two slashes (`Build` cuts off one), and
decimal indices that `std::stoi` reads as written. A name or an id that is empty is
excluded (`SegmentAssumption` of `WebThingApi`): the code takes such a name, writes a
link for it, and no route takes what the link refers to.

### The interface to clients (`WebThingApiProofs`)

For any server, things, clients, sockets and emitters, any set of requests, values and
messages and every limit of the storages but zero:

| theorem | states |
|---|---|
| `Invariant`, `ApiTyping` | the inductive invariant, and `Spec => []TypeOK` |
| `ValuesAreAllowed` | `Spec => []ValuesStayAllowed` |
| `RefusalsChangeNothing` | `Spec => RefusedChangesNothing`, with its one exception |
| `ListenersKnow` | `Spec => []ListenersKnowTheValues` |
| `ListenersHearTheirThing` | `Spec => []ListenersHearOnlyTheirThing` |
| `EventsAreInOrder` | `Spec => []EventsOfAThreadInOrder` |
| `HeardIsStored` | `Spec => []HeardEventIsStored` |
| `LinksAreServedAlways` | `Spec => []LinksAreServed` |
| `TrailingSlashesAreHarmless` | `Spec => []TrailingSlashIsHarmless` |
| `EventsAreBoundedLogs` | the events of each thing implement `BoundedLog` under `add_event` |
| `IntsAreAcceptedAsRequested` | how far the refuted `AcceptedAsRequested` holds: for all requests, if the integers of the JSON values fit into an int |

The assumptions say of a thing what the set-up gives it (a type, allowed values and an
initial value for each property, a thing for each name), that an object of a message is
a sequence of entries, that all servers are well-formed and names not empty, and that properties, ids and events are told apart, as the
members of a notice tell them apart. That ids of things differ is part of the model
(see the remarks).

`ToldInv` is what makes `ListenersKnowTheValues` true: the last notice about a property
that waits in the loop carries its value; when none waits, the last one that a socket
heard does, and a socket that heard none connected after the last change. The hard step
is a message with many entries, in the middle of which all of this must hold again:
`Reached` is what a handler may have done so far, relative to the state it began in
(`Progress`), each entry leads from there to there (`SetPropertyReached`,
`PerformActionReached`), and so do all (`SetEachKeeps`, `PerformEachKeeps`, by the
least entry at which it would fail). `StepKinds` then reduces the steps of HTTP and
WebSocket handlers to one case. `TopicInv` ties what a notice is about to the thing its
topic begins with, and the topics of a socket to the thing it is connected to.
`EventInv` orders the events of a thread in the history, the loop and the sockets at
once (`InOrder`, `Follows`); the event between `add_event` and `event_notify` is the
latest of its thread. `ListedInv` counts for each event the newer ones of its thing:
they are those that follow it in the storage, until they are as many as it holds
(`LatestShift`). `EventsAreBoundedLogs` shows that every step adds one event to the
storage of one thing, or none, as `RingRefinesBoundedLog` does of the ring. This is about
what the storage holds. A listing of the events that runs beside an `add` takes several
steps, which `SimpleRingBuffer` has and this module does not: it is in range, shows
nothing stale and nothing old twice, and may miss an event that is stored: of two slots
with a and b it reads a, then c is added in the place of a, start_pos moves on to b, and
what is read next is c.
The two properties of the links are instances of the theorems of
`RoutingProofs`, which this module EXTENDS.

### What is only model-checked

* Liveness (`EveryActionIsAnnouncedToTheEnd`, `RunningServerStops`,
  `StartReturnsAfterStop`, `InterruptEndsProgram`, `FadeEnds`): the prover has neither
  fairness nor ENABLED.
* That the findings happen: a theorem delimits them, a run shows them.
* That `ToString` and `Stoi` are inverse: no prover knows the digits of a number. It is
  a part of `WellFormed`, which TLC evaluates for the servers of the instance.

## Not modelled, and remarks

* The lifetime of objects: the observers of a server capture `this`, the one of a
  property captures the property, and a request is read after its handler returned
  when the log level is trace.
* Undefined behaviour in containers: an unbounded event storage reallocates under
  readers; a deque is walked while another thread pushes.
* A storage of size zero (its `% 0` is excluded by `SizeAssumption`), exceptions in
  application code, things with equal ids, the set-up operations of a thing
  (`add_property`, `configure_*_storage`), JSON schemas, uuids, TLS, the bytes of
  packets, the members of a description that are not links.
* examples/gui-thing.cpp: a page and a slot machine whose credit is tested when an
  action is constructed and taken when it runs, in threads of its own without a lock:
  two games requested for one coin both pass the test, and the second to run throws in
  its detached thread, which ends the program. Nothing of the library is involved
  beyond what `ActionThreads` has. examples/single-thing.cpp is a part of the modelled example.
* mDNS answers SRV, A, AAAA, PTR and ANY questions; a question for TXT is taken
  note of and never answered (mdns.hpp:251), which `QuestionsAreAnswered` states.
  A service whose host has no IPv4 address, or whose enumeration fails, announces the one
  an earlier service found; `NoAddressOfAnEarlierStart` is about hosts that have one. And
  since a service stores what it found some time after it looked, a service that starts
  beside it may announce an address that the host has lost, for which its own server
  refuses clients: this is the exception named in `AnnouncedAddressIsAccepted`.
* `RefusedChangesNothing` names one exception: a POST whose action has no thread is
  answered with 400, and the action stays in the storage and announced.
* `ListenersKnowTheValues` is about what HTTP requests and sockets change. Threads of the
  application that change one value at the same time may leave listeners with an older
  one as the last notice; what holds of them is in `PropertyValue`.
* `LinksAreServed` is about the links that refer to a handler under the thing's href; the
  WebSocket alternate link and the link to a user interface (`ui_href`) are not among them.
* Hosts, as `Build` shows: the address 127.0.0.1 is not accepted as a host; a name that
  the builder was given is lowered, the one in a request is not, so that a request for
  "Gateway" is refused; IPv6 addresses are listed without the brackets that a Host
  header has, so that `AnnouncedAddressIsAccepted` is about IPv4; and the
  `<host>.local` that mDNS announces is a host only if the builder was given it.
* SIGINT: `InterruptEndsProgram` leaves out a signal that comes while the main thread
  is writing a line of the log. The handler's first statement logs, too, and then waits
  for a mutex that its own thread holds; the whole program hangs (`Hangs`). So does a
  signal whose `stop()` overtakes the start of the mDNS service, which is
  `LifecycleStopHangs`.
* A fade to the next lower level never ends: for a difference of -1 the step of
  multiple-things.cpp:49 is 1 + (-1) / 1 = 0. `FadeEnds` names the exception.

## Plan

Done: the modules above, and proofs of all their safety properties. What could come
next: an event of an unknown name, two fades at once, and what becomes of notices that
wait while the server stops.
