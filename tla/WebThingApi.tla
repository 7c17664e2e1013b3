------------------------------- MODULE WebThingApi -------------------------------
(***************************************************************************)
(* The HTTP and WebSocket interface of a WebThingServer (server.hpp) to    *)
(* its things, from the side of its clients. The handlers run one at a     *)
(* time in the event loop, so each is one action; what other threads may   *)
(* do in the middle of one is in ActionThreads and PropertyValue. What     *)
(* remains concurrent here: a PUT or POST is split into its head and its   *)
(* body, notices wait in the loop until they are published, sockets come   *)
(* and go, and threads of the application emit events.                     *)
(* A property, an action and the name of an event are pairs <<thing,       *)
(* name>>. A JSON value is its kind and a number that stands for its       *)
(* content. Where a URL leads is in Routing. The limit of the action       *)
(* storage is left to ActionThreads. An operator commented "Mutant" is a   *)
(* plausible bug in the one that follows it; Next uses none of them.       *)
(***************************************************************************)
EXTENDS Routing

CONSTANTS Server,      \* the server, as Routing builds it
          Request,     \* the heads of requests clients send: [method, host, path]
          OtherServers,  \* servers whose links are checked beside this one's
          Property,    \* the properties of all things
          TypeOf,      \* [Property -> {"bool", "int", "double", "string", "json"}]
          Allowed,     \* [Property -> SUBSET Int]: what the metadata's schema allows
          ReadOnly,    \* the properties with "readOnly": true
          Initial,     \* [Property -> Int]
          Json,        \* [kind, n] values that a PUT carries
          PropertyObjects,  \* data of "setProperty": entries [name, json] in order
          ActionObjects,    \* data of "requestAction": entries [name, valid]
          HalfRange,   \* 2^31: int is -HalfRange .. HalfRange - 1
          Action,      \* the available actions
          Id,          \* the uuids of actions
          Event,       \* the events ever emitted
          NameOf,      \* [Event -> <<thing, name>>]
          Available,   \* the available events
          MaxSize,     \* StorageConfig::max_size of the event storages
          Emitter,     \* threads of the application
          Client,      \* HTTP connections
          Socket,      \* WebSocket connections
          MaxRequests  \* bound: HTTP requests and WebSocket messages

Thing == Range(Server.things)

AllServers == {Server} \cup OtherServers

ASSUME ServerAssumption == \A server \in AllServers : WellFormed(server)
ASSUME RequestAssumption == \A r \in Request : r.path \in Seq(Range(r.path)) \ {<<>>}
\* Names and ids are segments of paths. The code takes an empty name too: no route
\* takes what its links refer to.
ASSUME SegmentAssumption ==
    /\ \A part \in Property \cup Action \cup Available : part[2] # ""
    /\ "" \notin Id
ASSUME ThingAssumption ==
    /\ Property \cup Action \cup Available \subseteq Thing \X {pair[2] : pair \in Property \cup Action \cup Available}
    /\ TypeOf \in [Property -> {"bool", "int", "double", "string", "json"}]
    /\ \A p \in Property : Allowed[p] \subseteq Int
    /\ Initial \in [Property -> Int]
    /\ ReadOnly \subseteq Property
    /\ DOMAIN NameOf = Event
    /\ \A e \in Event : NameOf[e][1] \in Thing
ASSUME ObjectAssumption ==
    \A entries \in PropertyObjects \cup ActionObjects : entries \in Seq(Range(entries))
ASSUME NumberAssumption == /\ HalfRange \in Nat \ {0}
                           /\ MaxSize \in Nat \ {0}
                           /\ MaxRequests \in Nat
ASSUME NoneAssumption == None \notin Thing \cup Property \cup Event \cup Action \cup Id \cup Emitter
ASSUME DisjointAssumption == Property \cap Id = {} /\ Property \cap Event = {} /\ Id \cap Event = {}

VARIABLES value,      \* the last_value of each property's Value
          actions,    \* the ids of each action that are stored
          uuids,      \* history: the action each id was generated for
          events,     \* Thing::events of each thing, oldest first
          emitting,   \* what each emitter has stored and not yet notified
          body,       \* the request whose body each client still sends
          reply,      \* the status that this step answers a client with, or 0
          open,       \* the thing each socket is connected to
          topics,     \* the topics each is subscribed to
          heard,      \* the messages each has received since it connected
          deferred,   \* notices waiting in the loop
          requests,   \* history: requests begun
          emitted,    \* history: all events, in the order they were stored
          emitter,    \* history: the thread that emitted each event
          changed     \* history: properties changed since each socket connected

handlerVars == <<value, actions, uuids, deferred, changed>>
socketVars == <<open, topics, heard>>
eventVars == <<events, emitting, emitted, emitter>>
vars == <<handlerVars, body, reply, socketVars, eventVars, requests>>

Init == /\ value = Initial
        /\ actions = [a \in Action |-> {}]
        /\ uuids = [i \in Id |-> None]
        /\ events = [t \in Thing |-> <<>>]
        /\ emitting = [t \in Emitter |-> None]
        /\ body = [c \in Client |-> None]
        /\ reply = 0
        /\ open = [s \in Socket |-> None]
        /\ topics = [s \in Socket |-> {}]
        /\ heard = [s \in Socket |-> <<>>]
        /\ deferred = <<>>
        /\ requests = 0
        /\ emitted = <<>>
        /\ emitter = [e \in Event |-> None]
        /\ changed = [s \in Socket |-> {}]

Reply(status) == reply' = status
NoReply == reply' = 0

BeginRequest == requests < MaxRequests /\ requests' = requests + 1

Notice(topic, about, content) == [topic |-> topic, about |-> about, content |-> content]

---------------------------------------------------------------------------------
(* Setting properties and performing actions. A handler goes through a list of *)
(* entries; what it has done so far is a record.                               *)

\* json::get<int>() keeps the low bits.
Wrap(n) == ((n + HalfRange) % (2 * HalfRange)) - HalfRange

\* prop_setter and PropertyBase::set_value: the value that reaches the property of
\* a type, or none when set_value throws "Property value type not matching". All
\* integers are taken as int first; a property of double takes numbers and bools.
Converted(type, v) ==
    CASE v.kind = "int" -> IF type \in {"int", "double"} THEN {Wrap(v.n)} ELSE {}
      [] v.kind = "double" -> IF type = "double" THEN {v.n} ELSE {}
      [] v.kind = "bool" -> IF type \in {"bool", "double"} THEN {v.n} ELSE {}
      [] OTHER -> IF type = v.kind THEN {v.n} ELSE {}

\* Mutant: the value is validated as it was sent, before the conversion.
AcceptedAsSent(p, v) ==
    IF p \in ReadOnly \/ v.n \notin Allowed[p] THEN {} ELSE Converted(TypeOf[p], v)

\* Property::validate_value: what is set, or none when a PropertyError is thrown.
Accepted(p, v) ==
    IF p \in ReadOnly THEN {} ELSE Converted(TypeOf[p], v) \cap Allowed[p]

Now == [value |-> value, actions |-> actions, uuids |-> uuids, deferred |-> deferred]

\* Mutant: a property that has a notice waiting is not announced again.
ChangeOnce(done, p, n) ==
    [done EXCEPT !.value[p] = n,
                 !.deferred = IF \E i \in DOMAIN @ : @[i].about = p THEN @
                              ELSE Append(@, Notice(<<p[1], "properties">>, p, n))]

\* Value::set: a value that differs is stored and announced.
Change(done, p, n) ==
    IF done.value[p] = n THEN done
    ELSE [done EXCEPT !.value[p] = n,
                      !.deferred = Append(@, Notice(<<p[1], "properties">>, p, n))]

\* Thing::set_property: a name the thing does not have is ignored.
SetProperty(done, p, json) ==
    IF p \in Property /\ Accepted(p, json) # {}
    THEN Change(done, p, CHOOSE n \in Accepted(p, json) : TRUE)
    ELSE done

Refused(p, json) == p \in Property /\ Accepted(p, json) = {}

NoIdLeft(done) == \A i \in Id : done.uuids[i] # None
IdsLeft(n) == Cardinality({i \in Id : uuids[i] = None}) >= n
FreshId(done) == CHOOSE i \in Id : done.uuids[i] = None

\* Mutant: the action is announced before its input is validated.
AnnounceThenValidate(done, action, valid) ==
    LET id == FreshId(done) IN
    IF action \notin Action \/ NoIdLeft(done) THEN done
    ELSE [done EXCEPT !.uuids[id] = action,
                      !.actions[action] = IF valid THEN @ \cup {id} ELSE @,
                      !.deferred = Append(@, Notice(<<action[1], "actions">>, id, 0))]

\* Thing::perform_action: nullptr for an unknown name, an invalid input and a
\* supplier that throws; else the action is announced and stored under a new id. The
\* bound Id is in the guards of the handlers (IdsLeft), so that there is one.
PerformAction(done, action, valid) ==
    LET id == FreshId(done) IN
    IF action \notin Action \/ ~valid \/ NoIdLeft(done) THEN done
    ELSE [done EXCEPT !.uuids[id] = action,
                      !.actions[action] = @ \cup {id},
                      !.deferred = Append(@, Notice(<<action[1], "actions">>, id, 0))]

\* Thing::set_property for the entries of an object, one after the other.
SetEach(done, thing, entries) ==
    LET after[k \in 0 .. Len(entries)] ==
            IF k = 0 THEN done
            ELSE SetProperty(after[k - 1], <<thing, entries[k].name>>, entries[k].json)
    IN  after[Len(entries)]

\* Thing::perform_action for the entries of an object, one after the other.
PerformEach(done, thing, entries) ==
    LET after[k \in 0 .. Len(entries)] ==
            IF k = 0 THEN done
            ELSE PerformAction(after[k - 1], <<thing, entries[k].name>>, entries[k].valid)
    IN  after[Len(entries)]

\* The handler has done this.
Finish(done) ==
    /\ value' = done.value
    /\ actions' = done.actions
    /\ uuids' = done.uuids
    /\ deferred' = done.deferred
    /\ changed' = [s \in Socket |-> IF open[s] = None THEN {}
                      ELSE changed[s] \cup {p \in Property : done.value[p] # value[p]}]

---------------------------------------------------------------------------------
(* HTTP *)

KnownHosts == {r \in Request : ValidateHost(Server, r.host)}

\* What delegate_request passes on, with the path for the handler of the rest.
Dispatched == {[path |-> r.path] @@ Dispatch(Server, r.method, r.path) : r \in KnownHosts}

Dispatches(handler) == {d \in Dispatched : d.handler = handler}

\* The status with which a handler answers that changes nothing and reads nothing
\* that changes; a PUT of an action is not implemented. Events and actions are
\* listed by name, whatever the name.
StatusOf(d) ==
    CASE d.handler = "handle_invalid_requests" ->
            IF Location(Server, d.path) # None THEN 301 ELSE 405
      [] d.handler = "handle_options_requests" -> 204
      [] d.handler = "handle_things" -> 200
      [] d.thing = None -> 404
      [] d.handler = "handle_property_get" -> IF <<d.thing, d.name>> \in Property THEN 200 ELSE 404
      [] OTHER -> 200

ReadHandler == {"handle_invalid_requests", "handle_options_requests", "handle_things",
                "handle_thing", "handle_properties", "handle_property_get",
                "handle_actions_get", "handle_action_id_put", "handle_events"}

\* The answers that do not wait for a body: those of the handlers that only read,
\* 403 for a host that validate_host does not know, and 404 for the PUT of a
\* property and the POST of an action of a thing that do not exist.
Answers ==
    {StatusOf(d) : d \in {e \in Dispatched : e.handler \in ReadHandler}}
    \cup {403 : r \in Request \ KnownHosts}
    \cup {404 : d \in {e \in Dispatches("handle_property_put") :
                           <<e.thing, e.name>> \notin Property}}
    \cup {404 : d \in {e \in Dispatches("handle_actions_post") : e.thing = None}}

Answer(c, status) ==
    /\ body[c] = None
    /\ BeginRequest
    /\ Reply(status)
    /\ UNCHANGED <<handlerVars, body, socketVars, eventVars>>

Targets(dispatches) == {<<d.thing, d.name>> : d \in {e \in dispatches : e.thing # None}}

GetTargets == Targets(Dispatches("handle_action_id_get"))

\* handle_action_id_get
GetAction(c, action, id) ==
    /\ body[c] = None
    /\ BeginRequest
    /\ Reply(IF action \in Action /\ id \in actions[action] THEN 200 ELSE 404)
    /\ UNCHANGED <<handlerVars, body, socketVars, eventVars>>

\* handle_property_put and handle_actions_post up to res->onData: the thing and
\* the property, not an action's name, are looked up before the body arrives.
RequestHead(c, method, target) ==
    /\ body[c] = None
    /\ BeginRequest
    /\ body' = [body EXCEPT ![c] = [method |-> method, target |-> target]]
    /\ NoReply
    /\ UNCHANGED <<handlerVars, socketVars, eventVars>>

PutTargets == Targets(Dispatches("handle_property_put")) \cap Property

\* The name is None for /actions and else that of /actions/:action_name.
PostTargets == Targets(Dispatches("handle_actions_post"))

PutHead(c, p) == RequestHead(c, "PUT", p)
PostHead(c, target) == RequestHead(c, "POST", target)

\* A piece of the body that is not the last one is dropped. Only the last one is
\* parsed, which may be a part of a document, and then bad, or happen to be a whole one.
BodyPiece(c) ==
    /\ body[c] # None
    /\ NoReply
    /\ UNCHANGED <<handlerVars, body, socketVars, eventVars, requests>>

BodyEnds(c) == /\ body[c] # None
               /\ body' = [body EXCEPT ![c] = None]
               /\ UNCHANGED <<socketVars, eventVars, requests>>

\* The last piece is empty, not JSON or lacks the property or action.
BadBody(c) ==
    /\ BodyEnds(c)
    /\ Reply(400)
    /\ UNCHANGED handlerVars

\* The last piece of the body of a PUT is {"<property>": v}.
PutBody(c, v) ==
    LET p == body[c].target IN
    /\ BodyEnds(c)
    /\ body[c].method = "PUT"
    /\ Finish(SetProperty(Now, p, v))
    /\ Reply(IF Refused(p, v) THEN 400 ELSE 200)

\* The last piece of the body of a POST is {"<name>": {"input": ...}}.
PostBody(c, name, valid) ==
    LET action == <<body[c].target[1], name>> IN
    /\ BodyEnds(c)
    /\ body[c].method = "POST"
    /\ body[c].target[2] \in {None, name}
    /\ IdsLeft(1)
    /\ Finish(PerformAction(Now, action, valid))
    /\ Reply(IF actions' = actions THEN 400 ELSE 201)

\* So it is, and the system has no thread for the action: std::thread throws when it
\* has been announced and stored, and stays both.
PostWithoutThread(c, name) ==
    LET action == <<body[c].target[1], name>> IN
    /\ BodyEnds(c)
    /\ body[c].method = "POST"
    /\ body[c].target[2] \in {None, name}
    /\ IdsLeft(1)
    /\ action \in Action
    /\ Finish(PerformAction(Now, action, TRUE))
    /\ Reply(400)

\* A client that goes away in the middle of a body.
Abort(c) == BodyEnds(c) /\ NoReply /\ UNCHANGED handlerVars

DeleteTargets == Targets(Dispatches("handle_action_id_delete"))

\* handle_action_id_delete
Delete(c, action, id) ==
    /\ body[c] = None
    /\ BeginRequest
    /\ IF action \in Action /\ id \in actions[action]
       THEN actions' = [actions EXCEPT ![action] = @ \ {id}] /\ Reply(204)
       ELSE UNCHANGED actions /\ Reply(404)
    /\ UNCHANGED <<value, uuids, deferred, changed, body, socketVars, eventVars>>

\* The names of a body: of the actions of all things, and one that nothing has.
ActionNames == {action[2] : action \in Action} \cup {None}

HttpRequest(c) ==
    \/ \E status \in Answers : Answer(c, status)
    \/ \E action \in GetTargets, id \in Id : GetAction(c, action, id)
    \/ \E p \in PutTargets : PutHead(c, p)
    \/ \E target \in PostTargets : PostHead(c, target)
    \/ BodyPiece(c)
    \/ BadBody(c)
    \/ \E v \in Json : PutBody(c, v)
    \/ \E name \in ActionNames, valid \in BOOLEAN : PostBody(c, name, valid)
    \/ \E name \in ActionNames : PostWithoutThread(c, name)
    \/ Abort(c)
    \/ \E action \in DeleteTargets, id \in Id : Delete(c, action, id)

---------------------------------------------------------------------------------
(* What handle_properties answers *)

\* Thing::get_properties
GetProperties(t) == [name \in {p[2] : p \in {q \in Property : q[1] = t}} |-> value[<<t, name>>]]

---------------------------------------------------------------------------------
(* WebSockets *)

EventTopic(event) == <<event[1], "events", event[2]>>

\* ws_behavior.open, of the route that each thing has at its href.
Open(s, t) ==
    /\ open[s] = None
    /\ open' = [open EXCEPT ![s] = t]
    /\ topics' = [topics EXCEPT ![s] = {<<t, "properties">>, <<t, "actions">>}]
    /\ NoReply
    /\ UNCHANGED <<handlerVars, body, heard, eventVars, requests>>

\* ws_behavior.close, after which the server forgets the subscriptions.
Close(s) ==
    /\ open[s] # None
    /\ open' = [open EXCEPT ![s] = None]
    /\ topics' = [topics EXCEPT ![s] = {}]
    /\ heard' = [heard EXCEPT ![s] = <<>>]
    /\ changed' = [changed EXCEPT ![s] = {}]
    /\ NoReply
    /\ UNCHANGED <<value, actions, uuids, deferred, body, eventVars, requests>>

Message(s) == open[s] # None /\ BeginRequest /\ NoReply /\ UNCHANGED <<body, open, eventVars>>

Error == Notice(<<None, "error">>, None, 400)

\* A message that is not JSON, has no type or data, or an unknown type.
Malformed(s) ==
    /\ Message(s)
    /\ heard' = [heard EXCEPT ![s] = Append(@, Error)]
    /\ UNCHANGED <<handlerVars, topics>>

\* "addEventSubscription": the names are not checked.
AddEventSubscription(s, names) ==
    /\ Message(s)
    /\ topics' = [topics EXCEPT ![s] = @ \cup {EventTopic(<<open[s], n>>) : n \in names}]
    /\ UNCHANGED <<handlerVars, heard>>

\* "setProperty": entry by entry, an error message at once for each refused one.
SetProperties(s, entries) ==
    LET refused == {k \in DOMAIN entries : Refused(<<open[s], entries[k].name>>, entries[k].json)}
    IN  /\ Message(s)
        /\ Finish(SetEach(Now, open[s], entries))
        /\ heard' = [heard EXCEPT ![s] = @ \o [i \in 1 .. Cardinality(refused) |-> Error]]
        /\ UNCHANGED topics

\* "requestAction": entry by entry; an action that is not performed is ignored.
RequestActions(s, entries) ==
    /\ Message(s)
    /\ IdsLeft(Cardinality({k \in DOMAIN entries :
                   entries[k].valid /\ <<open[s], entries[k].name>> \in Action}))
    /\ Finish(PerformEach(Now, open[s], entries))
    /\ UNCHANGED <<topics, heard>>

EventNames == {event[2] : event \in Available \cup Range(NameOf)}

WebSocketMessage(s) ==
    \/ Malformed(s)
    \/ \E names \in SUBSET EventNames : AddEventSubscription(s, names)
    \/ \E entries \in PropertyObjects : SetProperties(s, entries)
    \/ \E entries \in ActionObjects : RequestActions(s, entries)

---------------------------------------------------------------------------------
(* Events and the loop *)

\* Mutant: nothing is evicted.
KeepAllEvents(s) == s

LatestEvents(s) == IF Len(s) <= MaxSize THEN s ELSE Tail(s)

\* Mutant: the storage does not take an event when it is full.
AddEventIfRoom(t, e) ==
    /\ emitting[t] = None
    /\ emitter[e] = None
    /\ events' = [events EXCEPT ![NameOf[e][1]] = IF Len(@) < MaxSize THEN Append(@, e) ELSE @]
    /\ emitted' = Append(emitted, e)
    /\ emitter' = [emitter EXCEPT ![e] = t]
    /\ emitting' = [emitting EXCEPT ![t] = e]
    /\ NoReply
    /\ UNCHANGED <<handlerVars, body, socketVars, requests>>

\* Thing::add_event: events.add(event) ...
AddEvent(t, e) ==
    /\ emitting[t] = None
    /\ emitter[e] = None
    /\ events' = [events EXCEPT ![NameOf[e][1]] = LatestEvents(Append(@, e))]
    /\ emitted' = Append(emitted, e)
    /\ emitter' = [emitter EXCEPT ![e] = t]
    /\ emitting' = [emitting EXCEPT ![t] = e]
    /\ NoReply
    /\ UNCHANGED <<handlerVars, body, socketVars, requests>>

\* ... and event_notify(*event), which is silent about a name that is not available.
EventNotify(t) ==
    LET e == emitting[t] IN
    /\ e # None
    /\ deferred' = IF NameOf[e] \in Available
                   THEN Append(deferred, Notice(EventTopic(NameOf[e]), e, 0)) ELSE deferred
    /\ emitting' = [emitting EXCEPT ![t] = None]
    /\ NoReply
    /\ UNCHANGED <<value, actions, uuids, changed, body, socketVars, events, emitted,
                   emitter, requests>>

\* Mutant: the topics of all things are the same.
DeliverToAnyThing(notice) ==
    heard' = [s \in Socket |-> IF \E topic \in topics[s] : Tail(topic) = Tail(notice.topic)
                              THEN Append(heard[s], notice) ELSE heard[s]]

\* emit_event, with a name or with an event
EmitEvent(t) == (\E e \in Event : AddEvent(t, e)) \/ EventNotify(t)

\* web_server->publish(topic, message)
Deliver(notice) ==
    heard' = [s \in Socket |-> IF notice.topic \in topics[s] THEN Append(heard[s], notice)
                                                            ELSE heard[s]]

\* Mutant: the newest callback runs first.
PublishNewest ==
    /\ deferred # <<>>
    /\ deferred' = Front(deferred)
    /\ Deliver(Last(deferred))
    /\ NoReply
    /\ UNCHANGED <<value, actions, uuids, changed, body, open, topics, eventVars, requests>>

\* A callback of Loop::defer.
Publish ==
    /\ deferred # <<>>
    /\ deferred' = Tail(deferred)
    /\ Deliver(deferred[1])
    /\ NoReply
    /\ UNCHANGED <<value, actions, uuids, changed, body, open, topics, eventVars, requests>>

Next == \/ \E c \in Client : HttpRequest(c)
        \/ \E s \in Socket : (\E t \in Thing : Open(s, t)) \/ Close(s) \/ WebSocketMessage(s)
        \/ \E t \in Emitter : EmitEvent(t)
        \/ Publish

Spec == Init /\ [][Next]_vars

---------------------------------------------------------------------------------
(* Properties *)

Topic == {<<t, kind>> : t \in Thing, kind \in {"properties", "actions"}}
         \cup {<<None, "error">>} \cup {<<t, "events", n>> : t \in Thing, n \in EventNames}
Upload == [method : {"PUT"}, target : Property] \cup [method : {"POST"}, target : PostTargets]
NoticeSet == [topic : Topic, about : Property \cup Id \cup Event \cup {None}, content : Int]

TypeOK ==
    /\ value \in [Property -> Int]
    /\ actions \in [Action -> SUBSET Id]
    /\ uuids \in [Id -> Action \cup {None}]
    /\ \A action \in Action, id \in Id : id \in actions[action] => uuids[id] = action
    /\ events \in [Thing -> Seq(Event)]
    /\ \A t \in Thing : Len(events[t]) <= MaxSize
    /\ emitting \in [Emitter -> Event \cup {None}]
    /\ body \in [Client -> {None} \cup Upload]
    /\ reply \in {0, 200, 201, 204, 301, 400, 403, 404, 405}
    /\ open \in [Socket -> Thing \cup {None}]
    /\ topics \in [Socket -> SUBSET Topic]
    /\ heard \in [Socket -> Seq(NoticeSet)]
    /\ \A s \in Socket : open[s] = None => topics[s] = {} /\ heard[s] = <<>>
    /\ deferred \in Seq(NoticeSet)
    /\ requests \in 0 .. MaxRequests
    /\ emitted \in Seq(Event)
    /\ emitter \in [Event -> Emitter \cup {None}]
    /\ changed \in [Socket -> SUBSET Property]

\* A request that is answered with an error has changed nothing and announces
\* nothing, whatever other requests did between its head and its body. The one
\* exception is the POST of an action for which the system has no thread.
RefusedChangesNothing ==
    [][reply' >= 400 => \/ UNCHANGED <<handlerVars, eventVars>>
                        \/ \E c \in Client, name \in ActionNames : PostWithoutThread(c, name)]_vars

\* "Properties can only be changed from external when provided values are valid"
\* (property_tests.cpp:130): whatever JSON is converted to, a property never holds
\* a value that its metadata does not allow, and a read-only one never changes.
ValuesStayAllowed ==
    \A p \in Property : value[p] # Initial[p] => p \notin ReadOnly /\ value[p] \in Allowed[p]

\* The places of the messages about a property that a socket has heard.
HeardOf(s, p) == {i \in DOMAIN heard[s] : heard[s][i].about = p}

\* When the loop has no notice left, every socket knows the value of every property
\* of its thing that changed since it connected, from HTTP requests and from other
\* sockets: the last status it heard is what a GET answers, also for a socket that
\* connected while the notice was waiting.
ListenersKnowTheValues ==
    deferred = <<>> => \A s \in Socket, p \in Property : p[1] = open[s] =>
        IF HeardOf(s, p) = {} THEN p \notin changed[s]
        ELSE heard[s][Max(HeardOf(s, p))].content = GetProperties(open[s])[p[2]]

\* A socket that is connected to one thing hears nothing of another, though things
\* may have properties, actions and events of the same names and share the loop.
\* Whom a message is about is told by where it comes from, not by its topic.
ListenersHearOnlyTheirThing ==
    \A s \in Socket : \A i \in DOMAIN heard[s] :
        LET m == heard[s][i] IN
        /\ m.about \in Property => m.about[1] = open[s]
        /\ m.about \in Id => uuids[m.about][1] = open[s]
        /\ m.about \in Event => NameOf[m.about] \in Available /\ NameOf[m.about][1] = open[s]

\* An event that a listener hears of is in the storage of its thing, where a GET of
\* the events looks for it, unless as many newer events of the thing as the storage
\* holds have been emitted since. (A GET that reads the storage while an event is added
\* can miss one that is there: what it lists is in SimpleRingBuffer.)
HeardEventIsStored ==
    \A s \in Socket : \A i \in DOMAIN heard[s] :
        LET e == heard[s][i].about IN
        e \in Event =>
            \/ e \in Range(events[open[s]])
            \/ \E k \in DOMAIN emitted :
                  /\ emitted[k] = e
                  /\ Cardinality({l \in k + 1 .. Len(emitted) :
                                     NameOf[emitted[l]][1] = open[s]}) >= MaxSize

\* A listener hears the events of one thread in the order of their emission and
\* without repetition. Those of two threads may come in another order than the one
\* in which they are listed.
EventsOfAThreadInOrder ==
    \A s \in Socket : \A i, j \in DOMAIN heard[s] :
        LET d == heard[s][i].about
            e == heard[s][j].about
        IN  i < j /\ {d, e} \subseteq Event =>
                /\ d # e
                /\ emitter[d] = emitter[e] =>
                      \E k, l \in DOMAIN emitted : k < l /\ emitted[k] = d /\ emitted[l] = e

\* "Properties can only be changed from external when provided values are valid"
\* (property_tests.cpp:130): a PUT is answered with 200 only for a value that the
\* metadata allows as it was sent.
AcceptedAsRequested ==
    [][\A c \in Client, v \in Json :
          PutBody(c, v) /\ reply' = 200 => v.n \in Allowed[body[c].target]]_vars

\* The names of what a thing of this server, or of another one, has.
PartsOf(thing) == [properties |-> {p[2] : p \in {q \in Property : q[1] = thing}},
                   actions |-> {a[2] : a \in {b \in Action : b[1] = thing}},
                   events |-> {e[2] : e \in {f \in Available : f[1] = thing}}]

DescriptionsAreServed ==
    \A server \in AllServers : \A i \in DOMAIN server.things :
        \A link \in DescriptionLinks(server, i, PartsOf(server.things[i])) : IsServed(server, link)

\* The links of the actions that the i-th thing of the server may store.
ActionLinks(server, i) ==
    {ActionLink(server, i, name, id) : name \in PartsOf(server.things[i]).actions, id \in Id}

ActionsAreServed ==
    \A server \in AllServers : \A i \in DOMAIN server.things :
        \A link \in ActionLinks(server, i) : IsServed(server, link)

ActionIsStored == \E action \in Action : actions[action] # {}

\* Every link that a thing description, a property description or the description
\* of an action that is stored carries is served: a GET of it finds the handler it is
\* for, and there this very thing, name and id, whatever base path the server has and
\* however many things.
LinksAreServed ==
    /\ DescriptionsAreServed
    /\ ActionIsStored => ActionsAreServed

SlashesAreHarmless ==
    \A server \in AllServers, path \in {r.path : r \in Request} : SlashIsHarmless(server, path)

ActionSlashesAreHarmless ==
    \A server \in AllServers : \A i \in DOMAIN server.things :
        \A link \in ActionLinks(server, i) : SlashIsHarmless(server, link.href)

\* "It redirects urls with trailing slash to corresponding url without trailing
\* slash" (server_http_tests.cpp:243): a slash at the end makes no difference to the
\* paths of requests and to the links of stored actions, though a parameter may stand
\* where the slash leaves an empty segment.
TrailingSlashIsHarmless ==
    /\ SlashesAreHarmless
    /\ ActionIsStored => ActionSlashesAreHarmless
=================================================================================
