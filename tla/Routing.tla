--------------------------------- MODULE Routing ---------------------------------
(***************************************************************************)
(* Which handler of a WebThingServer (server.hpp) serves a request, for    *)
(* which thing and with which parameters, and the links that descriptions  *)
(* carry (thing.hpp, property.hpp, action.hpp). No state: all of it is     *)
(* settled when the server is built. A path is the sequence of what stands *)
(* between its slashes: "/" is <<"">>, "/a/b" is <<"a", "b">>, "/a/" is    *)
(* <<"a", "">>, and the empty string is <<>>.                              *)
(* An operator commented "Mutant" is a plausible bug in the next one.      *)
(***************************************************************************)
EXTENDS Integers, FiniteSets, SequencesExt

CONSTANTS Stoi,   \* std::stoi: [segments it can read -> Int]
          Lower,  \* std::tolower: [hostnames -> hostnames]
          None    \* no thing, no parameter

ASSUME StoiAssumption == \A segment \in DOMAIN Stoi : Stoi[segment] \in Int

---------------------------------------------------------------------------------
(* Building a server *)

\* ThingContainer
SingleThing(thing) == [type |-> "SingleThing", things |-> <<thing>>]
MultipleThings(things) == [type |-> "MultipleThings", things |-> things]

\* WebThingServer::host: the builder with its defaults
Host(container) ==
    [type |-> container.type, things |-> container.things, port |-> 80, hostname |-> None,
     base_path |-> <<"">>, disable_host_validation |-> FALSE]

\* The constructor of the server, on a host that has these addresses. It drops one
\* trailing slash of the base path. Where a host is given without a port, the port
\* is None.
Build(builder, addresses) ==
    LET path == builder.base_path
        names == {"localhost"} \cup addresses
                 \cup {Lower[name] : name \in {builder.hostname} \ {None}}
    IN  [type |-> builder.type, things |-> builder.things,
         hosts |-> [name : names, port : {None, builder.port}],
         base_path |-> IF Last(path) = "" THEN Front(path) ELSE path,
         disable_host_validation |-> builder.disable_host_validation]

---------------------------------------------------------------------------------
(* Routes *)

IsSingle(server) == server.type = "SingleThing"

\* Mutant: the things are counted from one.
HrefPrefixFromOne(server, i) ==
    server.base_path \o IF IsSingle(server) THEN <<>> ELSE <<ToString(i)>>

\* The prefix of every href of the i-th thing; its index counts from zero.
HrefPrefix(server, i) ==
    server.base_path \o IF IsSingle(server) THEN <<>> ELSE <<ToString(i - 1)>>

\* Thing::get_href, which is also where the thing's WebSocket route is.
ThingHref(server, i) ==
    IF HrefPrefix(server, i) # <<>> THEN HrefPrefix(server, i) ELSE <<"">>

Parameter == {":thing_id", ":property_name", ":action_name", ":action_id", ":event_name"}

\* The pattern of a thing, with which those of its routes begin.
RoutePrefix(server) == server.base_path \o IF IsSingle(server) THEN <<>> ELSE <<":thing_id">>

\* The routes of a thing: method, pattern after the prefix, handler.
ThingRoutes ==
    LET property == <<"properties", ":property_name">>
        action == <<"actions", ":action_name">>
        action_id == <<"actions", ":action_name", ":action_id">>
    IN  {<<"GET", <<>>, "handle_thing">>,
         <<"GET", <<"">>, "handle_thing">>,
         <<"GET", <<"properties">>, "handle_properties">>,
         <<"GET", property, "handle_property_get">>,
         <<"PUT", property, "handle_property_put">>,
         <<"GET", <<"actions">>, "handle_actions_get">>,
         <<"POST", <<"actions">>, "handle_actions_post">>,
         <<"GET", action, "handle_actions_get">>,
         <<"POST", action, "handle_actions_post">>,
         <<"GET", action_id, "handle_action_id_get">>,
         <<"PUT", action_id, "handle_action_id_put">>,
         <<"DELETE", action_id, "handle_action_id_delete">>,
         <<"GET", <<"events">>, "handle_events">>,
         <<"GET", <<"events", ":event_name">>, "handle_events">>}

Route(method, pattern, handler) == [method |-> method, pattern |-> pattern, handler |-> handler]

\* The routes of the list of things, which only a server of many has.
ListRoutes(server) ==
    IF IsSingle(server) THEN {}
    ELSE {Route("GET", server.base_path, "handle_things"),
          Route("GET", server.base_path \o <<"">>, "handle_things")}

\* initialize_webthing_routes
Routes(server) ==
    ListRoutes(server) \cup {Route(r[1], RoutePrefix(server) \o r[2], r[3]) : r \in ThingRoutes}

\* Mutant: a parameter may be empty.
MatchesEmpty(pattern, path) ==
    /\ Len(pattern) = Len(path)
    /\ \A i \in DOMAIN path : pattern[i] \in Parameter \/ pattern[i] = path[i]

\* uWS::HttpRouter: segment by segment; a parameter is not empty.
Matches(pattern, path) ==
    /\ Len(pattern) = Len(path)
    /\ \A i \in DOMAIN path :
          IF pattern[i] \in Parameter THEN path[i] # "" ELSE pattern[i] = path[i]

\* The routes a path matches: at most one, since no two have literals and
\* parameters in conflict.
Matching(server, method, path) ==
    {route \in Routes(server) : route.method = method /\ Matches(route.pattern, path)}

\* uWS::HttpRequest::getParameter: the segments that stand for parameters.
Parameters(pattern, path) ==
    LET at == {i \in DOMAIN path : pattern[i] \in Parameter}
    IN  [k \in 1 .. Cardinality(at) |->
            path[CHOOSE i \in at : Cardinality({j \in at : j <= i}) = k]]

\* ThingContainer::get_thing: the comparison with size() is unsigned.
GetThing(server, index) ==
    IF index \in 0 .. Len(server.things) - 1 THEN server.things[index + 1] ELSE None

\* find_thing_from_url; what std::stoi throws is caught.
FindThing(server, parameters) ==
    IF IsSingle(server) THEN GetThing(server, 0)
    ELSE IF parameters # <<>> /\ parameters[1] \in DOMAIN Stoi
         THEN GetThing(server, Stoi[parameters[1]]) ELSE None

\* find_param_after_thing_id_from_url
FindParameter(server, parameters, index) ==
    LET k == index + 1 + IF IsSingle(server) THEN 0 ELSE 1
    IN  IF k \in DOMAIN parameters THEN parameters[k] ELSE None

\* Where a request comes to. What has no route is for any("/*") and options("/*").
Dispatch(server, method, path) ==
    IF Matching(server, method, path) = {}
    THEN [handler |-> IF method = "OPTIONS" THEN "handle_options_requests"
                                            ELSE "handle_invalid_requests",
          thing |-> None, name |-> None, id |-> None]
    ELSE LET route == CHOOSE r \in Matching(server, method, path) : TRUE
             parameters == Parameters(route.pattern, path)
         IN  [handler |-> route.handler,
              thing |-> FindThing(server, parameters),
              name |-> FindParameter(server, parameters, 0),
              id |-> FindParameter(server, parameters, 1)]

\* handle_invalid_requests: where it redirects to, or None for a 405.
Location(server, path) ==
    IF Last(path) = "" /\ path # <<"">> /\ path # server.base_path \o <<"">>
    THEN Front(path) ELSE None

\* validate_host
ValidateHost(server, host) == server.disable_host_validation \/ host \in server.hosts

---------------------------------------------------------------------------------
(* Links: what a description of the i-th thing refers to, and what is to be    *)
(* found there                                                                 *)

Link(server, i, path, handler, name, id) ==
    [href |-> HrefPrefix(server, i) \o path,
     to |-> [handler |-> handler, thing |-> server.things[i], name |-> name, id |-> id]]

\* The description's own "href" and "base".
SelfLink(server, i) ==
    [href |-> ThingHref(server, i),
     to |-> [handler |-> "handle_thing", thing |-> server.things[i], name |-> None, id |-> None]]

\* PropertyBase::as_property_description
PropertyLink(server, i, name) ==
    Link(server, i, <<"properties", name>>, "handle_property_get", name, None)

\* Thing::as_thing_description; has is the record of the names of the thing's parts.
DescriptionLinks(server, i, has) ==
    {SelfLink(server, i),
     Link(server, i, <<"properties">>, "handle_properties", None, None),
     Link(server, i, <<"actions">>, "handle_actions_get", None, None),
     Link(server, i, <<"events">>, "handle_events", None, None)}
    \cup {PropertyLink(server, i, name) : name \in has.properties}
    \cup {Link(server, i, <<"actions", a>>, "handle_actions_get", a, None) : a \in has.actions}
    \cup {Link(server, i, <<"events", e>>, "handle_events", e, None) : e \in has.events}

\* Action::get_href, with which a POST is answered and notices of the action come.
ActionLink(server, i, name, id) ==
    Link(server, i, <<"actions", name, id>>, "handle_action_id_get", name, id)

IsServed(server, link) == Dispatch(server, "GET", link.href) = link.to

\* A GET of the path comes to the same with a slash at its end: at once, or after one
\* redirection.
SlashIsHarmless(server, path) ==
    LET slashed == path \o <<"">>
        found == Dispatch(server, "GET", slashed)
    IN  \/ found = Dispatch(server, "GET", path)
        \/ found.handler = "handle_invalid_requests" /\ Location(server, slashed) = path

\* A server as Build makes it of a builder whose base path has no parameters and does
\* not end with two slashes, for things whose indices std::stoi reads as written.
WellFormed(server) ==
    /\ server.things \in Seq(Range(server.things))
    /\ IsSingle(server) => Len(server.things) = 1
    /\ server.base_path \in Seq(Range(server.base_path) \ Parameter)
    /\ server.base_path # <<>> => Last(server.base_path) # ""
    /\ \A i \in DOMAIN server.things : /\ ToString(i - 1) \in DOMAIN Stoi \ {""}
                                       /\ Stoi[ToString(i - 1)] = i - 1
=================================================================================
