------------------------------ MODULE RoutingProofs ------------------------------
(***************************************************************************)
(* What is proved of Routing, for every well-formed server: a request      *)
(* matches at most one route, what its parameters are, every link leads to *)
(* what it names, and a slash at the end of a path makes no difference.    *)
(***************************************************************************)
EXTENDS Routing, FiniteSetTheorems, SequenceTheorems, TLAPS

---------------------------------------------------------------------------------
(* Patterns and paths *)

\* What stands between two slashes with nothing between them.
Empty == ""

LEMMA EmptyDiffers ==
    /\ Empty # "properties" /\ Empty # "actions" /\ Empty # "events"
    /\ Empty \notin Parameter
BY Zenon DEF Empty, Parameter

\* A segment of a pattern takes a segment of a path.
Takes(segment, s) == IF segment \in Parameter THEN s # Empty ELSE segment = s

LEMMA MatchesTakes ==
    ASSUME NEW S, NEW pattern \in Seq(S), NEW path \in Seq(S)
    PROVE  Matches(pattern, path) <=> /\ Len(pattern) = Len(path)
                                      /\ \A i \in 1 .. Len(path) : Takes(pattern[i], path[i])
<1>1. DOMAIN path = 1 .. Len(path)
  OBVIOUS
<1> QED
  BY <1>1, Zenon DEF Matches, Takes, Empty

\* A pattern in two pieces matches a path segment by segment, the first piece what
\* is as long as it and the second one the rest.
LEMMA MatchesInPieces ==
    ASSUME NEW S, NEW p \in Seq(S), NEW q \in Seq(S), NEW front \in Seq(S), NEW rest \in Seq(S),
           Len(p) = Len(front)
    PROVE  Matches(p \o q, front \o rest) <=> Matches(p, front) /\ Matches(q, rest)
<1>1. /\ p \o q \in Seq(S) /\ Len(p \o q) = Len(p) + Len(q)
      /\ front \o rest \in Seq(S) /\ Len(front \o rest) = Len(front) + Len(rest)
      /\ Len(front) \in Nat /\ Len(rest) \in Nat /\ Len(q) \in Nat
  BY ConcatProperties
<1>2. ASSUME NEW i \in 1 .. Len(front)
      PROVE  (p \o q)[i] = p[i] /\ (front \o rest)[i] = front[i]
  OBVIOUS
<1>3. ASSUME Len(q) = Len(rest), NEW i \in 1 .. Len(rest)
      PROVE  (p \o q)[Len(front) + i] = q[i] /\ (front \o rest)[Len(front) + i] = rest[i]
  BY <1>3
<1>4. ASSUME Len(p \o q) = Len(front \o rest),
             \A i \in 1 .. Len(front \o rest) : Takes((p \o q)[i], (front \o rest)[i])
      PROVE  /\ \A i \in 1 .. Len(front) : Takes(p[i], front[i])
             /\ Len(q) = Len(rest) /\ \A i \in 1 .. Len(rest) : Takes(q[i], rest[i])
  <2>1. Len(q) = Len(rest)
    BY <1>1, <1>4
  <2>2. ASSUME NEW i \in 1 .. Len(front) PROVE Takes(p[i], front[i])
    <3>1. i \in 1 .. Len(front \o rest)
      BY <1>1
    <3> QED
      BY <3>1, <1>2, <1>4
  <2>3. ASSUME NEW i \in 1 .. Len(rest) PROVE Takes(q[i], rest[i])
    <3>1. Len(front) + i \in 1 .. Len(front \o rest)
      BY <1>1
    <3>2. Takes((p \o q)[Len(front) + i], (front \o rest)[Len(front) + i])
      BY <3>1, <1>4
    <3>3. (p \o q)[Len(front) + i] = q[i] /\ (front \o rest)[Len(front) + i] = rest[i]
      BY <2>1, <1>3
    <3> QED
      BY <3>2, <3>3, Zenon
  <2> QED
    BY <2>1, <2>2, <2>3
<1>5. ASSUME \A i \in 1 .. Len(front) : Takes(p[i], front[i]), Len(q) = Len(rest),
             \A i \in 1 .. Len(rest) : Takes(q[i], rest[i])
      PROVE  /\ Len(p \o q) = Len(front \o rest)
             /\ \A i \in 1 .. Len(front \o rest) : Takes((p \o q)[i], (front \o rest)[i])
  <2>1. ASSUME NEW i \in 1 .. Len(front \o rest) PROVE Takes((p \o q)[i], (front \o rest)[i])
    <3>1. CASE i \in 1 .. Len(front)
      BY <3>1, <1>2, <1>5
    <3>2. CASE i \notin 1 .. Len(front)
      <4>1. PICK j \in 1 .. Len(rest) : i = Len(front) + j
        <5>1. i - Len(front) \in 1 .. Len(rest) /\ i = Len(front) + (i - Len(front))
          BY <3>2, <1>1
        <5> QED
          BY <5>1
      <4>2. (p \o q)[i] = q[j] /\ (front \o rest)[i] = rest[j]
        BY <4>1, <1>3, <1>5
      <4> QED
        BY <4>1, <4>2, <1>5, Zenon
    <3> QED
      BY <3>1, <3>2
  <2> QED
    BY <2>1, <1>1, <1>5
<1>6. /\ Matches(p \o q, front \o rest) <=>
             /\ Len(p \o q) = Len(front \o rest)
             /\ \A i \in 1 .. Len(front \o rest) : Takes((p \o q)[i], (front \o rest)[i])
      /\ Matches(p, front) <=> /\ Len(p) = Len(front)
                               /\ \A i \in 1 .. Len(front) : Takes(p[i], front[i])
      /\ Matches(q, rest) <=> /\ Len(q) = Len(rest)
                              /\ \A i \in 1 .. Len(rest) : Takes(q[i], rest[i])
  BY <1>1, MatchesTakes, Zenon
<1> QED
  BY <1>4, <1>5, <1>6, Zenon

\* Where the parameters of a pattern are.
ParametersAt(pattern, path) == {i \in DOMAIN path : pattern[i] \in Parameter}

\* The parameters are the segments at the places of the pattern's parameters, in
\* their order; at lists these places.
ListsParameters(at, m, pattern, path) ==
    /\ at \in [1 .. m -> Int]
    /\ ParametersAt(pattern, path) = {at[k] : k \in 1 .. m}
    /\ \A k, l \in 1 .. m : k < l => at[k] < at[l]

Segments(path, at, m) == [k \in 1 .. m |-> path[at[k]]]

LEMMA ParametersListed ==
    ASSUME NEW pattern, NEW path, NEW m \in Nat, NEW at, ListsParameters(at, m, pattern, path)
    PROVE  Parameters(pattern, path) = Segments(path, at, m)
<1> DEFINE all == ParametersAt(pattern, path)
           UpTo(i) == {j \in all : j <= i}
           first(k) == [l \in 1 .. k |-> at[l]]
<1>0. /\ at \in [1 .. m -> Int]
      /\ all = {at[k] : k \in 1 .. m}
      /\ \A k, l \in 1 .. m : k < l => at[k] < at[l]
  BY DEF ListsParameters
<1>1. ASSUME NEW k \in 1 .. m PROVE UpTo(at[k]) = {at[l] : l \in 1 .. k}
  <2>1. ASSUME NEW l \in 1 .. m PROVE at[l] <= at[k] <=> l \in 1 .. k
    <3>1. l < k \/ l = k \/ k < l
      OBVIOUS
    <3> QED
      BY <1>0, <3>1
  <2> QED
    BY <1>0, <2>1
<1>2. ASSUME NEW k \in 0 .. m PROVE Cardinality({at[l] : l \in 1 .. k}) = k
  <2>1. first(k) \in Bijection(1 .. k, {at[l] : l \in 1 .. k})
    <3>1. first(k) \in [1 .. k -> {at[l] : l \in 1 .. k}]
      OBVIOUS
    <3>2. ASSUME NEW a \in 1 .. k, NEW b \in 1 .. k, first(k)[a] = first(k)[b] PROVE a = b
      <4>1. at[a] = at[b] /\ a \in 1 .. m /\ b \in 1 .. m
        BY <3>2
      <4>2. a < b \/ a = b \/ b < a
        OBVIOUS
      <4> QED
        BY <1>0, <4>1, <4>2
    <3>3. \A t \in {at[l] : l \in 1 .. k} : \E a \in 1 .. k : first(k)[a] = t
      OBVIOUS
    <3> QED
      BY <3>1, <3>2, <3>3 DEF Bijection, Injection, IsInjective, Surjection
  <2>2. ExistsBijection(1 .. k, {at[l] : l \in 1 .. k})
    BY <2>1 DEF ExistsBijection
  <2>3. k \in Nat
    OBVIOUS
  <2> QED
    BY <2>2, <2>3, FS_CountingElements
<1>3. Cardinality(all) = m
  BY <1>0, <1>2
<1>4. ASSUME NEW k \in 1 .. m
      PROVE  (CHOOSE i \in all : Cardinality(UpTo(i)) = k) = at[k]
  <2>1. ASSUME NEW l \in 1 .. m PROVE Cardinality(UpTo(at[l])) = l
    BY <1>1, <1>2
  <2>2. \A i \in all : Cardinality(UpTo(i)) = k <=> i = at[k]
    BY <1>0, <2>1
  <2>3. at[k] \in all
    BY <1>0
  <2> QED
    BY <2>2, <2>3
<1>5. Parameters(pattern, path) =
          [k \in 1 .. m |-> path[CHOOSE i \in all : Cardinality(UpTo(i)) = k]]
  BY <1>3, Zenon DEF Parameters, ParametersAt
<1> QED
  BY <1>4, <1>5 DEF Segments
---------------------------------------------------------------------------------
(* The routes *)

Literal == Parameter \cup {Empty, "properties", "actions", "events"}

\* What there is among the routes of things, segment by segment.
ThingRouteIs(method, tail, handler) ==
    /\ tail \in Seq(Literal)
    /\ \/ method = "GET" /\ handler = "handle_thing" /\ Len(tail) = 0
       \/ /\ method = "GET" /\ handler = "handle_thing" /\ Len(tail) = 1
          /\ tail[1] = Empty
       \/ /\ method = "GET" /\ handler = "handle_properties" /\ Len(tail) = 1
          /\ tail[1] = "properties"
       \/ /\ method = "GET" /\ handler = "handle_property_get" /\ Len(tail) = 2
          /\ tail[1] = "properties" /\ tail[2] = ":property_name"
       \/ /\ method = "PUT" /\ handler = "handle_property_put" /\ Len(tail) = 2
          /\ tail[1] = "properties" /\ tail[2] = ":property_name"
       \/ /\ method = "GET" /\ handler = "handle_actions_get" /\ Len(tail) = 1
          /\ tail[1] = "actions"
       \/ /\ method = "POST" /\ handler = "handle_actions_post" /\ Len(tail) = 1
          /\ tail[1] = "actions"
       \/ /\ method = "GET" /\ handler = "handle_actions_get" /\ Len(tail) = 2
          /\ tail[1] = "actions" /\ tail[2] = ":action_name"
       \/ /\ method = "POST" /\ handler = "handle_actions_post" /\ Len(tail) = 2
          /\ tail[1] = "actions" /\ tail[2] = ":action_name"
       \/ /\ method = "GET" /\ handler = "handle_action_id_get" /\ Len(tail) = 3
          /\ tail[1] = "actions" /\ tail[2] = ":action_name" /\ tail[3] = ":action_id"
       \/ /\ method = "PUT" /\ handler = "handle_action_id_put" /\ Len(tail) = 3
          /\ tail[1] = "actions" /\ tail[2] = ":action_name" /\ tail[3] = ":action_id"
       \/ /\ method = "DELETE" /\ handler = "handle_action_id_delete" /\ Len(tail) = 3
          /\ tail[1] = "actions" /\ tail[2] = ":action_name" /\ tail[3] = ":action_id"
       \/ /\ method = "GET" /\ handler = "handle_events" /\ Len(tail) = 1
          /\ tail[1] = "events"
       \/ /\ method = "GET" /\ handler = "handle_events" /\ Len(tail) = 2
          /\ tail[1] = "events" /\ tail[2] = ":event_name"

LEMMA ThingRouteCases ==
    ASSUME NEW method, NEW tail, NEW handler, <<method, tail, handler>> \in ThingRoutes
    PROVE  ThingRouteIs(method, tail, handler)
<1> DEFINE r == <<method, tail, handler>>
<1>0. \/ r = <<"GET", <<>>, "handle_thing">>
      \/ r = <<"GET", <<Empty>>, "handle_thing">>
      \/ r = <<"GET", <<"properties">>, "handle_properties">>
      \/ r = <<"GET", <<"properties", ":property_name">>, "handle_property_get">>
      \/ r = <<"PUT", <<"properties", ":property_name">>, "handle_property_put">>
      \/ r = <<"GET", <<"actions">>, "handle_actions_get">>
      \/ r = <<"POST", <<"actions">>, "handle_actions_post">>
      \/ r = <<"GET", <<"actions", ":action_name">>, "handle_actions_get">>
      \/ r = <<"POST", <<"actions", ":action_name">>, "handle_actions_post">>
      \/ r = <<"GET", <<"actions", ":action_name", ":action_id">>, "handle_action_id_get">>
      \/ r = <<"PUT", <<"actions", ":action_name", ":action_id">>, "handle_action_id_put">>
      \/ r = <<"DELETE", <<"actions", ":action_name", ":action_id">>, "handle_action_id_delete">>
      \/ r = <<"GET", <<"events">>, "handle_events">>
      \/ r = <<"GET", <<"events", ":event_name">>, "handle_events">>
  BY Zenon DEF ThingRoutes, Empty
<1>1. CASE r = <<"GET", <<>>, "handle_thing">>
  <2>1. method = "GET" /\ tail = <<>> /\ handler = "handle_thing"
    BY <1>1
  <2>2. Len(tail) = 0
    BY <2>1
  <2>3. tail \in Seq(Literal)
    BY <2>1 DEF Literal, Parameter
  <2> QED
    BY <2>1, <2>2, <2>3 DEF ThingRouteIs
<1>2. CASE r = <<"GET", <<Empty>>, "handle_thing">>
  <2>1. method = "GET" /\ tail = <<Empty>> /\ handler = "handle_thing"
    BY <1>2
  <2>2. Len(tail) = 1
    BY <2>1
  <2>3. tail[1] = Empty
    BY <2>1
  <2>4. tail \in Seq(Literal)
    BY <2>1 DEF Literal
  <2> QED
    BY <2>1, <2>2, <2>3, <2>4 DEF ThingRouteIs
<1>3. CASE r = <<"GET", <<"properties">>, "handle_properties">>
  <2>1. method = "GET" /\ tail = <<"properties">> /\ handler = "handle_properties"
    BY <1>3
  <2>2. Len(tail) = 1 /\ tail[1] = "properties"
    BY <2>1
  <2>3. tail \in Seq(Literal)
    BY <2>1 DEF Literal, Parameter
  <2> QED
    BY <2>1, <2>2, <2>3 DEF ThingRouteIs
<1>4. CASE r = <<"GET", <<"properties", ":property_name">>, "handle_property_get">>
  <2>1. method = "GET" /\ tail = <<"properties", ":property_name">> /\ handler = "handle_property_get"
    BY <1>4
  <2>2. Len(tail) = 2 /\ tail[1] = "properties" /\ tail[2] = ":property_name"
    BY <2>1
  <2>3. tail \in Seq(Literal)
    BY <2>1 DEF Literal, Parameter
  <2> QED
    BY <2>1, <2>2, <2>3 DEF ThingRouteIs
<1>5. CASE r = <<"PUT", <<"properties", ":property_name">>, "handle_property_put">>
  <2>1. method = "PUT" /\ tail = <<"properties", ":property_name">> /\ handler = "handle_property_put"
    BY <1>5
  <2>2. Len(tail) = 2 /\ tail[1] = "properties" /\ tail[2] = ":property_name"
    BY <2>1
  <2>3. tail \in Seq(Literal)
    BY <2>1 DEF Literal, Parameter
  <2> QED
    BY <2>1, <2>2, <2>3 DEF ThingRouteIs
<1>6. CASE r = <<"GET", <<"actions">>, "handle_actions_get">>
  <2>1. method = "GET" /\ tail = <<"actions">> /\ handler = "handle_actions_get"
    BY <1>6
  <2>2. Len(tail) = 1 /\ tail[1] = "actions"
    BY <2>1
  <2>3. tail \in Seq(Literal)
    BY <2>1 DEF Literal, Parameter
  <2> QED
    BY <2>1, <2>2, <2>3 DEF ThingRouteIs
<1>7. CASE r = <<"POST", <<"actions">>, "handle_actions_post">>
  <2>1. method = "POST" /\ tail = <<"actions">> /\ handler = "handle_actions_post"
    BY <1>7
  <2>2. Len(tail) = 1 /\ tail[1] = "actions"
    BY <2>1
  <2>3. tail \in Seq(Literal)
    BY <2>1 DEF Literal, Parameter
  <2> QED
    BY <2>1, <2>2, <2>3 DEF ThingRouteIs
<1>8. CASE r = <<"GET", <<"actions", ":action_name">>, "handle_actions_get">>
  <2>1. method = "GET" /\ tail = <<"actions", ":action_name">> /\ handler = "handle_actions_get"
    BY <1>8
  <2>2. Len(tail) = 2 /\ tail[1] = "actions" /\ tail[2] = ":action_name"
    BY <2>1
  <2>3. tail \in Seq(Literal)
    BY <2>1 DEF Literal, Parameter
  <2> QED
    BY <2>1, <2>2, <2>3 DEF ThingRouteIs
<1>9. CASE r = <<"POST", <<"actions", ":action_name">>, "handle_actions_post">>
  <2>1. method = "POST" /\ tail = <<"actions", ":action_name">> /\ handler = "handle_actions_post"
    BY <1>9
  <2>2. Len(tail) = 2 /\ tail[1] = "actions" /\ tail[2] = ":action_name"
    BY <2>1
  <2>3. tail \in Seq(Literal)
    BY <2>1 DEF Literal, Parameter
  <2> QED
    BY <2>1, <2>2, <2>3 DEF ThingRouteIs
<1>10. CASE r = <<"GET", <<"actions", ":action_name", ":action_id">>, "handle_action_id_get">>
  <2>1. method = "GET" /\ tail = <<"actions", ":action_name", ":action_id">> /\ handler = "handle_action_id_get"
    BY <1>10
  <2>2. Len(tail) = 3 /\ tail[1] = "actions" /\ tail[2] = ":action_name" /\ tail[3] = ":action_id"
    BY <2>1
  <2>3. tail \in Seq(Literal)
    BY <2>1 DEF Literal, Parameter
  <2> QED
    BY <2>1, <2>2, <2>3 DEF ThingRouteIs
<1>11. CASE r = <<"PUT", <<"actions", ":action_name", ":action_id">>, "handle_action_id_put">>
  <2>1. method = "PUT" /\ tail = <<"actions", ":action_name", ":action_id">> /\ handler = "handle_action_id_put"
    BY <1>11
  <2>2. Len(tail) = 3 /\ tail[1] = "actions" /\ tail[2] = ":action_name" /\ tail[3] = ":action_id"
    BY <2>1
  <2>3. tail \in Seq(Literal)
    BY <2>1 DEF Literal, Parameter
  <2> QED
    BY <2>1, <2>2, <2>3 DEF ThingRouteIs
<1>12. CASE r = <<"DELETE", <<"actions", ":action_name", ":action_id">>, "handle_action_id_delete">>
  <2>1. method = "DELETE" /\ tail = <<"actions", ":action_name", ":action_id">> /\ handler = "handle_action_id_delete"
    BY <1>12
  <2>2. Len(tail) = 3 /\ tail[1] = "actions" /\ tail[2] = ":action_name" /\ tail[3] = ":action_id"
    BY <2>1
  <2>3. tail \in Seq(Literal)
    BY <2>1 DEF Literal, Parameter
  <2> QED
    BY <2>1, <2>2, <2>3 DEF ThingRouteIs
<1>13. CASE r = <<"GET", <<"events">>, "handle_events">>
  <2>1. method = "GET" /\ tail = <<"events">> /\ handler = "handle_events"
    BY <1>13
  <2>2. Len(tail) = 1 /\ tail[1] = "events"
    BY <2>1
  <2>3. tail \in Seq(Literal)
    BY <2>1 DEF Literal, Parameter
  <2> QED
    BY <2>1, <2>2, <2>3 DEF ThingRouteIs
<1>14. CASE r = <<"GET", <<"events", ":event_name">>, "handle_events">>
  <2>1. method = "GET" /\ tail = <<"events", ":event_name">> /\ handler = "handle_events"
    BY <1>14
  <2>2. Len(tail) = 2 /\ tail[1] = "events" /\ tail[2] = ":event_name"
    BY <2>1
  <2>3. tail \in Seq(Literal)
    BY <2>1 DEF Literal, Parameter
  <2> QED
    BY <2>1, <2>2, <2>3 DEF ThingRouteIs
<1> QED
  BY <1>0, <1>1, <1>2, <1>3, <1>4, <1>5, <1>6, <1>7, <1>8, <1>9, <1>10, <1>11, <1>12, <1>13, <1>14

LEMMA ThingRouteTypes ==
    ASSUME NEW r \in ThingRoutes
    PROVE  /\ r = <<r[1], r[2], r[3]>>
           /\ r[2] \in Seq(Literal)
<1>1. \E method, tail, handler : r = <<method, tail, handler>>
  BY Zenon DEF ThingRoutes
<1>2. PICK method, tail, handler : r = <<method, tail, handler>>
  BY <1>1
<1>3. r = <<r[1], r[2], r[3]>> /\ r[2] = tail
  BY <1>2
<1>4. tail \in Seq(Literal)
  BY <1>2, ThingRouteCases, Zenon DEF ThingRouteIs
<1> QED
  BY <1>3, <1>4

\* The parameter after a first segment.
Second(first) == IF first = "properties" THEN ":property_name"
                 ELSE IF first = "actions" THEN ":action_name" ELSE ":event_name"

LEMMA ThingRouteShape ==
    ASSUME NEW S, NEW rest \in Seq(S), NEW method, NEW tail, NEW handler,
           <<method, tail, handler>> \in ThingRoutes, Matches(tail, rest)
    PROVE  /\ tail \in Seq(Literal) /\ Len(tail) = Len(rest)
           /\ Len(rest) \in 0 .. 3
           /\ Len(rest) >= 1 => tail[1] = rest[1]
           /\ Len(rest) >= 2 => tail[2] = Second(rest[1]) /\ rest[2] # Empty
           /\ Len(rest) >= 3 => tail[3] = ":action_id" /\ rest[3] # Empty
<1>0. ThingRouteIs(method, tail, handler)
  BY ThingRouteCases, Zenon
<1>1. tail \in Seq(Literal)
  BY <1>0 DEF ThingRouteIs
<1>2. tail \in Seq(S \cup Literal) /\ rest \in Seq(S \cup Literal)
  <2>1. S \subseteq S \cup Literal /\ Literal \subseteq S \cup Literal
    OBVIOUS
  <2> QED
    BY <1>1, <2>1, SeqMonotonic, Zenon
<1>3. Len(tail) = Len(rest) /\ \A i \in 1 .. Len(rest) : Takes(tail[i], rest[i])
  BY <1>2, MatchesTakes, Zenon
<1>4. Len(rest) \in Nat
  OBVIOUS
<1>5. Len(rest) \in 0 .. 3
  BY <1>3, <1>0 DEF ThingRouteIs
<1>6. \A i \in 1 .. Len(rest) : /\ tail[i] \in Parameter => rest[i] # Empty
                                /\ tail[i] \notin Parameter => tail[i] = rest[i]
  BY <1>3, Zenon DEF Takes
<1>7. ASSUME Len(rest) >= 1 PROVE tail[1] = rest[1]
  <2>1. tail[1] \notin Parameter
    BY <1>0, <1>3, <1>7, EmptyDiffers DEF ThingRouteIs, Parameter
  <2>2. 1 \in 1 .. Len(rest)
    BY <1>4, <1>7
  <2> QED
    BY <2>1, <2>2, <1>6
<1>8. ASSUME Len(rest) >= 2 PROVE tail[2] = Second(rest[1]) /\ rest[2] # Empty
  <2>1. tail[2] \in Parameter
    BY <1>0, <1>3, <1>8 DEF ThingRouteIs, Parameter
  <2>2. 2 \in 1 .. Len(rest)
    BY <1>4, <1>8
  <2>3. rest[2] # Empty
    BY <2>1, <2>2, <1>6, Zenon
  <2>4. tail[1] = rest[1]
    BY <1>4, <1>7, <1>8
  <2>5. tail[2] = Second(tail[1])
    BY <1>0, <1>3, <1>8, EmptyDiffers DEF ThingRouteIs, Second
  <2> QED
    BY <2>3, <2>4, <2>5, Zenon
<1>9. ASSUME Len(rest) >= 3 PROVE tail[3] = ":action_id" /\ rest[3] # Empty
  <2>1. tail[3] = ":action_id"
    BY <1>0, <1>3, <1>9 DEF ThingRouteIs
  <2>2. 3 \in 1 .. Len(rest)
    BY <1>4, <1>9
  <2>3. tail[3] \in Parameter
    BY <2>1 DEF Parameter
  <2> QED
    BY <2>1, <2>2, <2>3, <1>6, Zenon
<1> QED
  BY <1>1, <1>3, <1>5, <1>7, <1>8, <1>9

\* Two routes of things for the same method do not match the same rest of a path.
LEMMA ThingRoutesApart ==
    ASSUME NEW S, NEW rest \in Seq(S), NEW method, NEW tail, NEW handler, NEW tail2, NEW handler2,
           <<method, tail, handler>> \in ThingRoutes, Matches(tail, rest),
           <<method, tail2, handler2>> \in ThingRoutes, Matches(tail2, rest)
    PROVE  tail = tail2 /\ handler = handler2
<1>1. /\ tail \in Seq(Literal) /\ Len(tail) = Len(rest) /\ Len(rest) \in 0 .. 3
      /\ Len(rest) >= 1 => tail[1] = rest[1]
      /\ Len(rest) >= 2 => tail[2] = Second(rest[1])
      /\ Len(rest) >= 3 => tail[3] = ":action_id"
  BY ThingRouteShape, Zenon
<1>2. /\ tail2 \in Seq(Literal) /\ Len(tail2) = Len(rest)
      /\ Len(rest) >= 1 => tail2[1] = rest[1]
      /\ Len(rest) >= 2 => tail2[2] = Second(rest[1])
      /\ Len(rest) >= 3 => tail2[3] = ":action_id"
  BY ThingRouteShape, Zenon
<1>3. ASSUME NEW i \in 1 .. Len(tail) PROVE tail[i] = tail2[i]
  <2>1. \/ i = 1 /\ Len(rest) >= 1
        \/ i = 2 /\ Len(rest) >= 2
        \/ i = 3 /\ Len(rest) >= 3
    <3>1. Len(tail) = Len(rest) /\ Len(rest) \in 0 .. 3
      BY <1>1
    <3> QED
      BY <3>1
  <2>2. CASE i = 1 /\ Len(rest) >= 1
    BY <2>2, <1>1, <1>2, Zenon
  <2>3. CASE i = 2 /\ Len(rest) >= 2
    BY <2>3, <1>1, <1>2, Zenon
  <2>4. CASE i = 3 /\ Len(rest) >= 3
    BY <2>4, <1>1, <1>2, Zenon
  <2> QED
    BY <2>1, <2>2, <2>3, <2>4
<1>4. tail = tail2
  BY <1>1, <1>2, <1>3, SeqEqual, Zenon
<1>5. ThingRouteIs(method, tail, handler) /\ ThingRouteIs(method, tail, handler2)
  BY <1>4, ThingRouteCases, Zenon
<1>6. handler = handler2
  <2>1. CASE Len(tail) = 0
    BY <1>5, <2>1 DEF ThingRouteIs
  <2>2. CASE Len(tail) = 1
    BY <1>5, <2>2, EmptyDiffers DEF ThingRouteIs
  <2>3. CASE Len(tail) = 2
    BY <1>5, <2>3, EmptyDiffers DEF ThingRouteIs
  <2>4. CASE Len(tail) = 3
    BY <1>5, <2>4, EmptyDiffers DEF ThingRouteIs
  <2> QED
    BY <1>1, <2>1, <2>2, <2>3, <2>4
<1> QED
  BY <1>4, <1>6

\* A path that matches a pattern in two pieces falls into two pieces itself.
LEMMA MatchesBelow ==
    ASSUME NEW S, NEW prefix \in Seq(S), NEW tail \in Seq(S), NEW path \in Seq(S),
           Matches(prefix \o tail, path)
    PROVE  LET n == Len(prefix)
               front == SubSeq(path, 1, n)
               rest == SubSeq(path, n + 1, Len(path))
           IN  /\ front \in Seq(S) /\ rest \in Seq(S) /\ path = front \o rest
               /\ Len(front) = n /\ Len(rest) = Len(path) - n /\ n <= Len(path)
               /\ Matches(prefix, front) /\ Matches(tail, rest)
<1> DEFINE n == Len(prefix)
           front == SubSeq(path, 1, n)
           rest == SubSeq(path, n + 1, Len(path))
<1>1. n \in Nat /\ Len(tail) \in Nat /\ Len(path) = n + Len(tail)
  <2>1. Len(prefix \o tail) = Len(path)
    BY Zenon DEF Matches
  <2> QED
    BY <2>1, ConcatProperties
<1>2. front \in Seq(S) /\ Len(front) = n /\ \A i \in 1 .. n : front[i] = path[i]
  BY <1>1
<1>3. rest \in Seq(S) /\ Len(rest) = Len(path) - n
  BY <1>1
<1>4. \A i \in 1 .. Len(path) - n : rest[i] = path[n + i]
  BY <1>1
<1> HIDE DEF front, rest
<1>5. path = front \o rest
  <2>1. front \o rest \in Seq(S) /\ Len(front \o rest) = Len(path)
    <3>1. front \o rest \in Seq(S) /\ Len(front \o rest) = Len(front) + Len(rest)
      BY <1>2, <1>3, ConcatProperties, Zenon
    <3>2. Len(path) \in Nat
      OBVIOUS
    <3> QED
      BY <3>1, <3>2, <1>1, <1>2, <1>3
  <2>2. ASSUME NEW i \in 1 .. Len(path) PROVE (front \o rest)[i] = path[i]
    <3>1. CASE i <= n
      <4>1. (front \o rest)[i] = front[i]
        BY <1>1, <1>2, <1>3, <3>1
      <4> QED
        BY <4>1, <1>1, <1>2, <3>1
    <3>2. CASE ~(i <= n)
      <4>1. (front \o rest)[i] = rest[i - n]
        BY <1>1, <1>2, <1>3, <3>2
      <4>2. i - n \in 1 .. Len(path) - n /\ n + (i - n) = i
        BY <1>1, <3>2
      <4> QED
        BY <4>1, <4>2, <1>4
    <3> QED
      BY <3>1, <3>2
  <2> QED
    BY <2>1, <2>2, SeqEqual
<1>6. Matches(prefix, front) /\ Matches(tail, rest)
  BY <1>2, <1>3, <1>5, MatchesInPieces, Zenon
<1>7. n <= Len(path)
  BY <1>1
<1> QED
  BY <1>2, <1>3, <1>5, <1>6, <1>7 DEF front, rest

---------------------------------------------------------------------------------
(* Servers *)

\* The set of all segments of a server's patterns and of others.
Segment(server, S) == S \cup Range(server.base_path) \cup Literal

LEMMA PrefixTypes ==
    ASSUME NEW server, WellFormed(server), NEW S
    PROVE  /\ server.base_path \in Seq(Segment(server, S))
           /\ \A i \in 1 .. Len(server.base_path) : server.base_path[i] \notin Parameter
           /\ RoutePrefix(server) \in Seq(Segment(server, S))
           /\ IsSingle(server) => RoutePrefix(server) = server.base_path
           /\ ~IsSingle(server) => RoutePrefix(server) = server.base_path \o <<":thing_id">>
<1> DEFINE base == server.base_path
           P == Segment(server, S)
<1>1. base \in Seq(Range(base) \ Parameter)
  BY Zenon DEF WellFormed
<1>2. base \in Seq(P)
  <2>1. Range(base) \ Parameter \subseteq P
    BY DEF Segment
  <2> QED
    BY <1>1, <2>1, SeqMonotonic, Zenon
<1>3. \A i \in 1 .. Len(base) : base[i] \notin Parameter
  <2> HIDE DEF base
  <2> QED
    BY <1>1
<1>4. IsSingle(server) => RoutePrefix(server) = base
  <2> SUFFICES ASSUME IsSingle(server) PROVE RoutePrefix(server) = base
    OBVIOUS
  <2>1. RoutePrefix(server) = base \o <<>>
    BY Zenon DEF RoutePrefix
  <2> QED
    BY <2>1, <1>2, ConcatEmptySeq, Zenon
<1>5. ~IsSingle(server) => RoutePrefix(server) = base \o <<":thing_id">>
  BY Zenon DEF RoutePrefix
<1>6. RoutePrefix(server) \in Seq(P)
  <2>1. ":thing_id" \in P
    BY DEF Segment, Literal, Parameter
  <2>2. <<":thing_id">> \in Seq(P)
    BY <2>1
  <2> QED
    BY <1>2, <1>4, <1>5, <2>2, ConcatProperties, Zenon
<1> QED
  BY <1>2, <1>3, <1>4, <1>5, <1>6

\* The routes of a thing that a path matches, below the prefix.
LEMMA ThingRouteBelow ==
    ASSUME NEW server, WellFormed(server), NEW S, NEW path \in Seq(S),
           NEW r \in ThingRoutes, Matches(RoutePrefix(server) \o r[2], path)
    PROVE  LET n == Len(RoutePrefix(server))
               front == SubSeq(path, 1, n)
               rest == SubSeq(path, n + 1, Len(path))
           IN  /\ front \in Seq(Segment(server, S)) /\ rest \in Seq(Segment(server, S))
               /\ path = front \o rest /\ Len(front) = n
               /\ Len(rest) = Len(path) - n /\ n <= Len(path)
               /\ Matches(RoutePrefix(server), front) /\ Matches(r[2], rest)
<1> DEFINE P == Segment(server, S)
<1>1. path \in Seq(P)
  <2>1. S \subseteq P
    BY DEF Segment
  <2> QED
    BY <2>1, SeqMonotonic, Zenon
<1>2. r[2] \in Seq(P)
  <2>1. r[2] \in Seq(Literal)
    BY ThingRouteTypes
  <2>2. Literal \subseteq P
    BY DEF Segment
  <2> QED
    BY <2>1, <2>2, SeqMonotonic, Zenon
<1>3. RoutePrefix(server) \in Seq(P)
  BY PrefixTypes, Zenon
<1> HIDE DEF P
<1>4. LET n == Len(RoutePrefix(server))
          front == SubSeq(path, 1, n)
          rest == SubSeq(path, n + 1, Len(path))
      IN  /\ front \in Seq(P) /\ rest \in Seq(P) /\ path = front \o rest
          /\ Len(front) = n /\ Len(rest) = Len(path) - n /\ n <= Len(path)
          /\ Matches(RoutePrefix(server), front) /\ Matches(r[2], rest)
  BY <1>1, <1>2, <1>3, MatchesBelow, Zenon
<1> QED
  BY <1>4, Zenon DEF P

LEMMA ListRouteCases ==
    ASSUME NEW server, NEW list \in ListRoutes(server)
    PROVE  /\ ~IsSingle(server)
           /\ \/ /\ list = Route("GET", server.base_path, "handle_things")
                 /\ list.pattern = server.base_path
              \/ /\ list = Route("GET", server.base_path \o <<Empty>>, "handle_things")
                 /\ list.pattern = server.base_path \o <<Empty>>
<1>1. /\ ~IsSingle(server)
      /\ \/ list = Route("GET", server.base_path, "handle_things")
         \/ list = Route("GET", server.base_path \o <<Empty>>, "handle_things")
  BY Zenon DEF ListRoutes, Empty
<1>2. \A method, pattern, handler : Route(method, pattern, handler).pattern = pattern
  BY DEF Route
<1>3. CASE list = Route("GET", server.base_path, "handle_things")
  BY <1>1, <1>2, <1>3, Zenon
<1>4. CASE list = Route("GET", server.base_path \o <<Empty>>, "handle_things")
  BY <1>1, <1>2, <1>4, ZenonT(60)
<1> QED
  BY <1>1, <1>3, <1>4, Zenon

\* The path of a route of the list of things is no longer than the base path and one
\* empty segment, where the path of a thing has its index.
LEMMA ListOrThing ==
    ASSUME NEW server, WellFormed(server), NEW S, NEW path \in Seq(S),
           NEW list \in ListRoutes(server), Matches(list.pattern, path),
           NEW r \in ThingRoutes, Matches(RoutePrefix(server) \o r[2], path)
    PROVE  FALSE
<1> DEFINE base == server.base_path
           n == Len(base)
           P == Segment(server, S)
           front == SubSeq(path, 1, Len(RoutePrefix(server)))
<1>1. /\ ~IsSingle(server) /\ base \in Seq(P)
      /\ RoutePrefix(server) = base \o <<":thing_id">> /\ RoutePrefix(server) \in Seq(P)
  BY PrefixTypes, Zenon DEF ListRoutes
<1>2. /\ front \in Seq(P) /\ Len(front) = Len(RoutePrefix(server))
      /\ Len(RoutePrefix(server)) <= Len(path)
      /\ Matches(RoutePrefix(server), front)
  BY ThingRouteBelow, Zenon
<1>3. path \in Seq(P)
  <2>1. S \subseteq P
    BY DEF Segment
  <2> QED
    BY <2>1, SeqMonotonic, Zenon
<1> HIDE DEF P, base
<1>4. Len(RoutePrefix(server)) = n + 1 /\ RoutePrefix(server)[n + 1] = ":thing_id" /\ n \in Nat
  BY <1>1
<1>5. path[n + 1] # Empty
  <2>1. Takes(RoutePrefix(server)[n + 1], front[n + 1])
    <3>1. n + 1 \in 1 .. Len(front)
      BY <1>2, <1>4
    <3> QED
      BY <1>1, <1>2, <3>1, MatchesTakes, Zenon
  <2>2. front[n + 1] # Empty
    BY <2>1, <1>4, Zenon DEF Takes, Parameter
  <2>3. front[n + 1] = path[n + 1]
    <3> HIDE DEF n
    <3>1. n + 1 <= Len(path) /\ Len(path) \in Nat
      BY <1>2, <1>3, <1>4
    <3> QED
      BY <1>3, <1>4, <3>1
  <2> QED
    BY <2>2, <2>3
<1>6. Len(path) >= n + 1
  BY <1>2, <1>3, <1>4
<1>7. list.pattern = base \/ list.pattern = base \o <<Empty>>
  BY ListRouteCases, Zenon DEF base
<1>8. CASE list.pattern = base
  <2>1. Len(base) = Len(path)
    BY <1>8, Zenon DEF Matches
  <2> QED
    BY <2>1, <1>4, <1>6
<1>9. CASE list.pattern = base \o <<Empty>>
  <2>1. Empty \in P
    BY DEF P, Segment, Literal
  <2>2. base \o <<Empty>> \in Seq(P) /\ Len(base \o <<Empty>>) = n + 1
        /\ (base \o <<Empty>>)[n + 1] = Empty
    BY <1>1, <2>1
  <2>3. n + 1 \in 1 .. Len(path)
    BY <1>3, <1>4, <1>6
  <2>4. Takes((base \o <<Empty>>)[n + 1], path[n + 1])
    <3>1. Matches(base \o <<Empty>>, path)
      BY <1>9, Zenon
    <3>2. \A i \in 1 .. Len(path) : Takes((base \o <<Empty>>)[i], path[i])
      <4> DEFINE pattern == base \o <<Empty>>
      <4>1. pattern \in Seq(P) /\ Matches(pattern, path)
        BY <2>2, <3>1, Zenon
      <4> HIDE DEF pattern
      <4>2. \A i \in 1 .. Len(path) : Takes(pattern[i], path[i])
        BY <1>3, <4>1, MatchesTakes, Zenon
      <4> QED
        BY <4>2, Zenon DEF pattern
    <3> QED
      BY <3>2, <2>3, Zenon
  <2> QED
    BY <2>2, <2>4, <1>5, EmptyDiffers, Zenon DEF Takes
<1> QED
  BY <1>7, <1>8, <1>9

\* "The routes a path matches: at most one": no request is ambiguous, on any server,
\* so that the order in which the routes were registered does not matter.
THEOREM AtMostOneRoute ==
    ASSUME NEW server, WellFormed(server), NEW S, NEW path \in Seq(S), NEW method,
           NEW q \in Matching(server, method, path), NEW r \in Matching(server, method, path)
    PROVE  q = r
<1>1. /\ q \in Routes(server) /\ q.method = method /\ Matches(q.pattern, path)
      /\ r \in Routes(server) /\ r.method = method /\ Matches(r.pattern, path)
  BY Zenon DEF Matching
<1>2. \A t \in Routes(server) :
          \/ t \in ListRoutes(server)
          \/ \E u \in ThingRoutes : t = Route(u[1], RoutePrefix(server) \o u[2], u[3])
  BY Zenon DEF Routes
<1>3. CASE q \in ListRoutes(server) /\ r \in ListRoutes(server)
  <2> DEFINE base == server.base_path
  <2>1. base \in Seq(Segment(server, {}))
    BY PrefixTypes, Zenon
  <2>2. Len(q.pattern) = Len(r.pattern)
    BY <1>1, Zenon DEF Matches
  <2>3. Len(base \o <<Empty>>) # Len(base)
    <3> HIDE DEF base
    <3>1. Empty \in Segment(server, {})
      BY DEF Segment, Literal
    <3> QED
      BY <2>1, <3>1
  <2>4. \A t \in ListRoutes(server) :
            \/ t = Route("GET", base, "handle_things") /\ t.pattern = base
            \/ t = Route("GET", base \o <<Empty>>, "handle_things") /\ t.pattern = base \o <<Empty>>
    BY ListRouteCases, Zenon
  <2> QED
    BY <1>3, <2>2, <2>3, <2>4, Zenon
<1>4. CASE \E u \in ThingRoutes : q = Route(u[1], RoutePrefix(server) \o u[2], u[3])
  <2>1. PICK u \in ThingRoutes : q = Route(u[1], RoutePrefix(server) \o u[2], u[3])
    BY <1>4
  <2>2. Matches(RoutePrefix(server) \o u[2], path) /\ u[1] = method
    BY <1>1, <2>1, Zenon DEF Route
  <2>3. r \notin ListRoutes(server)
    BY <1>1, <2>2, ListOrThing, Zenon
  <2>4. PICK v \in ThingRoutes : r = Route(v[1], RoutePrefix(server) \o v[2], v[3])
    BY <1>1, <1>2, <2>3, Zenon
  <2>5. Matches(RoutePrefix(server) \o v[2], path) /\ v[1] = method
    BY <1>1, <2>4, Zenon DEF Route
  <2>6. PICK rest : /\ rest \in Seq(Segment(server, S))
                    /\ Matches(u[2], rest) /\ Matches(v[2], rest)
    BY <2>2, <2>5, ThingRouteBelow, Zenon
  <2>7. <<method, u[2], u[3]>> \in ThingRoutes /\ <<method, v[2], v[3]>> \in ThingRoutes
    <3>1. u = <<u[1], u[2], u[3]>> /\ v = <<v[1], v[2], v[3]>>
      BY ThingRouteTypes
    <3> QED
      BY <3>1, <2>2, <2>5, Zenon
  <2>8. u[2] = v[2] /\ u[3] = v[3]
    <3> DEFINE P == Segment(server, S)
               tail == u[2]
               tail2 == v[2]
               handler == u[3]
               handler2 == v[3]
    <3>1. /\ rest \in Seq(P) /\ Matches(tail, rest) /\ Matches(tail2, rest)
          /\ <<method, tail, handler>> \in ThingRoutes
          /\ <<method, tail2, handler2>> \in ThingRoutes
      BY <2>6, <2>7
    <3> HIDE DEF P, tail, tail2, handler, handler2
    <3>2. tail = tail2 /\ handler = handler2
      BY <3>1, ThingRoutesApart, Zenon
    <3> QED
      BY <3>2 DEF tail, tail2, handler, handler2
  <2> QED
    BY <2>1, <2>2, <2>4, <2>5, <2>8, Zenon
<1>5. CASE /\ q \in ListRoutes(server)
           /\ \E u \in ThingRoutes : r = Route(u[1], RoutePrefix(server) \o u[2], u[3])
  <2>1. PICK u \in ThingRoutes : r = Route(u[1], RoutePrefix(server) \o u[2], u[3])
    BY <1>5
  <2>2. Matches(RoutePrefix(server) \o u[2], path)
    BY <1>1, <2>1, Zenon DEF Route
  <2> QED
    BY <1>1, <1>5, <2>2, ListOrThing, Zenon
<1> QED
  BY <1>1, <1>2, <1>3, <1>4, <1>5, Zenon

---------------------------------------------------------------------------------
(* Links *)

LEMMA DispatchTo ==
    ASSUME NEW server, WellFormed(server), NEW S, NEW path \in Seq(S), NEW method,
           NEW route \in Matching(server, method, path)
    PROVE  LET parameters == Parameters(route.pattern, path)
           IN  Dispatch(server, method, path) =
                   [handler |-> route.handler,
                    thing |-> FindThing(server, parameters),
                    name |-> FindParameter(server, parameters, 0),
                    id |-> FindParameter(server, parameters, 1)]
<1>1. Matching(server, method, path) # {}
  OBVIOUS
<1>2. (CHOOSE r \in Matching(server, method, path) : TRUE) = route
  <2>1. (CHOOSE r \in Matching(server, method, path) : TRUE) \in Matching(server, method, path)
    BY <1>1
  <2> QED
    BY <2>1, AtMostOneRoute, Zenon
<1> QED
  BY <1>1, <1>2, Zenon DEF Dispatch

\* The prefix of the hrefs of a thing matches that of its routes.
LEMMA HrefTypes ==
    ASSUME NEW server, WellFormed(server), NEW i \in DOMAIN server.things, NEW S,
           ToString(i - 1) \in S
    PROVE  /\ HrefPrefix(server, i) \in Seq(Segment(server, S))
           /\ Len(HrefPrefix(server, i)) = Len(RoutePrefix(server))
           /\ Matches(RoutePrefix(server), HrefPrefix(server, i))
           /\ IsSingle(server) => HrefPrefix(server, i) = server.base_path
           /\ ~IsSingle(server) =>
                 HrefPrefix(server, i) = server.base_path \o <<ToString(i - 1)>>
<1> DEFINE base == server.base_path
           P == Segment(server, S)
           index == ToString(i - 1)
<1>1. /\ base \in Seq(P) /\ RoutePrefix(server) \in Seq(P)
      /\ \A k \in 1 .. Len(base) : base[k] \notin Parameter
      /\ IsSingle(server) => RoutePrefix(server) = base
      /\ ~IsSingle(server) => RoutePrefix(server) = base \o <<":thing_id">>
  BY PrefixTypes, Zenon
<1>2. index \in P /\ ":thing_id" \in P
  BY DEF Segment, Literal, Parameter
<1>3. index # Empty
  BY Zenon DEF WellFormed, Empty
<1>4. IsSingle(server) => HrefPrefix(server, i) = base
  <2> SUFFICES ASSUME IsSingle(server) PROVE HrefPrefix(server, i) = base
    OBVIOUS
  <2>1. HrefPrefix(server, i) = base \o <<>>
    BY Zenon DEF HrefPrefix
  <2> QED
    BY <2>1, <1>1, ConcatEmptySeq, Zenon
<1>5. ~IsSingle(server) => HrefPrefix(server, i) = base \o <<index>>
  BY Zenon DEF HrefPrefix
<1> HIDE DEF base, P, index
<1>6. Matches(base, base)
  <2>1. \A k \in 1 .. Len(base) : Takes(base[k], base[k])
    BY <1>1, Zenon DEF Takes
  <2> QED
    BY <1>1, <2>1, MatchesTakes, Zenon
<1>7. Matches(<<":thing_id">>, <<index>>)
  <2>1. <<":thing_id">> \in Seq(P) /\ <<index>> \in Seq(P)
    BY <1>2
  <2>2. Len(<<":thing_id">>) = 1 /\ Len(<<index>>) = 1
        /\ <<":thing_id">>[1] = ":thing_id" /\ <<index>>[1] = index
    OBVIOUS
  <2>3. Takes(":thing_id", index)
    BY <1>3, Zenon DEF Takes, Parameter
  <2>4. \A k \in 1 .. 1 : k = 1
    OBVIOUS
  <2> QED
    BY <2>1, <2>2, <2>3, <2>4, MatchesTakes, Zenon
<1>8. Matches(base \o <<":thing_id">>, base \o <<index>>)
  <2>1. <<":thing_id">> \in Seq(P) /\ <<index>> \in Seq(P)
    BY <1>2
  <2> QED
    BY <1>1, <1>6, <1>7, <2>1, MatchesInPieces, Zenon
<1>9. /\ base \o <<index>> \in Seq(P)
      /\ Len(base \o <<index>>) = Len(base \o <<":thing_id">>)
  BY <1>1, <1>2
<1> QED
  BY <1>1, <1>4, <1>5, <1>6, <1>8, <1>9 DEF base, P, index

\* at lists the places of the m parameters of a pattern.
Places(tail, at, m) ==
    /\ at \in [1 .. m -> 1 .. Len(tail)]
    /\ {j \in 1 .. Len(tail) : tail[j] \in Parameter} = {at[k] : k \in 1 .. m}
    /\ \A k, l \in 1 .. m : k < l => at[k] < at[l]

LinkSegments(server, index, rest, at, m) ==
    IF IsSingle(server) THEN [k \in 1 .. m |-> rest[at[k]]]
    ELSE [k \in 1 .. m + 1 |-> IF k = 1 THEN index ELSE rest[at[k - 1]]]

\* The parameters of the path of a link: the index of the thing, which a server of one
\* has not, and then the segments where the rest of the pattern has parameters.
LEMMA LinkParameters ==
    ASSUME NEW server, WellFormed(server), NEW i \in DOMAIN server.things, NEW S,
           ToString(i - 1) \in S, NEW tail \in Seq(Segment(server, S)),
           NEW rest \in Seq(Segment(server, S)), Len(tail) = Len(rest),
           NEW m \in Nat, NEW at, Places(tail, at, m)
    PROVE  Parameters(RoutePrefix(server) \o tail, HrefPrefix(server, i) \o rest)
               = LinkSegments(server, ToString(i - 1), rest, at, m)
<1> DEFINE base == server.base_path
           P == Segment(server, S)
           index == ToString(i - 1)
           prefix == RoutePrefix(server)
           href == HrefPrefix(server, i)
           n == Len(prefix)
           pattern == prefix \o tail
           path == href \o rest
<1>0. /\ at \in [1 .. m -> 1 .. Len(tail)]
      /\ {j \in 1 .. Len(tail) : tail[j] \in Parameter} = {at[k] : k \in 1 .. m}
      /\ \A k, l \in 1 .. m : k < l => at[k] < at[l]
  BY DEF Places
<1>1. /\ base \in Seq(P) /\ prefix \in Seq(P)
      /\ \A k \in 1 .. Len(base) : base[k] \notin Parameter
      /\ IsSingle(server) => prefix = base
      /\ ~IsSingle(server) => prefix = base \o <<":thing_id">>
  BY PrefixTypes, Zenon
<1>2. /\ href \in Seq(P) /\ Len(href) = n
      /\ ~IsSingle(server) => href = base \o <<index>>
  BY HrefTypes, Zenon
<1>3. tail \in Seq(P) /\ rest \in Seq(P)
  OBVIOUS
<1>4. index \in P /\ ":thing_id" \in P
  BY DEF Segment, Literal, Parameter
<1> HIDE DEF base, P, index, prefix, href
<1>5. n \in Nat /\ Len(tail) \in Nat
  BY <1>1, <1>3
<1>6. DOMAIN path = 1 .. n + Len(tail)
  <2>1. path \in Seq(P) /\ Len(path) = Len(href) + Len(rest)
    BY <1>2, <1>3, ConcatProperties, Zenon
  <2> HIDE DEF path, n
  <2>2. DOMAIN path = 1 .. Len(path)
    BY <2>1
  <2> QED
    BY <1>2, <2>1, <2>2, Zenon
<1>7. \A j \in 1 .. Len(tail) : pattern[n + j] = tail[j] /\ path[n + j] = rest[j]
  <2> SUFFICES ASSUME NEW j \in 1 .. Len(tail)
               PROVE  pattern[n + j] = tail[j] /\ path[n + j] = rest[j]
    OBVIOUS
  <2>1. pattern[n + j] = tail[j]
    BY <1>1, <1>3, <1>5
  <2>2. path[n + j] = rest[j]
    BY <1>2, <1>3, <1>5
  <2> QED
    BY <2>1, <2>2
<1>8. \A j \in 1 .. n : pattern[j] = prefix[j] /\ path[j] = href[j]
  <2> SUFFICES ASSUME NEW j \in 1 .. n PROVE pattern[j] = prefix[j] /\ path[j] = href[j]
    OBVIOUS
  <2>1. pattern[j] = prefix[j]
    BY <1>1, <1>3, <1>5
  <2>2. path[j] = href[j]
    BY <1>2, <1>3, <1>5
  <2> QED
    BY <2>1, <2>2
<1> HIDE DEF n, pattern, path
<1>9. ParametersAt(pattern, path) =
          {j \in 1 .. n : prefix[j] \in Parameter} \cup {n + at[k] : k \in 1 .. m}
  <2>1. ASSUME NEW j \in 1 .. n + Len(tail), pattern[j] \in Parameter
        PROVE  \/ j \in 1 .. n /\ prefix[j] \in Parameter
               \/ \E k \in 1 .. m : j = n + at[k]
    <3>1. CASE j \in 1 .. n
      BY <1>8, <2>1, <3>1, Zenon
    <3>2. CASE j \notin 1 .. n
      <4>1. PICK l \in 1 .. Len(tail) : j = n + l
        <5>1. j - n \in 1 .. Len(tail) /\ j = n + (j - n)
          BY <1>5, <3>2
        <5> QED
          BY <5>1
      <4>2. tail[l] \in Parameter
        BY <1>7, <2>1, <4>1, Zenon
      <4>3. PICK k \in 1 .. m : l = at[k]
        BY <1>0, <4>2
      <4> QED
        BY <4>1, <4>3
    <3> QED
      BY <3>1, <3>2
  <2>2. ASSUME NEW j \in 1 .. n, prefix[j] \in Parameter
        PROVE  j \in 1 .. n + Len(tail) /\ pattern[j] \in Parameter
    BY <1>5, <1>8, <2>2
  <2>3. ASSUME NEW k \in 1 .. m
        PROVE  n + at[k] \in 1 .. n + Len(tail) /\ pattern[n + at[k]] \in Parameter
    <3>1. at[k] \in 1 .. Len(tail) /\ tail[at[k]] \in Parameter
      BY <1>0
    <3>2. n + at[k] \in 1 .. n + Len(tail)
      BY <1>5, <3>1
    <3> QED
      BY <1>7, <3>1, <3>2, Zenon
  <2> QED
    BY <1>6, <2>1, <2>2, <2>3 DEF ParametersAt
<1>10. CASE IsSingle(server)
  <2> DEFINE place == [k \in 1 .. m |-> n + at[k]]
  <2>1. {j \in 1 .. n : prefix[j] \in Parameter} = {}
    BY <1>1, <1>10 DEF n
  <2>2. place \in [1 .. m -> Int] /\ \A k, l \in 1 .. m : k < l => place[k] < place[l]
    BY <1>0, <1>5
  <2>3. ParametersAt(pattern, path) = {place[k] : k \in 1 .. m}
    BY <1>9, <2>1
  <2> HIDE DEF place
  <2>4. Parameters(pattern, path) = [k \in 1 .. m |-> path[place[k]]]
    <3>1. ListsParameters(place, m, pattern, path)
      BY <2>2, <2>3, Zenon DEF ListsParameters
    <3>2. Parameters(pattern, path) = Segments(path, place, m)
      BY <3>1, ParametersListed, Zenon
    <3> QED
      BY <3>2, Zenon DEF Segments
  <2>5. \A k \in 1 .. m : path[place[k]] = rest[at[k]]
    BY <1>0, <1>7 DEF place
  <2>6. Parameters(pattern, path) = [k \in 1 .. m |-> rest[at[k]]]
    BY <2>4, <2>5
  <2> QED
    BY <1>10, <2>6 DEF LinkSegments, pattern, path, prefix, href
<1>11. CASE ~IsSingle(server)
  <2> DEFINE place == [k \in 1 .. m + 1 |-> IF k = 1 THEN n ELSE n + at[k - 1]]
  <2>1. n = Len(base) + 1 /\ prefix[n] = ":thing_id" /\ href[n] = index
    BY <1>1, <1>2, <1>4, <1>11 DEF n
  <2>2. \A j \in 1 .. n : prefix[j] \in Parameter <=> j = n
    <3>1. ASSUME NEW j \in 1 .. n, j # n PROVE prefix[j] = base[j] /\ j \in 1 .. Len(base)
      BY <1>1, <1>4, <1>11, <2>1, <3>1
    <3>2. prefix[n] \in Parameter
      BY <2>1 DEF Parameter
    <3> QED
      BY <1>1, <3>1, <3>2
  <2>3. /\ place \in [1 .. m + 1 -> Int]
        /\ \A k, l \in 1 .. m + 1 : k < l => place[k] < place[l]
    <3>1. ASSUME NEW k \in 2 .. m + 1 PROVE place[k] = n + at[k - 1] /\ place[k] \in Int /\ place[k] > n
      <4>1. k - 1 \in 1 .. m
        OBVIOUS
      <4> QED
        BY <1>0, <1>5, <4>1
    <3>2. place[1] = n
      OBVIOUS
    <3>3. ASSUME NEW k \in 1 .. m + 1, NEW l \in 1 .. m + 1, k < l PROVE place[k] < place[l]
      <4>1. l \in 2 .. m + 1
        BY <3>3
      <4>2. CASE k = 1
        BY <3>1, <3>2, <4>1, <4>2
      <4>3. CASE k # 1
        <5>1. k - 1 \in 1 .. m /\ l - 1 \in 1 .. m /\ k - 1 < l - 1
          BY <3>3, <4>3
        <5>2. at[k - 1] < at[l - 1]
          BY <1>0, <5>1
        <5>3. at[k - 1] \in Int /\ at[l - 1] \in Int
          BY <1>0, <5>1
        <5> QED
          BY <1>5, <3>1, <4>1, <4>3, <5>2, <5>3
      <4> QED
        BY <4>2, <4>3
    <3>4. place \in [1 .. m + 1 -> Int]
      BY <1>0, <1>5
    <3> QED
      BY <3>3, <3>4
  <2>4. ParametersAt(pattern, path) = {place[k] : k \in 1 .. m + 1}
    <3>1. {j \in 1 .. n : prefix[j] \in Parameter} = {n}
      BY <2>1, <2>2
    <3>2. ASSUME NEW k \in 1 .. m PROVE place[k + 1] = n + at[k] /\ k + 1 \in 1 .. m + 1
      OBVIOUS
    <3>3. place[1] = n /\ 1 \in 1 .. m + 1
      OBVIOUS
    <3>4. ASSUME NEW k \in 1 .. m + 1, k # 1 PROVE \E l \in 1 .. m : place[k] = n + at[l]
      <4>1. k - 1 \in 1 .. m /\ place[k] = n + at[k - 1]
        BY <3>4
      <4> QED
        BY <4>1
    <3> HIDE DEF place
    <3>5. ParametersAt(pattern, path) = {n} \cup {n + at[k] : k \in 1 .. m}
      BY <1>9, <3>1
    <3>6. ASSUME NEW j \in {n} \cup {n + at[k] : k \in 1 .. m}
          PROVE  \E k \in 1 .. m + 1 : j = place[k]
      BY <3>2, <3>3
    <3>7. ASSUME NEW k \in 1 .. m + 1
          PROVE  place[k] \in {n} \cup {n + at[l] : l \in 1 .. m}
      BY <3>3, <3>4
    <3> QED
      BY <3>5, <3>6, <3>7
  <2>5. m + 1 \in Nat
    OBVIOUS
  <2> HIDE DEF place
  <2>6. Parameters(pattern, path) = [k \in 1 .. m + 1 |-> path[place[k]]]
    <3>1. ListsParameters(place, m + 1, pattern, path)
      BY <2>3, <2>4, Zenon DEF ListsParameters
    <3>2. Parameters(pattern, path) = Segments(path, place, m + 1)
      BY <2>5, <3>1, ParametersListed, Zenon
    <3> QED
      BY <3>2, Zenon DEF Segments
  <2>7. ASSUME NEW k \in 1 .. m + 1
        PROVE  path[place[k]] = IF k = 1 THEN index ELSE rest[at[k - 1]]
    <3>1. CASE k = 1
      <4>1. n \in 1 .. n
        BY <1>1, <1>5, <2>1
      <4>2. path[n] = href[n]
        BY <1>8, <4>1, Zenon
      <4> QED
        BY <3>1, <4>2, <2>1 DEF place
    <3>2. CASE k # 1
      <4>1. k - 1 \in 1 .. m
        BY <3>2
      <4>2. at[k - 1] \in 1 .. Len(tail)
        BY <1>0, <4>1
      <4>3. place[k] = n + at[k - 1]
        BY <3>2 DEF place
      <4> QED
        BY <1>7, <3>2, <4>2, <4>3, Zenon
    <3> QED
      BY <3>1, <3>2
  <2>8. Parameters(pattern, path) =
            [k \in 1 .. m + 1 |-> IF k = 1 THEN index ELSE rest[at[k - 1]]]
    BY <2>6, <2>7
  <2> QED
    BY <1>11, <2>8 DEF LinkSegments, pattern, path, prefix, href, index
<1> QED
  BY <1>10, <1>11

Target(server, i, handler, rest, at, m) ==
    [handler |-> handler, thing |-> server.things[i],
     name |-> IF 1 <= m THEN rest[at[1]] ELSE None,
     id |-> IF 2 <= m THEN rest[at[2]] ELSE None]

\* A request with a path below the href of a thing comes to the handler of the route
\* that the rest of the path matches, for this thing and with the parameters there.
LEMMA LinkDispatch ==
    ASSUME NEW server, WellFormed(server), NEW i \in DOMAIN server.things, NEW S,
           ToString(i - 1) \in S, NEW method, NEW tail, NEW handler,
           <<method, tail, handler>> \in ThingRoutes,
           NEW rest \in Seq(Segment(server, S)), Matches(tail, rest),
           NEW m \in Nat, NEW at, Places(tail, at, m)
    PROVE  Dispatch(server, method, HrefPrefix(server, i) \o rest)
               = Target(server, i, handler, rest, at, m)
<1> DEFINE P == Segment(server, S)
           index == ToString(i - 1)
           prefix == RoutePrefix(server)
           href == HrefPrefix(server, i)
           route == Route(method, prefix \o tail, handler)
           found == Parameters(prefix \o tail, href \o rest)
<1>1. tail \in Seq(P) /\ Len(tail) = Len(rest)
  <2>1. tail \in Seq(Literal)
    BY ThingRouteCases, Zenon DEF ThingRouteIs
  <2>2. Literal \subseteq P
    BY DEF Segment
  <2> QED
    BY <2>1, <2>2, SeqMonotonic, Zenon DEF Matches
<1>2. /\ href \in Seq(P) /\ prefix \in Seq(P)
      /\ Len(prefix) = Len(href) /\ Matches(prefix, href)
  BY HrefTypes, PrefixTypes, Zenon
<1>3. href \o rest \in Seq(P)
  BY <1>2, ConcatProperties, Zenon
<1>4. Matches(prefix \o tail, href \o rest)
  BY <1>1, <1>2, MatchesInPieces, Zenon
<1>5. route \in Matching(server, method, href \o rest)
  <2>1. route.method = method /\ route.pattern = prefix \o tail /\ route.handler = handler
    BY DEF Route
  <2>2. route \in Routes(server)
    <3> DEFINE r == <<method, tail, handler>>
    <3>1. r[1] = method /\ r[2] = tail /\ r[3] = handler
      OBVIOUS
    <3> HIDE DEF r
    <3>2. r \in ThingRoutes
      BY DEF r
    <3> QED
      BY <3>1, <3>2, Zenon DEF Routes
  <2> QED
    BY <1>4, <2>1, <2>2, Zenon DEF Matching
<1>6. Dispatch(server, method, href \o rest) =
          [handler |-> handler, thing |-> FindThing(server, found),
           name |-> FindParameter(server, found, 0), id |-> FindParameter(server, found, 1)]
  <2>1. route.pattern = prefix \o tail /\ route.handler = handler
    BY DEF Route
  <2> HIDE DEF route
  <2> QED
    BY <1>3, <1>5, <2>1, DispatchTo, Zenon
<1>7. found = LinkSegments(server, index, rest, at, m)
  BY <1>1, LinkParameters, ZenonT(60)
<1>8. server.things \in Seq(Range(server.things))
  BY Zenon DEF WellFormed
<1> HIDE DEF found, href, prefix
<1>9. /\ FindThing(server, found) = server.things[i]
      /\ FindParameter(server, found, 0) = IF 1 <= m THEN rest[at[1]] ELSE None
      /\ FindParameter(server, found, 1) = IF 2 <= m THEN rest[at[2]] ELSE None
  <2>1. CASE IsSingle(server)
    <3>1. found = [k \in 1 .. m |-> rest[at[k]]]
      BY <1>7, <2>1 DEF LinkSegments
    <3>2. Len(server.things) = 1
      BY <2>1, Zenon DEF WellFormed
    <3>3. FindThing(server, found) = server.things[i]
      <4> DEFINE things == server.things
      <4>1. things \in Seq(Range(things)) /\ i \in DOMAIN things /\ Len(things) = 1
        BY <1>8, <3>2
      <4>2. GetThing(server, 0) = things[IF 0 \in 0 .. Len(things) - 1 THEN 1 ELSE 0]
        BY <3>2 DEF GetThing
      <4> HIDE DEF things
      <4>3. i = 1 /\ 0 \in 0 .. Len(things) - 1
        BY <4>1
      <4> QED
        BY <2>1, <4>2, <4>3 DEF FindThing, things
    <3>4. ASSUME NEW k \in {0, 1}
          PROVE  FindParameter(server, found, k) = IF k + 1 <= m THEN rest[at[k + 1]] ELSE None
      BY <2>1, <3>1 DEF FindParameter
    <3> QED
      BY <3>3, <3>4
  <2>2. CASE ~IsSingle(server)
    <3>1. found = [k \in 1 .. m + 1 |-> IF k = 1 THEN index ELSE rest[at[k - 1]]]
      BY <1>7, <2>2 DEF LinkSegments
    <3>2. index \in DOMAIN Stoi /\ Stoi[index] = i - 1
      BY Zenon DEF WellFormed
    <3>3. FindThing(server, found) = server.things[i]
      <4> DEFINE things == server.things
      <4>1. things \in Seq(Range(things)) /\ i \in DOMAIN things
        BY <1>8
      <4>2. GetThing(server, i - 1) = IF i - 1 \in 0 .. Len(things) - 1 THEN things[(i - 1) + 1] ELSE None
        BY DEF GetThing
      <4> HIDE DEF things
      <4>3. i - 1 \in 0 .. Len(things) - 1 /\ (i - 1) + 1 = i
        BY <4>1
      <4>4. found # <<>> /\ found[1] = index
        <5> HIDE DEF index
        <5>1. 1 \in DOMAIN found /\ found[1] = index
          BY <3>1
        <5>2. DOMAIN <<>> = {}
          OBVIOUS
        <5> QED
          BY <5>1, <5>2
      <4> QED
        BY <2>2, <3>2, <4>2, <4>3, <4>4 DEF FindThing, things
    <3>4. ASSUME NEW k \in {0, 1}
          PROVE  FindParameter(server, found, k) = IF k + 1 <= m THEN rest[at[k + 1]] ELSE None
      <4> HIDE DEF index
      <4>1. DOMAIN found = 1 .. m + 1
        BY <3>1
      <4>2. FindParameter(server, found, k) = IF k + 2 \in 1 .. m + 1 THEN found[k + 2] ELSE None
        BY <2>2, <4>1 DEF FindParameter
      <4>3. CASE k + 1 <= m
        <5>1. k + 2 \in 1 .. m + 1 /\ k + 2 # 1 /\ (k + 2) - 1 = k + 1
          BY <4>3
        <5>2. found[k + 2] = rest[at[k + 1]]
          BY <3>1, <5>1
        <5> QED
          BY <4>2, <4>3, <5>1, <5>2
      <4>4. CASE ~(k + 1 <= m)
        BY <4>2, <4>4
      <4> QED
        BY <4>3, <4>4
    <3> QED
      BY <3>3, <3>4
  <2> QED
    BY <2>1, <2>2
<1> QED
  BY <1>6, <1>9, Zenon DEF Target, href

\* What the patterns of the links match and where their parameters are.
LEMMA PatternOfNone ==
    Matches(<<>>, <<>>) /\ Places(<<>>, <<>>, 0)
<1>1. Matches(<<>>, <<>>)
  BY DEF Matches
<1>2. Places(<<>>, <<>>, 0)
  BY DEF Places
<1> QED
  BY <1>1, <1>2

LEMMA PatternOfOne ==
    ASSUME NEW a, a \notin Parameter
    PROVE  Matches(<<a>>, <<a>>) /\ Places(<<a>>, <<>>, 0)
<1>1. <<a>> \in Seq({a}) /\ Len(<<a>>) = 1 /\ <<a>>[1] = a /\ \A i \in 1 .. 1 : i = 1
  OBVIOUS
<1>2. Matches(<<a>>, <<a>>)
  <2>1. Takes(a, a)
    BY Zenon DEF Takes
  <2> QED
    BY <1>1, <2>1, MatchesTakes, Zenon
<1>3. Places(<<a>>, <<>>, 0)
  BY <1>1 DEF Places
<1> QED
  BY <1>2, <1>3

LEMMA PatternOfTwo ==
    ASSUME NEW a, a \notin Parameter, NEW p \in Parameter, NEW x, x # Empty
    PROVE  Matches(<<a, p>>, <<a, x>>) /\ Places(<<a, p>>, <<2>>, 1)
<1> DEFINE tail == <<a, p>>
           rest == <<a, x>>
           at == <<2>>
<1>1. /\ tail \in Seq({a, p, x}) /\ Len(tail) = 2 /\ tail[1] = a /\ tail[2] = p
      /\ rest \in Seq({a, p, x}) /\ Len(rest) = 2 /\ rest[1] = a /\ rest[2] = x
      /\ at \in [1 .. 1 -> 1 .. 2] /\ at[1] = 2
      /\ \A i \in 1 .. 2 : i = 1 \/ i = 2
  OBVIOUS
<1> HIDE DEF tail, rest, at
<1>2. Matches(tail, rest)
  <2>1. Takes(a, a) /\ Takes(p, x)
    BY Zenon DEF Takes
  <2> QED
    BY <1>1, <2>1, MatchesTakes, Zenon
<1>3. Places(tail, at, 1)
  <2>1. {j \in 1 .. 2 : tail[j] \in Parameter} = {2}
    BY <1>1
  <2>2. {at[k] : k \in 1 .. 1} = {2}
    BY <1>1
  <2> QED
    BY <1>1, <2>1, <2>2 DEF Places
<1> QED
  BY <1>2, <1>3 DEF tail, rest, at

LEMMA PatternOfThree ==
    ASSUME NEW a, a \notin Parameter, NEW p \in Parameter, NEW q \in Parameter,
           NEW x, x # Empty, NEW y, y # Empty
    PROVE  Matches(<<a, p, q>>, <<a, x, y>>) /\ Places(<<a, p, q>>, <<2, 3>>, 2)
<1> DEFINE tail == <<a, p, q>>
           rest == <<a, x, y>>
           at == <<2, 3>>
<1>1. /\ tail \in Seq({a, p, q, x, y}) /\ Len(tail) = 3
      /\ tail[1] = a /\ tail[2] = p /\ tail[3] = q
      /\ rest \in Seq({a, p, q, x, y}) /\ Len(rest) = 3
      /\ rest[1] = a /\ rest[2] = x /\ rest[3] = y
      /\ at \in [1 .. 2 -> 1 .. 3] /\ at[1] = 2 /\ at[2] = 3
      /\ \A i \in 1 .. 3 : i = 1 \/ i = 2 \/ i = 3
  OBVIOUS
<1> HIDE DEF tail, rest, at
<1>2. Matches(tail, rest)
  <2>1. Takes(a, a) /\ Takes(p, x) /\ Takes(q, y)
    BY Zenon DEF Takes
  <2> QED
    BY <1>1, <2>1, MatchesTakes, Zenon
<1>3. Places(tail, at, 2)
  <2>1. {j \in 1 .. 3 : tail[j] \in Parameter} = {2, 3}
    BY <1>1
  <2>2. {at[k] : k \in 1 .. 2} = {2, 3}
    BY <1>1
  <2>3. \A k, l \in 1 .. 2 : k < l => at[k] < at[l]
    BY <1>1
  <2> QED
    BY <1>1, <2>1, <2>2, <2>3 DEF Places
<1> QED
  BY <1>2, <1>3 DEF tail, rest, at

LEMMA LinkServed ==
    ASSUME NEW server, WellFormed(server), NEW i \in DOMAIN server.things,
           NEW tail, NEW handler, <<"GET", tail, handler>> \in ThingRoutes,
           NEW T, NEW rest \in Seq(T), Matches(tail, rest),
           NEW m \in Nat, NEW at, Places(tail, at, m),
           NEW name, name = IF 1 <= m THEN rest[at[1]] ELSE None,
           NEW id, id = IF 2 <= m THEN rest[at[2]] ELSE None
    PROVE  IsServed(server, Link(server, i, rest, handler, name, id))
<1> DEFINE S == T \cup {ToString(i - 1)}
           link == Link(server, i, rest, handler, name, id)
<1>1. ToString(i - 1) \in S /\ rest \in Seq(Segment(server, S))
  <2>1. T \subseteq Segment(server, S)
    BY DEF Segment
  <2> QED
    BY <2>1, SeqMonotonic, Zenon
<1> HIDE DEF S
<1>2. Dispatch(server, "GET", HrefPrefix(server, i) \o rest) =
          [handler |-> handler, thing |-> server.things[i], name |-> name, id |-> id]
  <2>1. Dispatch(server, "GET", HrefPrefix(server, i) \o rest)
            = Target(server, i, handler, rest, at, m)
    BY <1>1, LinkDispatch, SMTT(60)
  <2> QED
    BY <2>1, Zenon DEF Target
<1>3. /\ link.href = HrefPrefix(server, i) \o rest
      /\ link.to = [handler |-> handler, thing |-> server.things[i], name |-> name, id |-> id]
  BY DEF Link
<1> QED
  BY <1>2, <1>3, Zenon DEF IsServed

LEMMA ListLinkServed ==
    ASSUME NEW server, WellFormed(server), NEW i \in DOMAIN server.things,
           NEW list, list \notin Parameter, NEW handler, <<"GET", <<list>>, handler>> \in ThingRoutes
    PROVE  IsServed(server, Link(server, i, <<list>>, handler, None, None))
<1>1. Matches(<<list>>, <<list>>) /\ Places(<<list>>, <<>>, 0)
  BY PatternOfOne, Zenon
<1>2. <<list>> \in Seq({list}) /\ 0 \in Nat
  OBVIOUS
<1>3. /\ None = IF 1 <= 0 THEN <<list>>[<<>>[1]] ELSE None
      /\ None = IF 2 <= 0 THEN <<list>>[<<>>[2]] ELSE None
  OBVIOUS
<1> QED
  BY <1>1, <1>2, <1>3, LinkServed, Zenon

LEMMA NameLinkServed ==
    ASSUME NEW server, WellFormed(server), NEW i \in DOMAIN server.things,
           NEW list, list \notin Parameter, NEW parameter \in Parameter,
           NEW handler, <<"GET", <<list, parameter>>, handler>> \in ThingRoutes,
           NEW name, name # Empty
    PROVE  IsServed(server, Link(server, i, <<list, name>>, handler, name, None))
<1> DEFINE rest == <<list, name>>
           at == <<2>>
<1>1. Matches(<<list, parameter>>, rest) /\ Places(<<list, parameter>>, at, 1)
  BY PatternOfTwo, Zenon
<1>2. rest \in Seq({list, name}) /\ 1 \in Nat /\ rest[2] = name /\ at[1] = 2
  OBVIOUS
<1> HIDE DEF rest, at
<1>3. name = IF 1 <= 1 THEN rest[at[1]] ELSE None
  BY <1>2
<1>4. None = IF 2 <= 1 THEN rest[at[2]] ELSE None
  OBVIOUS
<1>5. IsServed(server, Link(server, i, rest, handler, name, None))
  BY <1>1, <1>2, <1>3, <1>4, LinkServed, Zenon
<1> QED
  BY <1>5, Zenon DEF rest

LEMMA IdLinkServed ==
    ASSUME NEW server, WellFormed(server), NEW i \in DOMAIN server.things,
           NEW name, name # Empty, NEW id, id # Empty
    PROVE  IsServed(server, ActionLink(server, i, name, id))
<1> DEFINE tail == <<"actions", ":action_name", ":action_id">>
           rest == <<"actions", name, id>>
           at == <<2, 3>>
<1>1. "actions" \notin Parameter /\ ":action_name" \in Parameter /\ ":action_id" \in Parameter
  BY DEF Parameter
<1>2. Matches(tail, rest) /\ Places(tail, at, 2)
  BY <1>1, PatternOfThree, Zenon
<1>3. <<"GET", tail, "handle_action_id_get">> \in ThingRoutes
  BY Zenon DEF ThingRoutes
<1>4. /\ rest \in Seq({"actions", name, id}) /\ rest[2] = name /\ rest[3] = id
      /\ at[1] = 2 /\ at[2] = 3 /\ 2 \in Nat
  OBVIOUS
<1> HIDE DEF tail, rest, at
<1>5. name = IF 1 <= 2 THEN rest[at[1]] ELSE None
  BY <1>4
<1>6. id = IF 2 <= 2 THEN rest[at[2]] ELSE None
  BY <1>4
<1>7. IsServed(server, Link(server, i, rest, "handle_action_id_get", name, id))
  BY <1>2, <1>3, <1>4, <1>5, <1>6, LinkServed, Zenon
<1> QED
  BY <1>7, Zenon DEF ActionLink, rest

\* The href of a thing is the prefix of its links, or "/" where that is empty.
LEMMA SelfLinkServed ==
    ASSUME NEW server, WellFormed(server), NEW i \in DOMAIN server.things
    PROVE  IsServed(server, SelfLink(server, i))
<1> DEFINE href == HrefPrefix(server, i)
           S == {ToString(i - 1), Empty}
<1>1. href \in Seq(Segment(server, S))
  <2>1. ToString(i - 1) \in S
    OBVIOUS
  <2> QED
    BY <2>1, HrefTypes, Zenon
<1>2. CASE href # <<>>
  <2>1. <<"GET", <<>>, "handle_thing">> \in ThingRoutes
    BY Zenon DEF ThingRoutes
  <2>2. <<>> \in Seq({}) /\ 0 \in Nat
    OBVIOUS
  <2>3. /\ None = IF 1 <= 0 THEN <<>>[<<>>[1]] ELSE None
        /\ None = IF 2 <= 0 THEN <<>>[<<>>[2]] ELSE None
    OBVIOUS
  <2>4. IsServed(server, Link(server, i, <<>>, "handle_thing", None, None))
    BY <2>1, <2>2, <2>3, PatternOfNone, LinkServed, Zenon
  <2>5. href \o <<>> = href
    BY <1>1, ConcatEmptySeq, Zenon
  <2>6. Link(server, i, <<>>, "handle_thing", None, None) = SelfLink(server, i)
    BY <1>2, <2>5, Zenon DEF Link, SelfLink, ThingHref
  <2> QED
    BY <2>4, <2>6, Zenon
<1>3. CASE href = <<>>
  <2>1. <<"GET", <<Empty>>, "handle_thing">> \in ThingRoutes
    BY Zenon DEF ThingRoutes, Empty
  <2>2. IsServed(server, Link(server, i, <<Empty>>, "handle_thing", None, None))
    BY <2>1, EmptyDiffers, ListLinkServed, Zenon
  <2>3. <<>> \o <<Empty>> = <<Empty>>
    OBVIOUS
  <2>4. Link(server, i, <<Empty>>, "handle_thing", None, None) = SelfLink(server, i)
    BY <1>3, <2>3, Zenon DEF Link, SelfLink, ThingHref, Empty
  <2> QED
    BY <2>2, <2>4, Zenon
<1> QED
  BY <1>2, <1>3

\* Thing::as_thing_description: every link of the description of a thing whose names
\* are segments of a path is served, on every server.
THEOREM DescriptionIsServed ==
    ASSUME NEW server, WellFormed(server), NEW i \in DOMAIN server.things, NEW has,
           \A name \in has.properties \cup has.actions \cup has.events : name # "",
           NEW link \in DescriptionLinks(server, i, has)
    PROVE  IsServed(server, link)
<1>1. \A name \in has.properties \cup has.actions \cup has.events : name # Empty
  BY Zenon DEF Empty
<1>2. /\ "properties" \notin Parameter /\ "actions" \notin Parameter /\ "events" \notin Parameter
      /\ ":property_name" \in Parameter /\ ":action_name" \in Parameter
      /\ ":event_name" \in Parameter
  BY Zenon DEF Parameter
<1>3. /\ <<"GET", <<"properties">>, "handle_properties">> \in ThingRoutes
      /\ <<"GET", <<"actions">>, "handle_actions_get">> \in ThingRoutes
      /\ <<"GET", <<"events">>, "handle_events">> \in ThingRoutes
      /\ <<"GET", <<"properties", ":property_name">>, "handle_property_get">> \in ThingRoutes
      /\ <<"GET", <<"actions", ":action_name">>, "handle_actions_get">> \in ThingRoutes
      /\ <<"GET", <<"events", ":event_name">>, "handle_events">> \in ThingRoutes
  BY Zenon DEF ThingRoutes
<1>4. /\ IsServed(server, SelfLink(server, i))
      /\ IsServed(server, Link(server, i, <<"properties">>, "handle_properties", None, None))
      /\ IsServed(server, Link(server, i, <<"actions">>, "handle_actions_get", None, None))
      /\ IsServed(server, Link(server, i, <<"events">>, "handle_events", None, None))
  BY <1>2, <1>3, SelfLinkServed, ListLinkServed, Zenon
<1>5. ASSUME NEW name \in has.properties PROVE IsServed(server, PropertyLink(server, i, name))
  BY <1>1, <1>2, <1>3, NameLinkServed, Zenon DEF PropertyLink
<1>6. ASSUME NEW name \in has.actions
      PROVE  IsServed(server, Link(server, i, <<"actions", name>>, "handle_actions_get", name, None))
  BY <1>1, <1>2, <1>3, NameLinkServed, Zenon
<1>7. ASSUME NEW name \in has.events
      PROVE  IsServed(server, Link(server, i, <<"events", name>>, "handle_events", name, None))
  BY <1>1, <1>2, <1>3, NameLinkServed, Zenon
<1> QED
  BY <1>4, <1>5, <1>6, <1>7, Zenon DEF DescriptionLinks

\* Action::get_href: the link of every action whose name and id are segments of a path
\* is served, on every server.
THEOREM ActionLinkServed ==
    ASSUME NEW server, WellFormed(server), NEW i \in DOMAIN server.things,
           NEW name, name # "", NEW id, id # ""
    PROVE  IsServed(server, ActionLink(server, i, name, id))
<1>1. name # Empty /\ id # Empty
  BY Zenon DEF Empty
<1> QED
  BY <1>1, IdLinkServed, Zenon

---------------------------------------------------------------------------------
(* Slashes *)

\* The parameters of the patterns of lists and of things.
LEMMA NoParameters ==
    ASSUME NEW S, NEW pattern \in Seq(S), NEW path \in Seq(S), Len(pattern) = Len(path),
           \A j \in 1 .. Len(pattern) : pattern[j] \notin Parameter
    PROVE  Parameters(pattern, path) = <<>>
<1>1. ParametersAt(pattern, path) = {}
  BY DEF ParametersAt
<1>2. ListsParameters(<<>>, 0, pattern, path)
  BY <1>1 DEF ListsParameters
<1>3. 0 \in Nat
  OBVIOUS
<1>4. Parameters(pattern, path) = Segments(path, <<>>, 0)
  BY <1>2, <1>3, ParametersListed, Zenon
<1>5. Segments(path, <<>>, 0) = <<>>
  BY DEF Segments
<1> QED
  BY <1>4, <1>5

LEMMA OneParameter ==
    ASSUME NEW S, NEW pattern \in Seq(S), NEW path \in Seq(S), Len(pattern) = Len(path),
           NEW n \in 1 .. Len(pattern),
           \A j \in 1 .. Len(pattern) : pattern[j] \in Parameter <=> j = n
    PROVE  Parameters(pattern, path) = <<path[n]>>
<1> DEFINE at == <<n>>
<1>1. ParametersAt(pattern, path) = {n}
  BY DEF ParametersAt
<1>2. at \in [1 .. 1 -> Int] /\ at[1] = n
  OBVIOUS
<1> HIDE DEF at
<1>3. ListsParameters(at, 1, pattern, path)
  <2>1. {at[k] : k \in 1 .. 1} = {n}
    BY <1>2
  <2>2. \A k, l \in 1 .. 1 : k < l => at[k] < at[l]
    OBVIOUS
  <2> QED
    BY <1>1, <1>2, <2>1, <2>2 DEF ListsParameters
<1>4. 1 \in Nat
  OBVIOUS
<1>5. Parameters(pattern, path) = Segments(path, at, 1)
  BY <1>3, <1>4, ParametersListed, Zenon
<1>6. Segments(path, at, 1) = <<path[n]>>
  BY <1>2 DEF Segments
<1> QED
  BY <1>5, <1>6

\* A path with a slash at its end.
LEMMA SlashedPath ==
    ASSUME NEW S, Empty \in S, NEW path \in Seq(S)
    PROVE  /\ path \o <<Empty>> \in Seq(S)
           /\ Len(path \o <<Empty>>) = Len(path) + 1
           /\ (path \o <<Empty>>)[Len(path) + 1] = Empty
           /\ \A i \in 1 .. Len(path) : (path \o <<Empty>>)[i] = path[i]
           /\ Last(path \o <<Empty>>) = Empty
           /\ Front(path \o <<Empty>>) = path
<1> DEFINE slashed == path \o <<Empty>>
<1>1. /\ slashed \in Seq(S) /\ Len(slashed) = Len(path) + 1
      /\ slashed[Len(path) + 1] = Empty
      /\ \A i \in 1 .. Len(path) : slashed[i] = path[i]
  OBVIOUS
<1>2. Len(path) \in Nat
  OBVIOUS
<1> HIDE DEF slashed
<1>3. Last(slashed) = Empty
  BY <1>1 DEF Last
<1>4. Front(slashed) = path
  <2>1. Front(slashed) = SubSeq(slashed, 1, Len(path))
    BY <1>1, <1>2 DEF Front
  <2>2. /\ SubSeq(slashed, 1, Len(path)) \in Seq(S)
        /\ Len(SubSeq(slashed, 1, Len(path))) = Len(path)
        /\ \A i \in 1 .. Len(path) : SubSeq(slashed, 1, Len(path))[i] = slashed[i]
    BY <1>1, <1>2
  <2> QED
    BY <1>1, <2>1, <2>2, SeqEqual
<1> QED
  BY <1>1, <1>3, <1>4 DEF slashed

\* The prefix of a thing's routes does not match a path with a slash at its end: a
\* base path has none, and the index of a thing is not empty.
LEMMA PrefixEndsInSegment ==
    ASSUME NEW server, WellFormed(server), NEW S, NEW path \in Seq(S), path # <<>>,
           \/ Matches(RoutePrefix(server), path)
           \/ Matches(server.base_path, path)
    PROVE  path[Len(path)] # Empty
<1> DEFINE base == server.base_path
           prefix == RoutePrefix(server)
           P == Segment(server, S)
<1>1. /\ base \in Seq(P) /\ prefix \in Seq(P)
      /\ \A k \in 1 .. Len(base) : base[k] \notin Parameter
      /\ IsSingle(server) => prefix = base
      /\ ~IsSingle(server) => prefix = base \o <<":thing_id">>
  BY PrefixTypes, Zenon
<1>2. path \in Seq(P)
  <2>1. S \subseteq P
    BY DEF Segment
  <2> QED
    BY <2>1, SeqMonotonic, Zenon
<1>3. base # <<>> => base[Len(base)] # Empty
  BY Zenon DEF WellFormed, Last, Empty
<1>4. ":thing_id" \in P
  BY DEF Segment, Literal, Parameter
<1> HIDE DEF base, prefix, P
<1>5. Len(path) \in Nat /\ Len(path) \in 1 .. Len(path)
  BY <1>2
<1>6. CASE Matches(base, path)
  <2>1. Len(base) = Len(path) /\ Takes(base[Len(path)], path[Len(path)])
    BY <1>1, <1>2, <1>5, <1>6, MatchesTakes, Zenon
  <2>2. base # <<>>
    BY <1>5, <2>1
  <2>3. base[Len(path)] \notin Parameter
    BY <1>1, <1>5, <2>1
  <2> QED
    BY <1>3, <2>1, <2>2, <2>3, Zenon DEF Takes
<1>7. CASE ~IsSingle(server) /\ Matches(prefix, path)
  <2>1. Len(prefix) = Len(path) /\ Takes(prefix[Len(path)], path[Len(path)])
    BY <1>1, <1>2, <1>5, <1>7, MatchesTakes, Zenon
  <2>2. prefix[Len(prefix)] = ":thing_id"
    BY <1>1, <1>4, <1>7
  <2> QED
    BY <2>1, <2>2, Zenon DEF Takes, Parameter
<1> QED
  BY <1>1, <1>6, <1>7, Zenon DEF base, prefix

\* The elements of two sequences one after the other.
LEMMA ConcatElements ==
    ASSUME NEW S, NEW front \in Seq(S), NEW rest \in Seq(S)
    PROVE  /\ \A i \in 1 .. Len(front) : (front \o rest)[i] = front[i]
           /\ \A i \in 1 .. Len(rest) : (front \o rest)[Len(front) + i] = rest[i]
<1>1. Len(front) \in Nat /\ Len(rest) \in Nat
  OBVIOUS
<1>2. ASSUME NEW i \in 1 .. Len(front) PROVE (front \o rest)[i] = front[i]
  OBVIOUS
<1>3. ASSUME NEW i \in 1 .. Len(rest) PROVE (front \o rest)[Len(front) + i] = rest[i]
  BY <1>1
<1> QED
  BY <1>2, <1>3, Zenon

\* A route that a path with a slash at its end matches is one of the two that are
\* registered with a slash.
LEMMA SlashedRoutes ==
    ASSUME NEW server, WellFormed(server), NEW S, Empty \in S, NEW path \in Seq(S),
           NEW route \in Matching(server, "GET", path \o <<Empty>>)
    PROVE  \/ /\ ~IsSingle(server) /\ Matches(server.base_path, path)
              /\ route = Route("GET", server.base_path \o <<Empty>>, "handle_things")
           \/ /\ Matches(RoutePrefix(server), path)
              /\ route = Route("GET", RoutePrefix(server) \o <<Empty>>, "handle_thing")
<1> DEFINE base == server.base_path
           prefix == RoutePrefix(server)
           slashed == path \o <<Empty>>
           P == Segment(server, S)
<1>1. base \in Seq(P) /\ prefix \in Seq(P)
  BY PrefixTypes, Zenon
<1>2. S \subseteq P /\ Empty \in P
  BY DEF Segment
<1>3. path \in Seq(P)
  BY <1>2, SeqMonotonic, Zenon
<1>4. /\ slashed \in Seq(P) /\ slashed \in Seq(S) /\ Len(slashed) = Len(path) + 1
      /\ slashed[Len(path) + 1] = Empty
  BY <1>2, <1>3, SlashedPath, Zenon
<1>5. route \in Routes(server) /\ route.method = "GET" /\ Matches(route.pattern, slashed)
  BY Zenon DEF Matching
<1>6. <<Empty>> \in Seq(P) /\ Len(<<Empty>>) = 1 /\ Len(path) \in Nat
  BY <1>2, <1>3
<1> HIDE DEF base, prefix, slashed, P
<1>7. ~Matches(base, slashed) /\ ~Matches(prefix, slashed)
  <2>1. slashed # <<>> /\ slashed[Len(slashed)] = Empty
    BY <1>4, <1>6
  <2> QED
    BY <1>4, <2>1, PrefixEndsInSegment, Zenon DEF base, prefix
<1>8. CASE route \in ListRoutes(server)
  <2>1. /\ ~IsSingle(server)
        /\ \/ /\ route = Route("GET", base, "handle_things") /\ route.pattern = base
           \/ /\ route = Route("GET", base \o <<Empty>>, "handle_things")
              /\ route.pattern = base \o <<Empty>>
    BY <1>8, ListRouteCases, Zenon DEF base
  <2>2. /\ route = Route("GET", base \o <<Empty>>, "handle_things")
        /\ Matches(base \o <<Empty>>, slashed)
    BY <1>5, <1>7, <2>1, Zenon
  <2>3. Len(base) = Len(path)
    <3>1. Len(base \o <<Empty>>) = Len(slashed)
      BY <2>2, Zenon DEF Matches
    <3> QED
      BY <3>1, <1>1, <1>4, <1>6
  <2>4. Matches(base, path)
    BY <1>1, <1>3, <1>6, <2>2, <2>3, MatchesInPieces, Zenon DEF slashed
  <2> QED
    BY <2>1, <2>2, <2>4, Zenon DEF base
<1>9. CASE \E r \in ThingRoutes : route = Route(r[1], prefix \o r[2], r[3])
  <2>1. PICK r \in ThingRoutes : route = Route(r[1], prefix \o r[2], r[3])
    BY <1>9
  <2>2. r[1] = "GET" /\ Matches(prefix \o r[2], slashed)
    BY <1>5, <2>1, Zenon DEF Route
  <2>3. PICK front, rest :
            /\ front \in Seq(P) /\ rest \in Seq(P) /\ slashed = front \o rest
            /\ Len(front) = Len(prefix) /\ Matches(prefix, front) /\ Matches(r[2], rest)
    BY <1>4, <2>2, ThingRouteBelow, Zenon DEF prefix, P
  <2>4. <<"GET", r[2], r[3]>> \in ThingRoutes
    <3>1. r = <<r[1], r[2], r[3]>>
      BY ThingRouteTypes
    <3> QED
      BY <2>2, <3>1, Zenon
  <2>5. /\ r[2] \in Seq(Literal) /\ Len(r[2]) = Len(rest) /\ Len(rest) \in 0 .. 3
        /\ Len(rest) >= 1 => r[2][1] = rest[1]
        /\ Len(rest) >= 2 => rest[2] # Empty
        /\ Len(rest) >= 3 => rest[3] # Empty
    BY <2>3, <2>4, ThingRouteShape, ZenonT(60)
  <2>6. Len(rest) # 0
    <3>1. SUFFICES ASSUME Len(rest) = 0 PROVE FALSE
      OBVIOUS
    <3>2. front \o rest = front
      BY <2>3, <3>1
    <3> QED
      BY <1>7, <2>3, <3>2, Zenon
  <2>7. rest[Len(rest)] = Empty
    <3>1. /\ Len(front) + Len(rest) = Len(path) + 1
          /\ (front \o rest)[Len(front) + Len(rest)] = rest[Len(rest)]
      <4>1. Len(front \o rest) = Len(front) + Len(rest)
        BY <2>3, ConcatProperties, Zenon
      <4>2. (front \o rest)[Len(front) + Len(rest)] = rest[Len(rest)]
        <5>1. Len(rest) \in 1 .. Len(rest)
          BY <2>5, <2>6
        <5>2. front \in Seq(P) /\ rest \in Seq(P)
          BY <2>3
        <5>3. \A i \in 1 .. Len(rest) : (front \o rest)[Len(front) + i] = rest[i]
          BY <5>2, ConcatElements
        <5> QED
          BY <5>1, <5>3, Zenon
      <4> QED
        BY <1>4, <2>3, <4>1, <4>2
    <3> QED
      BY <1>4, <2>3, <3>1, Zenon
  <2>8. Len(rest) = 1 /\ rest[1] = Empty
    <3>1. ASSUME Len(rest) = 2 PROVE FALSE
      BY <2>5, <2>7, <3>1
    <3>2. ASSUME Len(rest) = 3 PROVE FALSE
      BY <2>5, <2>7, <3>2
    <3>3. Len(rest) = 1
      BY <2>5, <2>6, <3>1, <3>2
    <3> QED
      BY <2>7, <3>3
  <2>9. r[2] = <<Empty>>
    <3>1. r[2][1] = Empty /\ Len(r[2]) = 1
      BY <2>5, <2>8
    <3> QED
      BY <2>5, <3>1
  <2>10. r[3] = "handle_thing"
    <3>1. ThingRouteIs("GET", r[2], r[3])
      BY <2>4, ThingRouteCases, Zenon
    <3>2. Len(r[2]) = 1 /\ r[2][1] = Empty
      BY <2>5, <2>8
    <3> QED
      BY <3>1, <3>2, EmptyDiffers DEF ThingRouteIs
  <2>11. Matches(prefix, path)
    <3>1. front = path
      <4>1. Len(front) = Len(path)
        <5>1. Len(front \o rest) = Len(front) + Len(rest)
          BY <2>3, ConcatProperties, Zenon
        <5>2. Len(front \o rest) = Len(front) + 1
          BY <2>8, <5>1, Zenon
        <5> QED
          BY <1>4, <1>6, <2>3, <5>2
      <4>2. \A i \in 1 .. Len(front) : front[i] = path[i]
        <5>1. \A i \in 1 .. Len(front) : (front \o rest)[i] = front[i]
          BY <2>3, ConcatElements, Zenon
        <5>2. \A i \in 1 .. Len(path) : slashed[i] = path[i]
          BY <1>2, <1>3, SlashedPath, Zenon DEF slashed
        <5> QED
          BY <2>3, <4>1, <5>1, <5>2, Zenon
      <4> QED
        BY <1>3, <2>3, <4>1, <4>2, SeqEqual, Zenon
    <3> QED
      BY <2>3, <3>1, Zenon
  <2> QED
    BY <2>1, <2>2, <2>9, <2>10, <2>11, Zenon DEF prefix
<1> QED
  BY <1>5, <1>8, <1>9, Zenon DEF Routes, prefix

\* Two paths with the same handler and the same parameters come to the same.
LEMMA SameDispatch ==
    ASSUME NEW server, WellFormed(server), NEW S, NEW path \in Seq(S), NEW other \in Seq(S),
           NEW q \in Matching(server, "GET", path), NEW r \in Matching(server, "GET", other),
           q.handler = r.handler, Parameters(q.pattern, path) = Parameters(r.pattern, other)
    PROVE  Dispatch(server, "GET", path) = Dispatch(server, "GET", other)
<1> DEFINE Found(handler, parameters) ==
               [handler |-> handler, thing |-> FindThing(server, parameters),
                name |-> FindParameter(server, parameters, 0),
                id |-> FindParameter(server, parameters, 1)]
<1>1. Dispatch(server, "GET", path) = Found(q.handler, Parameters(q.pattern, path))
  BY DispatchTo, ZenonT(60)
<1>2. Dispatch(server, "GET", other) = Found(r.handler, Parameters(r.pattern, other))
  BY DispatchTo, ZenonT(60)
<1> HIDE DEF Found
<1> QED
  BY <1>1, <1>2, Zenon

\* The parameters of the prefix of a thing's routes: its index, where it has one.
LEMMA PrefixParameters ==
    ASSUME NEW server, WellFormed(server), NEW S, Empty \in S, NEW path \in Seq(S),
           Len(path) = Len(RoutePrefix(server))
    PROVE  Parameters(RoutePrefix(server) \o <<Empty>>, path \o <<Empty>>)
               = Parameters(RoutePrefix(server), path)
<1> DEFINE base == server.base_path
           prefix == RoutePrefix(server)
           P == Segment(server, S)
           slashed == path \o <<Empty>>
           pattern == prefix \o <<Empty>>
<1>1. /\ base \in Seq(P) /\ prefix \in Seq(P)
      /\ \A k \in 1 .. Len(base) : base[k] \notin Parameter
      /\ IsSingle(server) => prefix = base
      /\ ~IsSingle(server) => prefix = base \o <<":thing_id">>
  BY PrefixTypes, Zenon
<1>2. S \subseteq P /\ Empty \in P /\ ":thing_id" \in P /\ ":thing_id" \in Parameter
  BY DEF Segment, Literal, Parameter
<1>3. path \in Seq(P)
  BY <1>2, SeqMonotonic, Zenon
<1>4. /\ slashed \in Seq(P) /\ Len(slashed) = Len(path) + 1
      /\ \A i \in 1 .. Len(path) : slashed[i] = path[i]
  BY <1>2, <1>3, SlashedPath, Zenon
<1> HIDE DEF base, prefix, P, slashed
<1>5. /\ pattern \in Seq(P) /\ Len(pattern) = Len(prefix) + 1
      /\ pattern[Len(prefix) + 1] = Empty
      /\ \A i \in 1 .. Len(prefix) : pattern[i] = prefix[i]
  BY <1>1, <1>2, SlashedPath, Zenon
<1>6. Len(path) = Len(prefix) /\ Len(pattern) = Len(slashed) /\ Len(prefix) \in Nat
  BY <1>1, <1>4, <1>5 DEF prefix
<1>7. pattern[Len(pattern)] \notin Parameter
  BY <1>5, EmptyDiffers, Zenon
<1> HIDE DEF pattern
<1>8. CASE IsSingle(server)
  <2>1. \A j \in 1 .. Len(prefix) : prefix[j] \notin Parameter
    BY <1>1, <1>8
  <2>2. \A j \in 1 .. Len(pattern) : pattern[j] \notin Parameter
    <3>1. \A j \in 1 .. Len(pattern) : j \in 1 .. Len(prefix) \/ j = Len(pattern)
      BY <1>5, <1>6
    <3> QED
      BY <3>1, <2>1, <1>5, <1>7, Zenon
  <2>3. Parameters(prefix, path) = <<>> /\ Parameters(pattern, slashed) = <<>>
    BY <1>1, <1>3, <1>4, <1>5, <1>6, <2>1, <2>2, NoParameters, Zenon
  <2> QED
    BY <2>3, Zenon DEF prefix, slashed, pattern
<1>9. CASE ~IsSingle(server)
  <2> DEFINE n == Len(prefix)
  <2>1. prefix = base \o <<":thing_id">>
    BY <1>1, <1>9
  <2>2. /\ Len(base) \in Nat /\ n = Len(base) + 1 /\ prefix[n] = ":thing_id"
        /\ \A j \in 1 .. Len(base) : prefix[j] = base[j]
    BY <1>1, <2>1
  <2>3. \A j \in 1 .. n : prefix[j] \in Parameter <=> j = n
    <3>1. \A j \in 1 .. n : j \in 1 .. Len(base) \/ j = n
      BY <2>2
    <3>2. n \notin 1 .. Len(base)
      BY <2>2
    <3> QED
      BY <1>1, <1>2, <2>2, <3>1, <3>2, Zenon
  <2>4. n \in 1 .. n /\ n \in 1 .. Len(pattern) /\ n # Len(pattern)
    BY <2>2, <1>5
  <2>5. \A j \in 1 .. Len(pattern) : pattern[j] \in Parameter <=> j = n
    <3>1. \A j \in 1 .. Len(pattern) : j \in 1 .. n \/ j = Len(pattern)
      BY <1>5, <1>6
    <3> QED
      BY <3>1, <2>3, <2>4, <1>5, <1>7, Zenon
  <2>6. slashed[n] = path[n]
    BY <1>4, <1>6, <2>4
  <2> HIDE DEF n
  <2>7. Parameters(prefix, path) = <<path[n]>>
    BY <1>1, <1>3, <1>6, <2>3, <2>4, OneParameter, Zenon DEF n
  <2>8. Parameters(pattern, slashed) = <<slashed[n]>>
    BY <1>4, <1>5, <1>6, <2>4, <2>5, OneParameter, ZenonT(60)
  <2> QED
    BY <2>6, <2>7, <2>8, Zenon DEF prefix, slashed, pattern
<1> QED
  BY <1>8, <1>9

\* The base path with a slash at its end is routed, so that no redirection is needed.
LEMMA RootIsRouted ==
    ASSUME NEW server, WellFormed(server)
    PROVE  Matching(server, "GET", server.base_path \o <<Empty>>) # {}
<1> DEFINE base == server.base_path
           root == base \o <<Empty>>
           P == Segment(server, {})
<1>1. /\ base \in Seq(P) /\ \A k \in 1 .. Len(base) : base[k] \notin Parameter
      /\ IsSingle(server) => RoutePrefix(server) = base
  BY PrefixTypes, Zenon
<1>2. Empty \in P
  BY DEF Segment, Literal
<1> HIDE DEF base, P
<1>3. /\ root \in Seq(P) /\ Len(root) = Len(base) + 1 /\ root[Len(base) + 1] = Empty
      /\ \A i \in 1 .. Len(base) : root[i] = base[i]
      /\ Len(base) \in Nat
  BY <1>1, <1>2, SlashedPath
<1>4. Matches(root, root)
  <2>1. \A i \in 1 .. Len(root) : i \in 1 .. Len(base) \/ i = Len(base) + 1
    BY <1>3
  <2> HIDE DEF root
  <2>2. \A i \in 1 .. Len(root) : Takes(root[i], root[i])
    BY <1>1, <1>3, <2>1, EmptyDiffers, Zenon DEF Takes
  <2> QED
    BY <1>3, <2>2, MatchesTakes, Zenon
<1>5. \E route \in Routes(server) : route.method = "GET" /\ route.pattern = root
  <2>1. CASE IsSingle(server)
    <3>1. <<"GET", <<Empty>>, "handle_thing">> \in ThingRoutes
      BY Zenon DEF ThingRoutes, Empty
    <3> DEFINE r == <<"GET", <<Empty>>, "handle_thing">>
               route == Route("GET", RoutePrefix(server) \o <<Empty>>, "handle_thing")
    <3>2. r[1] = "GET" /\ r[2] = <<Empty>> /\ r[3] = "handle_thing"
      OBVIOUS
    <3> HIDE DEF r
    <3>3. route \in Routes(server)
      BY <3>1, <3>2, Zenon DEF Routes, r
    <3>4. route.method = "GET" /\ route.pattern = RoutePrefix(server) \o <<Empty>>
      BY DEF Route
    <3> QED
      BY <1>1, <2>1, <3>3, <3>4, Zenon
  <2>2. CASE ~IsSingle(server)
    <3> DEFINE route == Route("GET", base \o <<Empty>>, "handle_things")
    <3>1. route \in Routes(server)
      BY <2>2, Zenon DEF Routes, ListRoutes, Empty, base
    <3>2. route.method = "GET" /\ route.pattern = base \o <<Empty>>
      BY DEF Route
    <3> QED
      BY <3>1, <3>2, Zenon
  <2> QED
    BY <2>1, <2>2
<1> QED
  BY <1>4, <1>5, Zenon DEF Matching, base

\* handle_invalid_requests and the routes with a slash: a slash at the end of a path
\* leads nowhere else, on any server and for any path, known or not.
THEOREM SlashHarmless ==
    ASSUME NEW server, WellFormed(server), NEW S, NEW path \in Seq(S), path # <<>>
    PROVE  SlashIsHarmless(server, path)
<1> DEFINE base == server.base_path
           prefix == RoutePrefix(server)
           Q == S \cup {Empty}
           P == Segment(server, Q)
           slashed == path \o <<Empty>>
           found == Dispatch(server, "GET", slashed)
<1>1. path \in Seq(Q) /\ Empty \in Q
  <2>1. S \subseteq Q
    OBVIOUS
  <2> QED
    BY <2>1, SeqMonotonic, Zenon
<1>2. /\ slashed \in Seq(Q) /\ Len(slashed) = Len(path) + 1
      /\ Last(slashed) = Empty /\ Front(slashed) = path
  BY <1>1, SlashedPath, Zenon
<1> HIDE DEF slashed, Q
<1>3. SUFFICES ASSUME found # Dispatch(server, "GET", path)
               PROVE  found.handler = "handle_invalid_requests" /\ Location(server, slashed) = path
  BY Zenon DEF SlashIsHarmless, Empty, slashed
<1>4. ASSUME NEW route \in Matching(server, "GET", slashed) PROVE FALSE
  <2>1. CASE /\ ~IsSingle(server) /\ Matches(base, path)
             /\ route = Route("GET", base \o <<Empty>>, "handle_things")
    <3> DEFINE other == Route("GET", base, "handle_things")
    <3>1. other \in Routes(server)
      BY <2>1, Zenon DEF Routes, ListRoutes
    <3>2. /\ other.method = "GET" /\ other.pattern = base /\ other.handler = "handle_things"
          /\ route.pattern = base \o <<Empty>> /\ route.handler = "handle_things"
      BY <2>1 DEF Route
    <3> HIDE DEF other
    <3>3. other \in Matching(server, "GET", path)
      BY <2>1, <3>1, <3>2, Zenon DEF Matching
    <3>4. /\ base \in Seq(P) /\ \A k \in 1 .. Len(base) : base[k] \notin Parameter
          /\ Q \subseteq P /\ Empty \in P
      <4>1. base \in Seq(P) /\ \A k \in 1 .. Len(base) : base[k] \notin Parameter
        BY PrefixTypes, Zenon
      <4>2. Q \subseteq P /\ Empty \in P
        BY DEF Segment, Literal
      <4> QED
        BY <4>1, <4>2
    <3>5. path \in Seq(P) /\ slashed \in Seq(P)
      BY <1>1, <1>2, <3>4, SeqMonotonic, Zenon
    <3>6. Len(base) = Len(path) /\ Len(path) \in Nat
      <4>1. Len(base) = Len(path)
        BY <2>1, Zenon DEF Matches
      <4>2. Len(path) \in Nat
        BY <1>1
      <4> QED
        BY <4>1, <4>2
    <3> HIDE DEF base, P
    <3>7. Parameters(base, path) = <<>>
      BY <3>4, <3>5, <3>6, NoParameters, Zenon
    <3>8. Parameters(base \o <<Empty>>, slashed) = <<>>
      <4> DEFINE pattern == base \o <<Empty>>
      <4>1. /\ pattern \in Seq(P) /\ Len(pattern) = Len(base) + 1
            /\ pattern[Len(base) + 1] = Empty
            /\ \A i \in 1 .. Len(base) : pattern[i] = base[i]
        BY <3>4, SlashedPath, Zenon
      <4> HIDE DEF pattern
      <4>2. /\ Len(pattern) = Len(slashed)
            /\ \A i \in 1 .. Len(pattern) : i \in 1 .. Len(base) \/ i = Len(base) + 1
        BY <1>2, <3>6, <4>1
      <4>3. \A i \in 1 .. Len(pattern) : pattern[i] \notin Parameter
        BY <3>4, <4>1, <4>2, EmptyDiffers, Zenon
      <4>4. Parameters(pattern, slashed) = <<>>
        BY <3>5, <4>1, <4>2, <4>3, NoParameters, Zenon
      <4> QED
        BY <4>4 DEF pattern
    <3>9. /\ route.handler = other.handler
          /\ Parameters(route.pattern, slashed) = Parameters(other.pattern, path)
      BY <3>2, <3>7, <3>8, Zenon
    <3> QED
      BY <1>1, <1>2, <1>3, <1>4, <3>3, <3>9, SameDispatch, Zenon
  <2>2. CASE /\ Matches(prefix, path)
             /\ route = Route("GET", prefix \o <<Empty>>, "handle_thing")
    <3> DEFINE other == Route("GET", prefix, "handle_thing")
    <3>1. other \in Routes(server)
      <4> DEFINE r == <<"GET", <<>>, "handle_thing">>
      <4>1. r \in ThingRoutes
        BY Zenon DEF ThingRoutes
      <4>2. r[1] = "GET" /\ r[2] = <<>> /\ r[3] = "handle_thing"
        OBVIOUS
      <4>3. prefix \o <<>> = prefix
        <5>1. prefix \in Seq(P)
          BY PrefixTypes, Zenon
        <5> QED
          BY <5>1, ConcatEmptySeq, Zenon
      <4> HIDE DEF r
      <4> QED
        BY <4>1, <4>2, <4>3, Zenon DEF Routes
    <3>2. /\ other.method = "GET" /\ other.pattern = prefix /\ other.handler = "handle_thing"
          /\ route.pattern = prefix \o <<Empty>> /\ route.handler = "handle_thing"
      BY <2>2 DEF Route
    <3> HIDE DEF other
    <3>3. other \in Matching(server, "GET", path)
      BY <2>2, <3>1, <3>2, Zenon DEF Matching
    <3>4. Len(path) = Len(prefix)
      BY <2>2, Zenon DEF Matches
    <3>5. Parameters(prefix \o <<Empty>>, slashed) = Parameters(prefix, path)
      BY <1>1, <3>4, PrefixParameters, Zenon DEF slashed
    <3>6. /\ route.handler = other.handler
          /\ Parameters(route.pattern, slashed) = Parameters(other.pattern, path)
      BY <3>2, <3>5, Zenon
    <3> QED
      BY <1>1, <1>2, <1>3, <1>4, <3>3, <3>6, SameDispatch, Zenon
  <2> QED
    BY <1>1, <1>4, <2>1, <2>2, SlashedRoutes, Zenon DEF slashed
<1>5. Matching(server, "GET", slashed) = {}
  BY <1>4
<1>6. found.handler = "handle_invalid_requests"
  <2>1. found = [handler |-> "handle_invalid_requests", thing |-> None, name |-> None, id |-> None]
    <3>1. "GET" # "OPTIONS"
      BY Zenon
    <3> QED
      BY <1>5, <3>1, Zenon DEF Dispatch
  <2> QED
    BY <2>1
<1>7. slashed # <<Empty>>
  <2>1. Len(path) \in Nat /\ Len(path) # 0
    BY <1>1
  <2>2. Len(slashed) # 1
    BY <1>2, <2>1
  <2>3. Len(<<Empty>>) = 1
    OBVIOUS
  <2> QED
    BY <2>2, <2>3, Zenon
<1>8. slashed # base \o <<Empty>>
  BY <1>5, RootIsRouted, Zenon
<1>9. Location(server, slashed) = path
  BY <1>2, <1>7, <1>8, Zenon DEF Location, Empty
<1> QED
  BY <1>6, <1>9

---------------------------------------------------------------------------------
(* Building a server *)

\* The constructor of the server: a builder whose base path is a path without
\* parameters that ends with one slash at most yields a well-formed server.
THEOREM BuildIsWellFormed ==
    ASSUME NEW T, NEW S, NEW builder, NEW addresses,
           builder.things \in Seq(T), IsSingle(builder) => Len(builder.things) = 1,
           builder.base_path \in Seq(S \ Parameter) \ {<<>>},
           Len(builder.base_path) > 1 =>
               builder.base_path[Len(builder.base_path) - 1] # Empty,
           \A i \in DOMAIN builder.things : /\ ToString(i - 1) \in DOMAIN Stoi \ {Empty}
                                            /\ Stoi[ToString(i - 1)] = i - 1
    PROVE  WellFormed(Build(builder, addresses))
<1> DEFINE server == Build(builder, addresses)
           things == builder.things
           path == builder.base_path
           base == server.base_path
<1>1. server.things = things /\ server.type = builder.type
  BY Zenon DEF Build
<1>2. base = IF Last(path) = Empty THEN Front(path) ELSE path
  BY Zenon DEF Build, Empty
<1> HIDE DEF server, path, base, things
<1>3. path \in Seq(S \ Parameter) /\ path # <<>>
  BY DEF path
<1>4. /\ Len(path) \in Nat /\ Len(path) >= 1 /\ Last(path) = path[Len(path)]
      /\ Front(path) = SubSeq(path, 1, Len(path) - 1)
  BY <1>3 DEF Last, Front
<1>5. /\ Front(path) \in Seq(S \ Parameter) /\ Len(Front(path)) = Len(path) - 1
      /\ \A k \in 1 .. Len(path) - 1 : Front(path)[k] = path[k]
  <2> DEFINE Q == S \ Parameter
             n == Len(path) - 1
  <2>1. path \in Seq(Q) /\ n \in 0 .. Len(path) /\ Len(path) \in Nat
    BY <1>3, <1>4
  <2> HIDE DEF Q, n
  <2>2. /\ SubSeq(path, 1, n) \in Seq(Q) /\ Len(SubSeq(path, 1, n)) = n
        /\ \A k \in 1 .. n : SubSeq(path, 1, n)[k] = path[k]
    BY <2>1
  <2>3. Front(path) = SubSeq(path, 1, n)
    BY <1>4 DEF n
  <2> QED
    BY <2>2, <2>3 DEF Q, n
<1>6. base \in Seq(S \ Parameter)
  BY <1>2, <1>3, <1>5
<1>7. base # <<>> => Last(base) # Empty
  <2>1. CASE Last(path) = Empty
    <3>1. base = Front(path)
      BY <1>2, <2>1
    <3>2. ASSUME base # <<>> PROVE base[Len(base)] # Empty
      <4>1. Len(base) = Len(path) - 1 /\ Len(base) # 0
        BY <1>5, <1>6, <3>1, <3>2
      <4>2. Len(path) > 1 /\ Len(path) - 1 \in 1 .. Len(path) - 1
        BY <1>4, <4>1
      <4>3. base[Len(base)] = path[Len(path) - 1]
        BY <1>5, <3>1, <4>1, <4>2
      <4>4. path[Len(path) - 1] # Empty
        BY <4>2 DEF path
      <4> QED
        BY <4>3, <4>4
    <3> QED
      BY <3>2 DEF Last
  <2>2. CASE Last(path) # Empty
    BY <1>2, <2>2
  <2> QED
    BY <2>1, <2>2
<1>8. base \in Seq(Range(base) \ Parameter)
  <2>1. /\ Len(base) \in Nat /\ base \in [1 .. Len(base) -> S \ Parameter]
    BY <1>6
  <2>2. \A k \in 1 .. Len(base) : base[k] \in Range(base) \ Parameter
    BY <2>1 DEF Range
  <2>3. base \in [1 .. Len(base) -> Range(base) \ Parameter]
    BY <2>1, <2>2
  <2> QED
    BY <2>1, <2>3, SeqDef, ZenonT(60)
<1>9. things \in Seq(Range(things))
  <2>1. things \in Seq(T)
    BY DEF things
  <2>2. /\ Len(things) \in Nat /\ things \in [1 .. Len(things) -> T]
    BY <2>1
  <2>3. \A k \in 1 .. Len(things) : things[k] \in Range(things)
    BY <2>2 DEF Range
  <2>4. things \in [1 .. Len(things) -> Range(things)]
    BY <2>2, <2>3
  <2> QED
    BY <2>2, <2>4, SeqDef, Zenon
<1>10. IsSingle(server) => Len(server.things) = 1
  BY <1>1, Zenon DEF IsSingle, things
<1>11. \A i \in DOMAIN server.things : /\ ToString(i - 1) \in DOMAIN Stoi \ {Empty}
                                       /\ Stoi[ToString(i - 1)] = i - 1
  BY <1>1, Zenon DEF things
<1>12. /\ server.things \in Seq(Range(server.things))
       /\ server.base_path \in Seq(Range(server.base_path) \ Parameter)
       /\ server.base_path # <<>> => Last(server.base_path) # Empty
  BY <1>1, <1>7, <1>8, <1>9, Zenon DEF base
<1> QED
  BY <1>10, <1>11, <1>12, Zenon DEF WellFormed, Empty, server
=================================================================================
