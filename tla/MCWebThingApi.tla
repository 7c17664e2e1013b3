----------------------------- MODULE MCWebThingApi ------------------------------
(***************************************************************************)
(* A small instance of WebThingApi: a lamp with an int of three bits, of   *)
(* which 0 .. 2 are allowed, and a read-only int; an amplifier with a      *)
(* double of the same name, which allows 1 and 12. Both have an action go  *)
(* and an event known.                                                     *)
(***************************************************************************)
EXTENDS WebThingApi

CONSTANTS lamp, amp,       \* things
          level, serial,   \* names of properties
          go,              \* the name of an action
          known,           \* the name of an event
          unknown,         \* a name of nothing
          e1, e2           \* events

Under(base, builder) == [builder EXCEPT !.base_path = base]
MCServer ==
    LET builder == [Host(MultipleThings(<<lamp, amp>>)) EXCEPT
                       !.port = 8888, !.hostname = "Gateway", !.base_path = <<"api", "">>]
    IN  Build(builder, {"192.168.0.2"})

\* Both kinds of servers under no, one and two segments, one of them an index.
MCOtherServers ==
    {Build(Under(base, Host(SingleThing(lamp))), {}) :
        base \in {<<"">>, <<"api">>, <<"a", "b", "">>}}
    \cup {Build(Under(base, Host(MultipleThings(<<lamp, amp>>))), {}) :
        base \in {<<"">>, <<"0">>, <<"a", "b">>}}

MCLower == "Gateway" :> "gateway"

\* "7" is no thing's index; "1x" is read as 1, "x" not at all.
MCStoi == "0" :> 0 @@ "1" :> 1 @@ "1x" :> 1 @@ "7" :> 7 @@ "-1" :> -1

MCTail == {<<>>, <<"">>, <<"properties">>, <<"properties", "">>, <<"actions">>, <<"events">>,
           <<"properties", level>>, <<"properties", serial>>, <<"properties", unknown>>,
           <<"actions", go>>, <<"actions", go, "id">>, <<"actions", unknown, "id">>,
           <<"events", known>>, <<"nowhere">>}
MCPath == {base \o thing \o tail : base \in {<<>>, <<"api">>}, tail \in MCTail,
              thing \in {<<>>} \cup {<<i>> : i \in {"0", "1", "1x", "7", "-1", "x"}}} \ {<<>>}
MCHost == {[name |-> "localhost", port |-> 8888], [name |-> "gateway", port |-> None],
           [name |-> "Gateway", port |-> None], [name |-> "elsewhere", port |-> 8888]}
MCRequest == [method : {"GET", "PUT", "POST", "DELETE", "OPTIONS"}, host : MCHost, path : MCPath]

MCProperty == {<<lamp, level>>, <<lamp, serial>>, <<amp, level>>}
MCTypeOf == <<lamp, level>> :> "int" @@ <<lamp, serial>> :> "int" @@ <<amp, level>> :> "double"
MCAllowed == <<lamp, level>> :> 0 .. 2 @@ <<lamp, serial>> :> {1, 2} @@ <<amp, level>> :> {0, 1, 12}
MCReadOnly == {<<lamp, serial>>}
MCInitial == [p \in MCProperty |-> 0]

\* 9 wraps to 1, which is allowed; 12 wraps to -4, which is not.
MCJson == {[kind |-> "int", n |-> 1], [kind |-> "int", n |-> 9], [kind |-> "int", n |-> 12],
           [kind |-> "double", n |-> 1], [kind |-> "string", n |-> 1]}

Set(p, k, m) == [name |-> p, json |-> [kind |-> k, n |-> m]]
MCPropertyObjects == {<<Set(level, "int", 2)>>,
                      <<Set(level, "string", 1), Set(unknown, "int", 1), Set(level, "int", 9),
                        Set(serial, "int", 1)>>}
MCAction == {<<lamp, go>>, <<amp, go>>}
MCActionObjects == {<<[name |-> unknown, valid |-> TRUE], [name |-> go, valid |-> TRUE]>>,
                    <<[name |-> go, valid |-> FALSE]>>}

MCNameOf == [e \in {e1, e2} |-> <<lamp, known>>]
MCAvailable == {<<lamp, known>>, <<amp, known>>}

\* Clients and emitters are alike, and so are the events of one name.
Symmetric == Permutations(Client) \cup Permutations(Emitter) \cup Permutations({e1, e2})
=================================================================================
