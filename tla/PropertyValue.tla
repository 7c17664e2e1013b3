------------------------------ MODULE PropertyValue ------------------------------
(***************************************************************************)
(* One Value (value.hpp) and the properties that share it (property.hpp),  *)
(* changed by the event loop's PUT and "setProperty" handlers, by actions  *)
(* that call Thing::set_property in their own thread and by sensor threads *)
(* that call notify_of_external_update. Neither class locks, so a call is  *)
(* a sequence of steps, each one access to the shared value. An operator   *)
(* commented "Mutant" is a plausible bug in the operator that follows it;  *)
(* Next uses none of them.                                                 *)
(***************************************************************************)
EXTENDS Naturals, Sequences, Functions

CONSTANTS Val,        \* values of T
          Valid,      \* those that the properties' metadata allows
          Initial,    \* the initial_value
          Observers,  \* how many properties have added their observer
          ReadOnly,   \* those with "readOnly": true
          Thread,     \* application threads: actions, sensors
          Loop,       \* the event loop's thread
          MaxCalls    \* bound: calls of set() and notify_of_external_update()

ASSUME ValueAssumption == Initial \in Val /\ Valid \subseteq Val
ASSUME PropertyAssumption == /\ Observers \in Nat \ {0}
                             /\ ReadOnly \subseteq 1 .. Observers
ASSUME ThreadAssumption == Loop \notin Thread
ASSUME BoundAssumption == MaxCalls \in Nat

VARIABLES last_value,  \* Value::last_value
          device,      \* what value_forwarder has last passed on
          at,          \* where each thread is in its call
          value,       \* the argument of its call
          observer,    \* the observer that notify_observers has come to
          message,     \* the value in the propertyStatus message being built
          deferred,    \* notices waiting in the loop
          published,   \* the notices published of each property so far
          calls,       \* history: calls begun
          changes,     \* history: assignments to last_value
          overlapped,  \* history: has a call begun while another was running
          lastSet      \* history: was the last call a set()

callVars == <<at, value, observer, message>>
historyVars == <<calls, changes, overlapped, lastSet>>
vars == <<last_value, device, callVars, deferred, published, historyVars>>

Caller == Thread \cup {Loop}

\* The properties that share the value, in the order of their observers.
Property == 1 .. Observers

Init == /\ last_value = Initial
        /\ device = Initial
        /\ at = [t \in Caller |-> "idle"]
        /\ value = [t \in Caller |-> Initial]
        /\ observer = [t \in Caller |-> 1]
        /\ message = [t \in Caller |-> Initial]
        /\ deferred = <<>>
        /\ published = [p \in Property |-> <<>>]
        /\ calls = 0
        /\ changes = 0
        /\ overlapped = FALSE
        /\ lastSet = FALSE

Goto(t, from, to) == at[t] = from /\ at' = [at EXCEPT ![t] = to]

Call(t, v, first) ==
    /\ calls < MaxCalls
    /\ Goto(t, "idle", first)
    /\ value' = [value EXCEPT ![t] = v]
    /\ calls' = calls + 1
    /\ overlapped' = (overlapped \/ \E u \in Caller : at[u] # "idle")
    /\ lastSet' = (first = "forward")
    /\ UNCHANGED <<last_value, device, observer, message, deferred, published, changes>>

\* Mutant: the value is not checked against the metadata.
SetValueUnvalidated(t, p, v) == p \notin ReadOnly /\ Call(t, v, "forward")

\* Property::set_value after validate_value: a read-only property or a value
\* that the metadata does not allow throws a PropertyError and changes nothing.
SetValue(t, p, v) == p \notin ReadOnly /\ v \in Valid /\ Call(t, v, "forward")

\* notify_of_external_update(v) from a sensor: nothing is validated.
ExternalUpdate(t, v) == Call(t, v, "compare")

\* Mutant: the device gets the value from before the call.
ForwardOld(t) ==
    /\ Goto(t, "forward", "compare")
    /\ device' = last_value
    /\ UNCHANGED <<last_value, value, observer, message, deferred, published, historyVars>>

\* value_forwarder(value)
Forward(t) ==
    /\ Goto(t, "forward", "compare")
    /\ device' = value[t]
    /\ UNCHANGED <<last_value, value, observer, message, deferred, published, historyVars>>

\* The locals of a call that has returned.
Return(t) == /\ value' = [value EXCEPT ![t] = Initial]
             /\ observer' = [observer EXCEPT ![t] = 1]
             /\ message' = [message EXCEPT ![t] = Initial]

\* if (last_value != value) is false
CompareEqual(t) ==
    /\ Goto(t, "compare", "idle")
    /\ last_value = value[t]
    /\ Return(t)
    /\ UNCHANGED <<last_value, device, deferred, published, historyVars>>

\* if (last_value != value) is true
CompareDifferent(t) ==
    /\ Goto(t, "compare", "assign")
    /\ last_value # value[t]
    /\ UNCHANGED <<last_value, device, value, observer, message, deferred, published, historyVars>>

\* last_value = value
Assign(t) ==
    /\ Goto(t, "assign", "build")
    /\ last_value' = value[t]
    /\ changes' = changes + 1
    /\ UNCHANGED <<device, value, observer, message, deferred, published, calls, overlapped, lastSet>>

\* Mutant: the message carries the value of the previous notification.
BuildStaleMessage(t) ==
    /\ Goto(t, "build", "defer")
    /\ UNCHANGED <<last_value, device, value, observer, message, deferred, published, historyVars>>

\* The observer of a property: property_status_message(*this) reads the value
\* again, it does not use the one it is called with.
BuildMessage(t) ==
    /\ Goto(t, "build", "defer")
    /\ message' = [message EXCEPT ![t] = last_value]
    /\ UNCHANGED <<last_value, device, value, observer, deferred, published, historyVars>>

\* Mutant: only the observer that was added first is notified.
DeferFirstOnly(t) ==
    /\ Goto(t, "defer", "idle")
    /\ deferred' = Append(deferred, [property |-> observer[t], value |-> message[t]])
    /\ Return(t)
    /\ UNCHANGED <<last_value, device, published, historyVars>>

\* Thing::property_notify, down to webserver_loop->defer; then the next observer.
Defer(t) ==
    /\ deferred' = Append(deferred, [property |-> observer[t], value |-> message[t]])
    /\ IF observer[t] + 1 \in Property
       THEN /\ Goto(t, "defer", "build")
            /\ observer' = [observer EXCEPT ![t] = @ + 1]
            /\ UNCHANGED <<value, message>>
       ELSE Goto(t, "defer", "idle") /\ Return(t)
    /\ UNCHANGED <<last_value, device, published, historyVars>>

\* A deferred callback of the loop: web_server->publish.
Publish ==
    /\ at[Loop] = "idle"
    /\ deferred # <<>>
    /\ deferred' = Tail(deferred)
    /\ published' = [published EXCEPT ![Head(deferred).property] =
                                          Append(@, Head(deferred).value)]
    /\ UNCHANGED <<last_value, device, callVars, historyVars>>

CallStep(t) == \/ Forward(t)
               \/ CompareEqual(t)
               \/ CompareDifferent(t)
               \/ Assign(t)
               \/ BuildMessage(t)
               \/ Defer(t)

Next == \/ \E t \in Caller, p \in Property, v \in Val : SetValue(t, p, v)
        \/ \E t \in Thread, v \in Val : ExternalUpdate(t, v)
        \/ \E t \in Caller : CallStep(t)
        \/ Publish

Spec == Init /\ [][Next]_vars

---------------------------------------------------------------------------------
(* Properties *)

TypeOK == /\ last_value \in Val
          /\ device \in Valid \cup {Initial}
          /\ at \in [Caller -> {"idle", "forward", "compare", "assign", "build", "defer"}]
          /\ value \in [Caller -> Val]
          /\ observer \in [Caller -> Property]
          /\ message \in [Caller -> Val]
          /\ deferred \in Seq([property : Property, value : Val])
          /\ published \in [Property -> Seq(Val)]
          /\ calls \in 0 .. MaxCalls
          /\ changes \in 0 .. MaxCalls
          /\ overlapped \in BOOLEAN
          /\ lastSet \in BOOLEAN

\* No call is running and the loop has nothing left to publish.
Settled == deferred = <<>> /\ \A t \in Caller : at[t] = "idle"

\* Every property that shares the value is announced once for every assignment,
\* whichever thread assigned and in whatever order the calls overlapped.
EveryChangeIsAnnounced ==
    Settled => \A p \in Property : Len(published[p]) = changes

\* "The Value object now notifies the property and the thing that the value has
\* changed, which in turn notifies all websocket listeners" (readme.md:250): the
\* value that things settle on has been announced for every property, because
\* each observer reads the value after the assignment, not its argument.
SettledValueWasAnnounced ==
    Settled /\ changes > 0 => \A p \in Property : last_value \in Range(published[p])

\* While calls do not overlap, the last thing a listener hears is the value, and
\* the device has what was last set: nothing is left behind in the loop's queue.
SequentialCallsAgree ==
    ~overlapped /\ Settled =>
        /\ \A p \in Property :
              published[p] # <<>> => published[p][Len(published[p])] = last_value
        /\ lastSet => device = last_value

\* "Values only notify their observers when they have changed" (value_tests.cpp:39):
\* no call goes on to notify after assigning what the value already was.
NotifiesOnlyChanges ==
    [][\A t \in Caller : Assign(t) => last_value # last_value']_vars
=================================================================================
