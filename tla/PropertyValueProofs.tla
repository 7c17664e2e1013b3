--------------------------- MODULE PropertyValueProofs ---------------------------
(***************************************************************************)
(* Proofs about PropertyValue, for any values, any number of properties    *)
(* that share one, any number of threads and any number of calls.          *)
(***************************************************************************)
EXTENDS PropertyValue, FiniteSetTheorems, SequenceTheorems, TLAPS

\* What waits in the loop to be published.
Notice == [property : Property, value : Val]

---------------------------------------------------------------------------------
(* The inductive invariant *)

\* Where a call is before it assigns, and where it is when it has assigned.
Before == {"forward", "compare", "assign"}
After == {"build", "defer"}

\* The arguments and locals of a call.
CallInv ==
    \A t \in Caller :
        /\ at[t] = "forward" => value[t] \in Valid
        /\ at[t] \notin After => observer[t] = 1

\* The calls that may still assign, and those that owe the listeners of a property
\* a notice.
MayAssign == {t \in Caller : at[t] \in Before}
Owes(p) == {t \in Caller : at[t] \in After /\ observer[t] <= p}

\* The places of a queue that hold a notice of a property.
Places(queue, p) == {i \in 1 .. Len(queue) : queue[i].property = p}

\* No assignment without a call, and of each assignment one notice of a property:
\* it is published, or waits in the loop, or the call has yet to send it.
CountInv ==
    /\ IsFiniteSet(MayAssign) /\ changes + Cardinality(MayAssign) <= calls
    /\ \A p \in Property :
          /\ IsFiniteSet(Owes(p))
          /\ changes = Len(published[p]) + Cardinality(Places(deferred, p))
                                         + Cardinality(Owes(p))

\* A call that has yet to read the value for its message to a property, or has read
\* what the value still is.
WillTell(t, p) == \/ at[t] = "build" /\ observer[t] <= p
                  \/ at[t] = "defer" /\ observer[t] < p
                  \/ at[t] = "defer" /\ observer[t] = p /\ message[t] = last_value

\* Once the value was assigned, each property has told it, or will.
ToldInv ==
    changes > 0 => \A p \in Property :
        \/ \E t \in Caller : WillTell(t, p)
        \/ \E i \in Places(deferred, p) : deferred[i].value = last_value
        \/ last_value \in Range(published[p])

\* The latest notice of a property tells the value.
Latest(queue, heard, p, v) ==
    /\ \A i \in Places(queue, p) :
          (\A j \in Places(queue, p) : j <= i) => queue[i].value = v
    /\ Places(queue, p) = {} /\ heard # <<>> => heard[Len(heard)] = v

\* Calls that do not overlap run one at a time.
OneCall == ~overlapped => \A t, u \in Caller : at[t] # "idle" /\ at[u] # "idle" => t = u

\* Then what the call is about to send is right, and so is the latest notice of each
\* property unless the call is about to send another.
LatestInv ==
    ~overlapped =>
        /\ \A t \in Caller : at[t] = "defer" => message[t] = last_value
        /\ \A p \in Property : \/ \E t \in Caller : WillTell(t, p)
                               \/ Latest(deferred, published[p], p, last_value)

\* And the device is ahead of the value only while the call that sets it runs.
DeviceInv ==
    ~overlapped /\ lastSet =>
        /\ (\A t \in Caller : at[t] = "idle") => device = last_value
        /\ \A t \in Caller : /\ at[t] \in {"compare", "assign"} => device = value[t]
                             /\ at[t] \in After => device = last_value

\* The inductive invariant.
IInv == TypeOK /\ CallInv /\ CountInv /\ ToldInv /\ OneCall /\ LatestInv /\ DeviceInv
---------------------------------------------------------------------------------
(* The queue of the loop *)

\* The places of a queue are finitely many.
LEMMA PlacesFinite ==
    ASSUME NEW q \in Seq(Notice), NEW p
    PROVE  IsFiniteSet(Places(q, p)) /\ Cardinality(Places(q, p)) \in Nat
  <1>1. IsFiniteSet(1 .. Len(q))
    BY FS_Interval
  <1>2. Places(q, p) \in SUBSET (1 .. Len(q))
    BY DEF Places
  <1>3. IsFiniteSet(Places(q, p))
    BY <1>1, <1>2, FS_Subset
  <1> QED
    BY <1>3, FS_CardinalityType

\* A notice that is queued is one more of its property, and of no other.
LEMMA AppendPlaces ==
    ASSUME NEW q \in Seq(Notice), NEW r \in Seq(Notice), NEW p \in Property,
           Len(r) = Len(q) + 1, \A i \in 1 .. Len(q) : r[i] = q[i]
    PROVE  /\ Places(r, p) = IF r[Len(q) + 1].property = p
                             THEN Places(q, p) \cup {Len(q) + 1} ELSE Places(q, p)
           /\ Cardinality(Places(r, p)) = IF r[Len(q) + 1].property = p
                                          THEN Cardinality(Places(q, p)) + 1
                                          ELSE Cardinality(Places(q, p))
  <1>1. Len(q) + 1 \notin Places(q, p)
    BY DEF Places
  <1>2. CASE r[Len(q) + 1].property = p
    <2>1. Places(r, p) = Places(q, p) \cup {Len(q) + 1}
      BY <1>2 DEF Places
    <2>2. IsFiniteSet(Places(q, p))
      BY PlacesFinite
    <2>3. Cardinality(Places(q, p) \cup {Len(q) + 1}) = Cardinality(Places(q, p)) + 1
      BY <1>1, <2>2, FS_AddElement
    <2> QED
      BY <1>2, <2>1, <2>3
  <1>3. CASE r[Len(q) + 1].property # p
    <2>1. Places(r, p) = Places(q, p)
      BY <1>3 DEF Places
    <2> QED
      BY <1>3, <2>1
  <1> QED
    BY <1>2, <1>3

\* A notice that is taken from the front is one less of its property, and the others
\* move up.
LEMMA TailPlaces ==
    ASSUME NEW q \in Seq(Notice), q # <<>>, NEW p \in Property
    PROVE  /\ IsFiniteSet(Places(q, p)) /\ IsFiniteSet(Places(Tail(q), p))
           /\ Cardinality(Places(q, p)) =
                 IF Head(q).property = p THEN Cardinality(Places(Tail(q), p)) + 1
                                         ELSE Cardinality(Places(Tail(q), p))
           /\ \A i : i \in Places(Tail(q), p) <=> i \in Nat \ {0} /\ i + 1 \in Places(q, p)
           /\ \A i \in Places(Tail(q), p) : Tail(q)[i] = q[i + 1]
           /\ 1 \in Places(q, p) <=> Head(q).property = p
  <1> DEFINE t == Tail(q)
             S == Places(t, p)
             T == Places(q, p)
             f == [i \in S |-> i + 1]
  <1>1. /\ t \in Seq(Notice) /\ Len(t) = Len(q) - 1 /\ Len(q) \in Nat \ {0}
        /\ \A i \in 1 .. Len(q) - 1 : t[i] = q[i + 1]
        /\ Head(q) = q[1]
    BY HeadTailProperties
  <1>2. IsFiniteSet(S) /\ IsFiniteSet(T)
    <2>1. IsFiniteSet(1 .. Len(q)) /\ IsFiniteSet(1 .. Len(t))
      BY <1>1, FS_Interval
    <2>2. T \in SUBSET (1 .. Len(q)) /\ S \in SUBSET (1 .. Len(t))
      BY DEF Places
    <2> QED
      BY <2>1, <2>2, FS_Subset
  <1>3. \A i : i \in S <=> i \in Nat \ {0} /\ i + 1 \in T
    BY <1>1 DEF Places
  <1>4. \A i \in S : t[i] = q[i + 1]
    BY <1>1 DEF Places
  <1>5. 1 \in T <=> Head(q).property = p
    BY <1>1 DEF Places
  <1>6. T \subseteq Nat \ {0}
    BY DEF Places
  <1> HIDE DEF S, T, t
  <1>7. Cardinality(T \ {1}) = Cardinality(S)
    <2>1. f \in [S -> T \ {1}]
      BY <1>3
    <2>2. \A i, j \in S : f[i] = f[j] => i = j
      BY <1>3
    <2>3. \A k \in T \ {1} : \E i \in S : f[i] = k
      <3> SUFFICES ASSUME NEW k \in T \ {1}
                   PROVE  \E i \in S : f[i] = k
        OBVIOUS
      <3>1. k - 1 \in Nat \ {0} /\ (k - 1) + 1 = k
        BY <1>6
      <3>2. k - 1 \in S
        BY <1>3, <3>1
      <3> QED
        BY <3>1, <3>2
    <2> HIDE DEF f
    <2>4. ExistsBijection(S, T \ {1})
      BY <2>1, <2>2, <2>3
      DEF ExistsBijection, Bijection, Injection, Surjection, IsInjective
    <2> QED
      BY <1>2, <2>4, FS_Bijection
  <1>8. Cardinality(T) = IF 1 \in T THEN Cardinality(S) + 1 ELSE Cardinality(S)
    <2>1. Cardinality(T \ {1}) = IF 1 \in T THEN Cardinality(T) - 1 ELSE Cardinality(T)
      BY <1>2, FS_RemoveElement
    <2>2. Cardinality(T) \in Nat /\ Cardinality(S) \in Nat
      BY <1>2, FS_CardinalityType
    <2> QED
      BY <1>7, <2>1, <2>2
  <1>9. Cardinality(T) = IF Head(q).property = p THEN Cardinality(S) + 1 ELSE Cardinality(S)
    BY <1>5, <1>8
  <1> QED
    BY <1>2, <1>3, <1>4, <1>5, <1>9 DEF S, T, t

---------------------------------------------------------------------------------
(* Types *)

\* The steps that there are: a call begins, one goes on, the loop publishes.
LEMMA Steps ==
    ASSUME [Next]_vars
    PROVE  \/ \E t \in Caller, v \in Val, first \in {"forward", "compare"} :
                 Call(t, v, first) /\ (first = "forward" => v \in Valid)
           \/ \E t \in Caller : CallStep(t)
           \/ Publish
           \/ UNCHANGED vars
  BY DEF Next, SetValue, ExternalUpdate, Caller

\* A call that may assign counts for one.
LEMMA RoomToAssign ==
    ASSUME TypeOK, CountInv, NEW t \in Caller, at[t] = "assign"
    PROVE  changes < calls
  <1>1. t \in MayAssign
    BY DEF MayAssign, Before
  <1>2. Cardinality(MayAssign) \in Nat /\ Cardinality(MayAssign) # 0
    BY <1>1, FS_CardinalityType, FS_EmptySet DEF CountInv
  <1> QED
    BY <1>2 DEF CountInv, TypeOK

\* Every step keeps the types, among them that the device gets nothing but what the
\* metadata allows.
LEMMA TypeStep == TypeOK /\ CallInv /\ CountInv /\ [Next]_vars => TypeOK'
  <1> SUFFICES ASSUME TypeOK, CallInv, CountInv, [Next]_vars
               PROVE  TypeOK'
    OBVIOUS
  <1> USE ValueAssumption, PropertyAssumption, BoundAssumption
      DEF TypeOK, Goto, Return, callVars, historyVars
  <1>0. Initial \in Val /\ 1 \in Property
    BY DEF Property
  <1>1. ASSUME NEW t \in Caller, NEW v \in Val, NEW first \in {"forward", "compare"},
               Call(t, v, first)
        PROVE  TypeOK'
    BY <1>1 DEF Call
  <1>2. ASSUME NEW t \in Caller, Forward(t)
        PROVE  TypeOK'
    BY <1>2 DEF Forward, CallInv
  <1>3. ASSUME NEW t \in Caller, CompareEqual(t)
        PROVE  TypeOK'
    BY <1>0, <1>3 DEF CompareEqual
  <1>4. ASSUME NEW t \in Caller, CompareDifferent(t)
        PROVE  TypeOK'
    BY <1>4 DEF CompareDifferent
  <1>5. ASSUME NEW t \in Caller, Assign(t)
        PROVE  TypeOK'
    <2>1. changes < calls
      BY <1>5, RoomToAssign DEF Assign
    <2> QED
      BY <1>5, <2>1 DEF Assign
  <1>6. ASSUME NEW t \in Caller, BuildMessage(t)
        PROVE  TypeOK'
    BY <1>6 DEF BuildMessage
  <1>7. ASSUME NEW t \in Caller, Defer(t)
        PROVE  TypeOK'
    <2>1. deferred' \in Seq(Notice)
      BY <1>7 DEF Defer, Notice
    <2>2. /\ at' \in [Caller -> {"idle", "forward", "compare", "assign", "build", "defer"}]
          /\ value' \in [Caller -> Val]
          /\ observer' \in [Caller -> Property]
          /\ message' \in [Caller -> Val]
      <3>1. CASE observer[t] + 1 \in Property
        <4>1. /\ at' = [at EXCEPT ![t] = "build"] /\ value' = value /\ message' = message
              /\ observer' = [observer EXCEPT ![t] = observer[t] + 1]
          BY <1>7, <3>1 DEF Defer
        <4> QED
          BY <3>1, <4>1
      <3>2. CASE observer[t] + 1 \notin Property
        <4>1. /\ at' = [at EXCEPT ![t] = "idle"]
              /\ value' = [value EXCEPT ![t] = Initial]
              /\ observer' = [observer EXCEPT ![t] = 1]
              /\ message' = [message EXCEPT ![t] = Initial]
          BY <1>7, <3>2 DEF Defer
        <4> QED
          BY <1>0, <4>1
      <3> QED
        BY <3>1, <3>2
    <2> QED
      BY <1>7, <2>1, <2>2 DEF Defer, Notice
  <1>8. CASE Publish
    <2>1. /\ deferred \in Seq(Notice) /\ Head(deferred) \in Notice
          /\ deferred' \in Seq(Notice)
      BY <1>8, HeadTailProperties DEF Publish, Notice
    <2>2. published' \in [Property -> Seq(Val)]
      BY <1>8, <2>1 DEF Publish, Notice
    <2> QED
      BY <1>8, <2>1, <2>2 DEF Publish, Notice
  <1>9. CASE UNCHANGED vars
    BY <1>9 DEF vars
  <1> QED
    BY <1>1, <1>2, <1>3, <1>4, <1>5, <1>6, <1>7, <1>8, <1>9, Steps DEF CallStep

\* A call passes on what was validated, and starts with the first observer.
LEMMA CallKeeps == TypeOK /\ CallInv /\ [Next]_vars => CallInv'
  <1> SUFFICES ASSUME TypeOK, CallInv, [Next]_vars, NEW u \in Caller
               PROVE  /\ at'[u] = "forward" => value'[u] \in Valid
                      /\ at'[u] \notin After => observer'[u] = 1
    BY DEF CallInv
  <1> DEFINE kept == /\ at'[u] = "forward" => value'[u] \in Valid
                     /\ at'[u] \notin After => observer'[u] = 1
  <1>0. /\ at \in [Caller -> {"idle", "forward", "compare", "assign", "build", "defer"}]
        /\ value \in [Caller -> Val] /\ observer \in [Caller -> Property]
        /\ at[u] = "forward" => value[u] \in Valid
        /\ at[u] \notin After => observer[u] = 1
    BY DEF TypeOK, CallInv
  <1>1. ASSUME NEW t \in Caller, NEW v \in Val, NEW first \in {"forward", "compare"},
               Call(t, v, first), first = "forward" => v \in Valid
        PROVE  kept
    BY <1>0, <1>1 DEF Call, Goto, After
  <1>2. ASSUME NEW t \in Caller, Forward(t) \/ CompareDifferent(t) \/ Assign(t)
        PROVE  kept
    <2>1. /\ value' = value /\ observer' = observer
          /\ \E to \in {"compare", "assign", "build"} : at' = [at EXCEPT ![t] = to]
          /\ at[t] \notin After
      BY <1>2 DEF Forward, CompareDifferent, Assign, Goto, After
    <2> QED
      BY <1>0, <2>1
  <1>3. ASSUME NEW t \in Caller, CompareEqual(t)
        PROVE  kept
    BY <1>0, <1>3 DEF CompareEqual, Goto, Return, After
  <1>4. ASSUME NEW t \in Caller, BuildMessage(t)
        PROVE  kept
    BY <1>0, <1>4 DEF BuildMessage, Goto, After
  <1>5. ASSUME NEW t \in Caller, Defer(t)
        PROVE  kept
    <2>1. CASE observer[t] + 1 \in Property
      BY <1>0, <1>5, <2>1 DEF Defer, Goto, After
    <2>2. CASE observer[t] + 1 \notin Property
      BY <1>0, <1>5, <2>2 DEF Defer, Goto, Return, After
    <2> QED
      BY <2>1, <2>2
  <1>6. CASE Publish \/ UNCHANGED vars
    BY <1>0, <1>6 DEF Publish, vars, callVars
  <1> QED
    BY <1>1, <1>2, <1>3, <1>4, <1>5, <1>6, Steps DEF CallStep

\* The notice that a call sends is for the property of its observer, with the value
\* of its message, at the end of the queue.
LEMMA DeferQueue ==
    ASSUME TypeOK, NEW t \in Caller, Defer(t), NEW p \in Property
    PROVE  /\ at[t] = "defer" /\ UNCHANGED <<last_value, changes, published>>
           /\ Places(deferred', p) = IF observer[t] = p
                                     THEN Places(deferred, p) \cup {Len(deferred) + 1}
                                     ELSE Places(deferred, p)
           /\ Cardinality(Places(deferred', p)) = IF observer[t] = p
                                                  THEN Cardinality(Places(deferred, p)) + 1
                                                  ELSE Cardinality(Places(deferred, p))
           /\ \A i \in Places(deferred, p) : i <= Len(deferred) /\ deferred'[i] = deferred[i]
           /\ deferred'[Len(deferred) + 1].value = message[t]
  <1> DEFINE n == [property |-> observer[t], value |-> message[t]]
  <1>1. /\ at[t] = "defer" /\ deferred' = Append(deferred, n)
        /\ UNCHANGED <<last_value, changes, published>>
    BY DEF Defer, Goto, historyVars
  <1>2. n \in Notice /\ n.property = observer[t] /\ n.value = message[t]
        /\ deferred \in Seq(Notice)
    BY DEF TypeOK, Notice
  <1> HIDE DEF n
  <1>3. /\ deferred' \in Seq(Notice) /\ Len(deferred') = Len(deferred) + 1
        /\ \A i \in 1 .. Len(deferred) : deferred'[i] = deferred[i]
        /\ deferred'[Len(deferred) + 1] = n
    BY <1>1, <1>2, AppendProperties
  <1>4. \A i \in Places(deferred, p) : i <= Len(deferred) /\ deferred'[i] = deferred[i]
    BY <1>2, <1>3 DEF Places
  <1>5. CASE observer[t] = p
    <2>1. deferred'[Len(deferred) + 1].property = p
      BY <1>2, <1>3, <1>5
    <2> QED
      BY <1>1, <1>2, <1>3, <1>4, <1>5, <2>1, AppendPlaces
  <1>6. CASE observer[t] # p
    <2>1. deferred'[Len(deferred) + 1].property # p
      BY <1>2, <1>3, <1>6
    <2> QED
      BY <1>1, <1>2, <1>3, <1>4, <1>6, <2>1, AppendPlaces
  <1> QED
    BY <1>5, <1>6

---------------------------------------------------------------------------------
(* One notice of each property for each assignment *)

\* Every notice that is owed when a call assigns is sent and published once.
LEMMA CountStep == TypeOK /\ CallInv /\ CountInv /\ [Next]_vars => CountInv'
  <1> SUFFICES ASSUME TypeOK, CallInv, CountInv, [Next]_vars
               PROVE  CountInv'
    OBVIOUS
  <1> USE DEF Goto, callVars, historyVars
  <1>0. /\ at \in [Caller -> {"idle", "forward", "compare", "assign", "build", "defer"}]
        /\ observer \in [Caller -> Property]
        /\ published \in [Property -> Seq(Val)] /\ deferred \in Seq(Notice)
        /\ calls \in Nat /\ changes \in Nat
    BY BoundAssumption DEF TypeOK, Notice
  <1>a. /\ IsFiniteSet(MayAssign) /\ Cardinality(MayAssign) \in Nat
        /\ changes + Cardinality(MayAssign) <= calls
    BY FS_CardinalityType DEF CountInv
  <1>b. ASSUME NEW p \in Property
        PROVE  /\ IsFiniteSet(Owes(p)) /\ Cardinality(Owes(p)) \in Nat
               /\ changes = Len(published[p]) + Cardinality(Places(deferred, p))
                                              + Cardinality(Owes(p))
               /\ Cardinality(Places(deferred, p)) \in Nat /\ Len(published[p]) \in Nat
    <2>1. IsFiniteSet(Owes(p))
          /\ changes = Len(published[p]) + Cardinality(Places(deferred, p))
                                         + Cardinality(Owes(p))
      BY DEF CountInv
    <2>2. IsFiniteSet(Places(deferred, p))
      <3>1. IsFiniteSet(1 .. Len(deferred))
        BY <1>0, FS_Interval
      <3>2. Places(deferred, p) \in SUBSET (1 .. Len(deferred))
        BY DEF Places
      <3> QED
        BY <3>1, <3>2, FS_Subset
    <2>3. Len(published[p]) \in Nat
      BY <1>0
    <2> QED
      BY <2>1, <2>2, <2>3, FS_CardinalityType
  <1>c. CASE MayAssign' = MayAssign /\ (\A p \in Property : Owes(p)' = Owes(p))
             /\ UNCHANGED <<changes, calls, published, deferred>>
    <2>1. \A p \in Property : /\ IsFiniteSet(Owes(p)')
                              /\ changes' = Len(published'[p])
                                    + Cardinality(Places(deferred', p))
                                    + Cardinality(Owes(p)')
      BY <1>b, <1>c
    <2>2. IsFiniteSet(MayAssign') /\ changes' + Cardinality(MayAssign') <= calls'
      BY <1>a, <1>c
    <2> QED
      BY <2>1, <2>2 DEF CountInv, Places
  <1>1. ASSUME NEW t \in Caller, NEW v \in Val, NEW first \in {"forward", "compare"},
               Call(t, v, first)
        PROVE  CountInv'
    <2>1. at[t] = "idle" /\ at' = [at EXCEPT ![t] = first] /\ observer' = observer
      BY <1>1 DEF Call
    <2>2. MayAssign' = MayAssign \cup {t} /\ t \notin MayAssign
      BY <1>0, <2>1 DEF MayAssign, Before
    <2>3. ASSUME NEW p \in Property
          PROVE  Owes(p)' = Owes(p)
      BY <1>0, <2>1 DEF Owes, After
    <2>4. IsFiniteSet(MayAssign') /\ Cardinality(MayAssign') = Cardinality(MayAssign) + 1
      BY <1>a, <2>2, FS_AddElement
    <2>5. calls' = calls + 1 /\ UNCHANGED <<changes, published, deferred>>
      BY <1>1 DEF Call
    <2>6. IsFiniteSet(MayAssign') /\ changes' + Cardinality(MayAssign') <= calls'
      BY <1>0, <1>a, <2>4, <2>5
    <2>7. \A p \in Property : /\ IsFiniteSet(Owes(p)')
                              /\ changes' = Len(published'[p])
                                    + Cardinality(Places(deferred', p))
                                    + Cardinality(Owes(p)')
      BY <1>b, <2>3, <2>5
    <2> QED
      BY <2>6, <2>7 DEF CountInv, Places
  <1>2. ASSUME NEW t \in Caller, Forward(t) \/ CompareDifferent(t) \/ BuildMessage(t)
        PROVE  CountInv'
    <2>1. /\ \/ at[t] = "forward" /\ at' = [at EXCEPT ![t] = "compare"]
             \/ at[t] = "compare" /\ at' = [at EXCEPT ![t] = "assign"]
             \/ at[t] = "build" /\ at' = [at EXCEPT ![t] = "defer"]
          /\ observer' = observer /\ UNCHANGED <<changes, calls, published, deferred>>
      BY <1>2 DEF Forward, CompareDifferent, BuildMessage
    <2>2. MayAssign' = MayAssign
      BY <1>0, <2>1 DEF MayAssign, Before
    <2>3. ASSUME NEW p \in Property
          PROVE  Owes(p)' = Owes(p)
      BY <1>0, <2>1 DEF Owes, After
    <2> QED
      BY <1>c, <2>1, <2>2, <2>3
  <1>3. ASSUME NEW t \in Caller, CompareEqual(t)
        PROVE  CountInv'
    <2>1. /\ at[t] = "compare" /\ at' = [at EXCEPT ![t] = "idle"]
          /\ observer' = [observer EXCEPT ![t] = 1]
          /\ UNCHANGED <<changes, calls, published, deferred>>
      BY <1>3 DEF CompareEqual, Return
    <2>2. MayAssign' = MayAssign \ {t}
      BY <1>0, <2>1 DEF MayAssign, Before
    <2>3. ASSUME NEW p \in Property
          PROVE  Owes(p)' = Owes(p)
      BY <1>0, <2>1 DEF Owes, After
    <2>4. IsFiniteSet(MayAssign') /\ Cardinality(MayAssign') <= Cardinality(MayAssign)
          /\ Cardinality(MayAssign') \in Nat
      <3>1. MayAssign' \in SUBSET MayAssign
        BY <2>2
      <3> QED
        BY <1>a, <3>1, FS_Subset, FS_CardinalityType
    <2>5. IsFiniteSet(MayAssign') /\ changes' + Cardinality(MayAssign') <= calls'
      BY <1>0, <1>a, <2>1, <2>4
    <2>6. \A p \in Property : /\ IsFiniteSet(Owes(p)')
                              /\ changes' = Len(published'[p])
                                    + Cardinality(Places(deferred', p))
                                    + Cardinality(Owes(p)')
      BY <1>b, <2>1, <2>3
    <2> QED
      BY <2>5, <2>6 DEF CountInv, Places
  <1>4. ASSUME NEW t \in Caller, Assign(t)
        PROVE  CountInv'
    <2>1. /\ at[t] = "assign" /\ at' = [at EXCEPT ![t] = "build"]
          /\ observer' = observer /\ changes' = changes + 1
          /\ UNCHANGED <<calls, published, deferred>>
      BY <1>4 DEF Assign
    <2>2. MayAssign' = MayAssign \ {t} /\ t \in MayAssign
      BY <1>0, <2>1 DEF MayAssign, Before
    <2>3. IsFiniteSet(MayAssign') /\ Cardinality(MayAssign') = Cardinality(MayAssign) - 1
      BY <1>a, <2>2, FS_RemoveElement
    <2>4. IsFiniteSet(MayAssign') /\ changes' + Cardinality(MayAssign') <= calls'
      BY <1>0, <1>a, <2>1, <2>3
    <2>5. ASSUME NEW p \in Property
          PROVE  /\ IsFiniteSet(Owes(p)')
                 /\ changes' = Len(published'[p]) + Cardinality(Places(deferred', p))
                                                  + Cardinality(Owes(p)')
      <3>1. observer[t] = 1 /\ 1 <= p
        BY <2>1 DEF CallInv, After, Property
      <3>2. Owes(p)' = Owes(p) \cup {t} /\ t \notin Owes(p)
        BY <1>0, <2>1, <3>1 DEF Owes, After
      <3>3. IsFiniteSet(Owes(p)') /\ Cardinality(Owes(p)') = Cardinality(Owes(p)) + 1
        BY <1>b, <3>2, FS_AddElement
      <3> QED
        BY <1>0, <1>b, <2>1, <3>3
    <2> QED
      BY <2>4, <2>5 DEF CountInv, Places
  <1>5. ASSUME NEW t \in Caller, Defer(t)
        PROVE  CountInv'
    <2> DEFINE o == observer[t]
    <2>1. /\ at[t] = "defer" /\ o \in Property
          /\ UNCHANGED <<changes, calls, published>>
      BY <1>0, <1>5 DEF Defer
    <2>2. /\ o + 1 \in Property => /\ at' = [at EXCEPT ![t] = "build"]
                                   /\ observer' = [observer EXCEPT ![t] = o + 1]
          /\ o + 1 \notin Property => /\ at' = [at EXCEPT ![t] = "idle"]
                                      /\ observer' = [observer EXCEPT ![t] = 1]
      BY <1>5 DEF Defer, Return
    <2>4. MayAssign' = MayAssign
      BY <1>0, <2>1, <2>2 DEF MayAssign, Before
    <2>5. IsFiniteSet(MayAssign') /\ changes' + Cardinality(MayAssign') <= calls'
      BY <1>a, <2>1, <2>4
    <2>6. ASSUME NEW p \in Property
          PROVE  /\ IsFiniteSet(Owes(p)')
                 /\ changes' = Len(published'[p]) + Cardinality(Places(deferred', p))
                                                  + Cardinality(Owes(p)')
      <3>2. Cardinality(Places(deferred', p)) =
               IF o = p THEN Cardinality(Places(deferred, p)) + 1
                        ELSE Cardinality(Places(deferred, p))
        BY <1>5, DeferQueue
      <3>3. o \in Nat /\ p \in Nat /\ Observers \in Nat
            /\ (o + 1 \notin Property => p <= o)
        BY <2>1, PropertyAssumption DEF Property
      <3>4. Owes(p)' = IF o = p THEN Owes(p) \ {t} ELSE Owes(p)
        <4>1. ASSUME NEW u \in Caller, u # t
              PROVE  u \in Owes(p)' <=> u \in Owes(p)
          <5>1. at'[u] = at[u] /\ observer'[u] = observer[u]
            BY <1>0, <2>2, <4>1
          <5> QED
            BY <5>1 DEF Owes
        <4>2. t \in Owes(p) <=> o <= p
          BY <2>1 DEF Owes, After
        <4>3. t \in Owes(p)' <=> o + 1 <= p
          <5>1. CASE o + 1 \in Property
            BY <1>0, <2>2, <5>1 DEF Owes, After
          <5>2. CASE o + 1 \notin Property
            BY <1>0, <2>2, <3>3, <5>2 DEF Owes, After
          <5> QED
            BY <5>1, <5>2
        <4>4. Owes(p) \subseteq Caller /\ Owes(p)' \subseteq Caller
          BY DEF Owes
        <4>5. CASE o = p
          BY <3>3, <4>1, <4>3, <4>4, <4>5
        <4>6. CASE o # p
          <5>1. t \in Owes(p)' <=> t \in Owes(p)
            BY <3>3, <4>2, <4>3, <4>6
          <5> QED
            BY <4>1, <4>4, <4>6, <5>1
        <4> QED
          BY <4>5, <4>6
      <3>5. o = p => t \in Owes(p)
        BY <2>1, <3>3 DEF Owes, After
      <3>6. IsFiniteSet(Owes(p)')
            /\ Cardinality(Owes(p)') = IF o = p THEN Cardinality(Owes(p)) - 1
                                                ELSE Cardinality(Owes(p))
        <4>1. CASE o = p
          BY <1>b, <3>4, <3>5, <4>1, FS_RemoveElement
        <4>2. CASE o # p
          BY <1>b, <3>4, <4>2
        <4> QED
          BY <4>1, <4>2
      <3> QED
        BY <1>0, <1>b, <2>1, <3>2, <3>6
    <2> QED
      BY <2>5, <2>6 DEF CountInv, Places
  <1>6. CASE Publish
    <2> DEFINE n == Head(deferred)
    <2>1. /\ deferred # <<>> /\ n \in Notice /\ deferred' = Tail(deferred)
          /\ published' = [published EXCEPT ![n.property] = Append(@, n.value)]
          /\ UNCHANGED <<changes, calls, at, observer>>
      BY <1>0, <1>6, HeadTailProperties DEF Publish
    <2>2. MayAssign' = MayAssign
      BY <2>1 DEF MayAssign
    <2>3. IsFiniteSet(MayAssign') /\ changes' + Cardinality(MayAssign') <= calls'
      BY <1>a, <2>1, <2>2
    <2>4. ASSUME NEW p \in Property
          PROVE  /\ IsFiniteSet(Owes(p)')
                 /\ changes' = Len(published'[p]) + Cardinality(Places(deferred', p))
                                                  + Cardinality(Owes(p)')
      <3>1. Owes(p)' = Owes(p)
        BY <2>1 DEF Owes
      <3>2. /\ IsFiniteSet(Places(deferred', p))
            /\ Cardinality(Places(deferred, p)) =
                  IF n.property = p THEN Cardinality(Places(deferred', p)) + 1
                                    ELSE Cardinality(Places(deferred', p))
        BY <1>0, <2>1, TailPlaces
      <3>3. Cardinality(Places(deferred', p)) \in Nat
        BY <3>2, FS_CardinalityType
      <3>4. Len(published'[p]) = IF n.property = p THEN Len(published[p]) + 1
                                                   ELSE Len(published[p])
        <4>1. n.property \in Property /\ n.value \in Val
          BY <2>1 DEF Notice
        <4>2. CASE n.property = p
          <5>1. published'[p] = Append(published[p], n.value)
            BY <1>0, <2>1, <4>1, <4>2
          <5> QED
            BY <1>0, <4>1, <4>2, <5>1, AppendProperties
        <4>3. CASE n.property # p
          <5>1. published'[p] = published[p]
            BY <1>0, <2>1, <4>1, <4>3
          <5> QED
            BY <4>3, <5>1
        <4> QED
          BY <4>2, <4>3
      <3>5. changes' = changes /\ IsFiniteSet(Owes(p)')
            /\ Cardinality(Owes(p)') = Cardinality(Owes(p))
        BY <1>b, <2>1, <3>1
      <3> DEFINE told == n.property = p
      <3>6. CASE told
        BY <1>b, <3>2, <3>3, <3>4, <3>5, <3>6
      <3>7. CASE ~told
        BY <1>b, <3>2, <3>3, <3>4, <3>5, <3>7
      <3> QED
        BY <3>6, <3>7
    <2> QED
      BY <2>3, <2>4 DEF CountInv, Places
  <1>7. CASE UNCHANGED vars
    <2>1. MayAssign' = MayAssign /\ UNCHANGED <<changes, calls, published, deferred>>
      BY <1>7 DEF MayAssign, vars
    <2>2. ASSUME NEW p \in Property
          PROVE  Owes(p)' = Owes(p)
      BY <1>7 DEF Owes, vars
    <2> QED
      BY <1>c, <2>1, <2>2
  <1> QED
    BY <1>1, <1>2, <1>3, <1>4, <1>5, <1>6, <1>7, Steps DEF CallStep

---------------------------------------------------------------------------------
(* The value that things settle on *)

\* Steps of a call that are not about notices keep what the calls will tell.
LEMMA TellersKept ==
    ASSUME NEW p,
           \A u \in Caller : at[u] \in After =>
               at'[u] = at[u] /\ observer'[u] = observer[u] /\ message'[u] = message[u],
           last_value' = last_value,
           NEW u \in Caller, WillTell(u, p)
    PROVE  WillTell(u, p)'
  <1>1. at[u] \in After
    BY DEF WillTell, After
  <1>2. at'[u] = at[u] /\ observer'[u] = observer[u] /\ message'[u] = message[u]
    BY <1>1
  <1> QED
    BY <1>2 DEF WillTell

\* The step before the assignment, and the beginning of a call, are such steps.
LEMMA QuietSteps ==
    ASSUME TypeOK, NEW t \in Caller,
           \/ \E v \in Val, first \in {"forward", "compare"} : Call(t, v, first)
           \/ Forward(t) \/ CompareEqual(t) \/ CompareDifferent(t)
    PROVE  /\ \A u \in Caller : at[u] \in After =>
                 at'[u] = at[u] /\ observer'[u] = observer[u] /\ message'[u] = message[u]
           /\ at[t] \notin After /\ at'[t] \notin After
           /\ \A u \in Caller : u # t => at'[u] = at[u] /\ value'[u] = value[u]
           /\ UNCHANGED <<last_value, changes, deferred, published>>
  <1>0. /\ at \in [Caller -> {"idle", "forward", "compare", "assign", "build", "defer"}]
        /\ observer \in [Caller -> Property] /\ message \in [Caller -> Val]
        /\ value \in [Caller -> Val]
    BY DEF TypeOK
  <1>1. /\ \E to \in {"idle", "forward", "compare", "assign"} : at' = [at EXCEPT ![t] = to]
        /\ at[t] \notin After
    BY DEF Call, Forward, CompareEqual, CompareDifferent, Goto, After
  <1>2. UNCHANGED <<last_value, changes, deferred, published>>
    BY DEF Call, Forward, CompareEqual, CompareDifferent, historyVars
  <1>3. \/ observer' = observer /\ message' = message
        \/ /\ observer' = [observer EXCEPT ![t] = 1]
           /\ message' = [message EXCEPT ![t] = Initial]
    BY DEF Call, Forward, CompareEqual, CompareDifferent, Return
  <1>4. \E v : value' = [value EXCEPT ![t] = v] \/ value' = value
    BY DEF Call, Forward, CompareEqual, CompareDifferent, Return
  <1>5. at'[t] \notin After
    BY <1>0, <1>1 DEF After
  <1>6. ASSUME NEW u \in Caller, u # t
        PROVE  /\ at'[u] = at[u] /\ observer'[u] = observer[u]
               /\ message'[u] = message[u] /\ value'[u] = value[u]
    <2>1. at'[u] = at[u]
      BY <1>0, <1>1, <1>6
    <2>2. observer'[u] = observer[u] /\ message'[u] = message[u]
      BY <1>0, <1>3, <1>6
    <2>3. value'[u] = value[u]
      BY <1>0, <1>4, <1>6
    <2> QED
      BY <2>1, <2>2, <2>3
  <1>7. \A u \in Caller : at[u] \in After => u # t
    BY <1>1
  <1> QED
    BY <1>1, <1>2, <1>5, <1>6, <1>7

\* A call that sends a notice: what it says, and what the call does next.
LEMMA DeferStep ==
    ASSUME TypeOK, NEW t \in Caller, Defer(t), NEW p \in Property
    PROVE  /\ at[t] = "defer" /\ UNCHANGED <<last_value, changes, published>>
           /\ \A u \in Caller : u # t => /\ at'[u] = at[u] /\ observer'[u] = observer[u]
                                         /\ message'[u] = message[u] /\ value'[u] = value[u]
           /\ Places(deferred', p) = IF observer[t] = p
                                     THEN Places(deferred, p) \cup {Len(deferred) + 1}
                                     ELSE Places(deferred, p)
           /\ \A i \in Places(deferred, p) : i <= Len(deferred) /\ deferred'[i] = deferred[i]
           /\ deferred'[Len(deferred) + 1].value = message[t]
           /\ IF observer[t] < p THEN at'[t] = "build" /\ observer'[t] <= p
                                 ELSE ~WillTell(t, p)'
           /\ at'[t] \in {"build", "idle"}
  <1>0. /\ at \in [Caller -> {"idle", "forward", "compare", "assign", "build", "defer"}]
        /\ observer \in [Caller -> Property] /\ message \in [Caller -> Val]
        /\ value \in [Caller -> Val] /\ deferred \in Seq(Notice)
    BY DEF TypeOK, Notice
  <1> DEFINE o == observer[t]
  <1>1. /\ at[t] = "defer" /\ UNCHANGED <<last_value, changes, published>>
        /\ Places(deferred', p) = IF o = p THEN Places(deferred, p) \cup {Len(deferred) + 1}
                                           ELSE Places(deferred, p)
        /\ \A i \in Places(deferred, p) : i <= Len(deferred) /\ deferred'[i] = deferred[i]
        /\ deferred'[Len(deferred) + 1].value = message[t]
    BY DeferQueue
  <1>5. o \in Nat /\ p \in Nat /\ (o < p => o + 1 \in Property) /\ (o + 1 \notin Property => p <= o)
    BY <1>0, PropertyAssumption DEF Property
  <1>6. CASE o + 1 \in Property
    <2>1. /\ at' = [at EXCEPT ![t] = "build"] /\ value' = value /\ message' = message
          /\ observer' = [observer EXCEPT ![t] = o + 1]
      BY <1>6 DEF Defer, Goto
    <2>2. at'[t] = "build" /\ observer'[t] = o + 1
      BY <1>0, <2>1
    <2>3. \A u \in Caller : u # t => /\ at'[u] = at[u] /\ observer'[u] = observer[u]
                                     /\ message'[u] = message[u] /\ value'[u] = value[u]
      BY <1>0, <2>1
    <2>4. IF o < p THEN at'[t] = "build" /\ observer'[t] <= p ELSE ~WillTell(t, p)'
      BY <1>5, <2>2 DEF WillTell
    <2> QED
      BY <1>1, <2>2, <2>3, <2>4
  <1>7. CASE o + 1 \notin Property
    <2>1. /\ at' = [at EXCEPT ![t] = "idle"]
          /\ value' = [value EXCEPT ![t] = Initial]
          /\ observer' = [observer EXCEPT ![t] = 1]
          /\ message' = [message EXCEPT ![t] = Initial]
      BY <1>7 DEF Defer, Goto, Return
    <2>2. at'[t] = "idle"
      BY <1>0, <2>1
    <2>3. \A u \in Caller : u # t => /\ at'[u] = at[u] /\ observer'[u] = observer[u]
                                     /\ message'[u] = message[u] /\ value'[u] = value[u]
      BY <1>0, <2>1
    <2>4. ~(o < p) /\ ~WillTell(t, p)'
      BY <1>5, <1>7, <2>2 DEF WillTell
    <2> QED
      BY <1>1, <2>2, <2>3, <2>4
  <1> QED
    BY <1>6, <1>7

\* A call that reads the value for its message will tell it to the property of its
\* observer, as it would have told the later ones.
LEMMA BuildStep ==
    ASSUME TypeOK, NEW t \in Caller, BuildMessage(t), NEW p \in Property
    PROVE  /\ UNCHANGED <<last_value, device, changes, deferred, published, overlapped, lastSet>>
           /\ at[t] = "build" /\ at'[t] = "defer" /\ message'[t] = last_value
           /\ \A u \in Caller : u # t => at'[u] = at[u] /\ message'[u] = message[u]
           /\ \A u \in Caller : WillTell(u, p) => WillTell(u, p)'
  <1>0. /\ at \in [Caller -> {"idle", "forward", "compare", "assign", "build", "defer"}]
        /\ observer \in [Caller -> Property] /\ message \in [Caller -> Val]
    BY DEF TypeOK
  <1>1. /\ at[t] = "build" /\ at' = [at EXCEPT ![t] = "defer"]
        /\ observer' = observer /\ message' = [message EXCEPT ![t] = last_value]
        /\ UNCHANGED <<last_value, device, changes, deferred, published, overlapped, lastSet>>
    BY DEF BuildMessage, Goto, historyVars
  <1>2. /\ at'[t] = "defer" /\ observer'[t] = observer[t] /\ message'[t] = last_value
        /\ \A u \in Caller : u # t => at'[u] = at[u] /\ message'[u] = message[u]
    BY <1>0, <1>1
  <1>3. ASSUME NEW u \in Caller, WillTell(u, p)
        PROVE  WillTell(u, p)'
    <2>1. CASE u = t
      <3>1. observer[t] <= p /\ observer[t] \in Nat /\ p \in Nat
        BY <1>0, <1>1, <1>3, <2>1 DEF WillTell, Property
      <3> QED
        BY <1>1, <1>2, <2>1, <3>1 DEF WillTell
    <2>2. CASE u # t
      BY <1>1, <1>2, <1>3, <2>2 DEF WillTell
    <2> QED
      BY <2>1, <2>2
  <1> QED
    BY <1>1, <1>2, <1>3

\* A notice that the loop publishes becomes the latest heard of its property.
LEMMA PublishStep ==
    ASSUME TypeOK, Publish, NEW p \in Property
    PROVE  /\ deferred # <<>> /\ deferred \in Seq(Notice) /\ deferred' = Tail(deferred)
           /\ UNCHANGED <<last_value, changes, at, observer, message, value>>
           /\ Head(deferred) = deferred[1]
           /\ Head(deferred).property = p =>
                 /\ published'[p] # <<>>
                 /\ published'[p][Len(published'[p])] = Head(deferred).value
                 /\ Head(deferred).value \in Range(published'[p])
           /\ Head(deferred).property # p => published'[p] = published[p]
           /\ Range(published[p]) \subseteq Range(published'[p])
  <1> DEFINE n == Head(deferred)
  <1>1. /\ deferred # <<>> /\ deferred \in Seq(Notice) /\ deferred' = Tail(deferred)
        /\ UNCHANGED <<last_value, changes, at, observer, message, value>>
        /\ n \in Notice /\ n = deferred[1]
        /\ published' = [published EXCEPT ![n.property] = Append(@, n.value)]
    <2>1. /\ deferred # <<>> /\ deferred' = Tail(deferred)
          /\ UNCHANGED <<last_value, changes, at, observer, message, value>>
          /\ published' = [published EXCEPT ![n.property] = Append(@, n.value)]
      BY DEF Publish, callVars, historyVars
    <2>2. deferred \in Seq(Notice)
      BY DEF TypeOK, Notice
    <2>3. n \in Notice /\ n = deferred[1]
      BY <2>1, <2>2, HeadTailProperties
    <2> QED
      BY <2>1, <2>2, <2>3
  <1>2. n.property \in Property /\ n.value \in Val /\ published[p] \in Seq(Val)
        /\ published \in [Property -> Seq(Val)]
    BY <1>1 DEF TypeOK, Notice
  <1> HIDE DEF n
  <1>3. CASE n.property = p
    <2>1. published'[p] = Append(published[p], n.value)
      BY <1>1, <1>2, <1>3
    <2>2. /\ Len(published'[p]) = Len(published[p]) + 1 /\ Len(published[p]) \in Nat
          /\ published'[p] \in Seq(Val)
          /\ published'[p][Len(published[p]) + 1] = n.value
          /\ \A k \in 1 .. Len(published[p]) : published'[p][k] = published[p][k]
      BY <1>2, <2>1, AppendProperties
    <2>3. /\ DOMAIN published[p] = 1 .. Len(published[p])
          /\ DOMAIN published'[p] = 1 .. Len(published[p]) + 1
      BY <1>2, <2>2
    <2>4. Range(published[p]) \subseteq Range(published'[p])
          /\ n.value \in Range(published'[p])
      BY <2>2, <2>3 DEF Range
    <2>5. published'[p] # <<>> /\ published'[p][Len(published'[p])] = n.value
      BY <2>2
    <2> QED
      BY <1>1, <1>3, <2>4, <2>5 DEF n
  <1>4. CASE n.property # p
    <2>1. published'[p] = published[p]
      BY <1>1, <1>2, <1>4
    <2> QED
      BY <1>1, <1>4, <2>1 DEF n
  <1> QED
    BY <1>3, <1>4

\* An assignment is told to every property after it was made, because the observers
\* read the value again.
LEMMA ToldStep == TypeOK /\ CallInv /\ ToldInv /\ [Next]_vars => ToldInv'
  <1> SUFFICES ASSUME TypeOK, CallInv, ToldInv, [Next]_vars, changes' > 0, NEW p \in Property
               PROVE  \/ \E t \in Caller : WillTell(t, p)'
                      \/ \E i \in Places(deferred', p) : deferred'[i].value = last_value'
                      \/ last_value' \in Range(published'[p])
    BY DEF ToldInv, Places
  <1> DEFINE told == \/ \E t \in Caller : WillTell(t, p)'
                     \/ \E i \in Places(deferred', p) : deferred'[i].value = last_value'
                     \/ last_value' \in Range(published'[p])
  <1>0. changes > 0 => \/ \E t \in Caller : WillTell(t, p)
                       \/ \E i \in Places(deferred, p) : deferred[i].value = last_value
                       \/ last_value \in Range(published[p])
    BY DEF ToldInv
  <1>00. /\ at \in [Caller -> {"idle", "forward", "compare", "assign", "build", "defer"}]
         /\ observer \in [Caller -> Property] /\ message \in [Caller -> Val]
    BY DEF TypeOK
  <1>1. ASSUME UNCHANGED <<last_value, changes, deferred, published>>,
               \A u \in Caller : WillTell(u, p) => WillTell(u, p)'
        PROVE  told
    BY <1>0, <1>1
  <1>2. ASSUME NEW t \in Caller,
               \/ \E v \in Val, first \in {"forward", "compare"} : Call(t, v, first)
               \/ Forward(t) \/ CompareEqual(t) \/ CompareDifferent(t)
        PROVE  told
    <2>1. /\ \A u \in Caller : at[u] \in After =>
                at'[u] = at[u] /\ observer'[u] = observer[u] /\ message'[u] = message[u]
          /\ UNCHANGED <<last_value, changes, deferred, published>>
      BY <1>2, QuietSteps
    <2>2. \A u \in Caller : WillTell(u, p) => WillTell(u, p)'
      BY <2>1, TellersKept
    <2> QED
      BY <1>1, <2>1, <2>2
  <1>3. ASSUME NEW t \in Caller, Assign(t)
        PROVE  told
    <2>1. at'[t] = "build" /\ observer'[t] = 1 /\ 1 <= p
      BY <1>00, <1>3 DEF Assign, Goto, CallInv, After, Property
    <2> QED
      BY <2>1 DEF WillTell
  <1>4. ASSUME NEW t \in Caller, BuildMessage(t)
        PROVE  told
    BY <1>1, <1>4, BuildStep
  <1>5. ASSUME NEW t \in Caller, Defer(t)
        PROVE  told
    <2>1. /\ at[t] = "defer" /\ UNCHANGED <<last_value, changes, published>>
          /\ \A u \in Caller : u # t => /\ at'[u] = at[u] /\ observer'[u] = observer[u]
                                        /\ message'[u] = message[u]
          /\ Places(deferred', p) = IF observer[t] = p
                                    THEN Places(deferred, p) \cup {Len(deferred) + 1}
                                    ELSE Places(deferred, p)
          /\ \A i \in Places(deferred, p) : deferred'[i] = deferred[i]
          /\ deferred'[Len(deferred) + 1].value = message[t]
          /\ observer[t] < p => at'[t] = "build" /\ observer'[t] <= p
      BY <1>5, DeferStep
    <2>2. CASE \E i \in Places(deferred, p) : deferred[i].value = last_value
      BY <2>1, <2>2
    <2>3. CASE last_value \in Range(published[p])
      BY <2>1, <2>3
    <2>4. ASSUME NEW u \in Caller, WillTell(u, p)
          PROVE  told
      <3>1. CASE u # t
        <4>1. WillTell(u, p)'
          BY <2>1, <2>4, <3>1 DEF WillTell
        <4> QED
          BY <4>1
      <3>2. CASE u = t /\ observer[t] < p
        <4>1. WillTell(t, p)'
          BY <2>1, <3>2 DEF WillTell
        <4> QED
          BY <4>1
      <3>3. CASE u = t /\ ~(observer[t] < p)
        <4>1. observer[t] = p /\ message[t] = last_value
          BY <2>1, <2>4, <3>3 DEF WillTell
        <4>2. Len(deferred) + 1 \in Places(deferred', p)
          BY <2>1, <4>1
        <4> QED
          BY <2>1, <4>1, <4>2
      <3> QED
        BY <3>1, <3>2, <3>3
    <2> QED
      BY <1>0, <2>1, <2>2, <2>3, <2>4
  <1>6. CASE Publish
    <2>1. /\ deferred # <<>> /\ deferred \in Seq(Notice) /\ deferred' = Tail(deferred)
          /\ UNCHANGED <<last_value, changes, at, observer, message>>
          /\ Head(deferred) = deferred[1]
          /\ Head(deferred).property = p => Head(deferred).value \in Range(published'[p])
          /\ Range(published[p]) \subseteq Range(published'[p])
      BY <1>6, PublishStep
    <2>2. /\ \A i : i \in Places(Tail(deferred), p)
                    <=> i \in Nat \ {0} /\ i + 1 \in Places(deferred, p)
          /\ \A i \in Places(Tail(deferred), p) : Tail(deferred)[i] = deferred[i + 1]
          /\ 1 \in Places(deferred, p) <=> Head(deferred).property = p
      BY <2>1, TailPlaces
    <2>3. ASSUME NEW i \in Places(deferred, p), deferred[i].value = last_value
          PROVE  told
      <3>1. CASE i = 1
        BY <2>1, <2>2, <2>3, <3>1
      <3>2. CASE i # 1
        <4>1. i - 1 \in Nat \ {0} /\ (i - 1) + 1 = i
          BY <3>2 DEF Places
        <4>2. i - 1 \in Places(deferred', p) /\ deferred'[i - 1] = deferred[i]
          BY <2>1, <2>2, <4>1
        <4> QED
          BY <2>1, <2>3, <4>2
      <3> QED
        BY <3>1, <3>2
    <2>4. CASE \E t \in Caller : WillTell(t, p)
      BY <2>1, <2>4 DEF WillTell
    <2>5. CASE last_value \in Range(published[p])
      BY <2>1, <2>5
    <2> QED
      BY <1>0, <2>1, <2>3, <2>4, <2>5
  <1>7. CASE UNCHANGED vars
    <2>1. \A u \in Caller : WillTell(u, p) => WillTell(u, p)'
      BY <1>7 DEF WillTell, vars, callVars
    <2> QED
      BY <1>1, <1>7, <2>1 DEF vars, historyVars
  <1> QED
    BY <1>2, <1>3, <1>4, <1>5, <1>6, <1>7, Steps DEF CallStep

---------------------------------------------------------------------------------
(* Calls that do not overlap *)

\* What a step that goes on with a call, or publishes, leaves to the others.
LEMMA OthersWait ==
    ASSUME TypeOK, NEW t \in Caller, CallStep(t)
    PROVE  /\ at[t] # "idle" /\ \A u \in Caller : u # t => at'[u] = at[u]
           /\ overlapped' = overlapped /\ lastSet' = lastSet
  <1>0. at \in [Caller -> {"idle", "forward", "compare", "assign", "build", "defer"}]
    BY DEF TypeOK
  <1>1. overlapped' = overlapped /\ lastSet' = lastSet
    BY DEF CallStep, Forward, CompareEqual, CompareDifferent, Assign, BuildMessage, Defer,
           historyVars
  <1>2. at[t] # "idle" /\ \E to : at' = [at EXCEPT ![t] = to]
    BY DEF CallStep, Forward, CompareEqual, CompareDifferent, Assign, BuildMessage, Defer,
           Goto
  <1> QED
    BY <1>0, <1>1, <1>2

\* A second call that begins while one runs is remembered as overlapping.
LEMMA OneCallStep == TypeOK /\ OneCall /\ [Next]_vars => OneCall'
  <1> SUFFICES ASSUME TypeOK, OneCall, [Next]_vars, ~overlapped',
                      NEW u \in Caller, NEW w \in Caller, at'[u] # "idle", at'[w] # "idle"
               PROVE  u = w
    BY DEF OneCall
  <1>1. ASSUME NEW t \in Caller, NEW v \in Val, NEW first \in {"forward", "compare"},
               Call(t, v, first)
        PROVE  u = w
    <2>1. \A x \in Caller : at[x] = "idle"
      BY <1>1 DEF Call
    <2>2. at' = [at EXCEPT ![t] = first]
      BY <1>1 DEF Call, Goto
    <2> QED
      BY <2>1, <2>2 DEF TypeOK
  <1>2. ASSUME NEW t \in Caller, CallStep(t)
        PROVE  u = w
    <2>1. at[t] # "idle" /\ (\A x \in Caller : x # t => at'[x] = at[x]) /\ ~overlapped
      BY <1>2, OthersWait
    <2>2. at[u] # "idle" /\ at[w] # "idle"
      BY <2>1
    <2> QED
      BY <2>1, <2>2 DEF OneCall
  <1>3. CASE Publish \/ UNCHANGED vars
    BY <1>3 DEF Publish, vars, callVars, historyVars, OneCall
  <1> QED
    BY <1>1, <1>2, <1>3, Steps

\* A call sets the device, then the value; alone, it leaves both the same.
LEMMA DeviceStep == TypeOK /\ OneCall /\ DeviceInv /\ [Next]_vars => DeviceInv'
  <1> SUFFICES ASSUME TypeOK, OneCall, DeviceInv, [Next]_vars, ~overlapped', lastSet'
               PROVE  /\ (\A u \in Caller : at'[u] = "idle") => device' = last_value'
                      /\ \A u \in Caller :
                            /\ at'[u] \in {"compare", "assign"} => device' = value'[u]
                            /\ at'[u] \in After => device' = last_value'
    BY DEF DeviceInv
  <1> DEFINE kept == /\ (\A u \in Caller : at'[u] = "idle") => device' = last_value'
                     /\ \A u \in Caller :
                           /\ at'[u] \in {"compare", "assign"} => device' = value'[u]
                           /\ at'[u] \in After => device' = last_value'
  <1>0. /\ at \in [Caller -> {"idle", "forward", "compare", "assign", "build", "defer"}]
        /\ value \in [Caller -> Val]
    BY DEF TypeOK
  <1>1. ASSUME NEW t \in Caller, NEW v \in Val, NEW first \in {"forward", "compare"},
               Call(t, v, first)
        PROVE  kept
    <2>1. /\ \A x \in Caller : at[x] = "idle"
          /\ at' = [at EXCEPT ![t] = first] /\ first = "forward"
      BY <1>1 DEF Call, Goto
    <2>2. \A u \in Caller : at'[u] = IF u = t THEN "forward" ELSE "idle"
      BY <1>0, <2>1
    <2> QED
      BY <2>2 DEF After
  <1>2. ASSUME NEW t \in Caller, CallStep(t)
        PROVE  kept
    <2>1. /\ at[t] # "idle" /\ \A u \in Caller : u # t => at'[u] = at[u]
          /\ ~overlapped /\ lastSet
      BY <1>2, OthersWait
    <2>2. \A u \in Caller : u # t => at'[u] = "idle"
      BY <2>1 DEF OneCall
    <2>3. /\ at[t] \in {"compare", "assign"} => device = value[t]
          /\ at[t] \in After => device = last_value
      BY <2>1 DEF DeviceInv
    <2>4. SUFFICES /\ at'[t] = "idle" => device' = last_value'
                   /\ at'[t] \in {"compare", "assign"} => device' = value'[t]
                   /\ at'[t] \in After => device' = last_value'
      BY <2>2 DEF After
    <2>5. CASE Forward(t)
      BY <1>0, <2>5 DEF Forward, Goto, After
    <2>6. CASE CompareEqual(t)
      BY <1>0, <2>3, <2>6 DEF CompareEqual, Goto, After
    <2>7. CASE CompareDifferent(t)
      BY <1>0, <2>3, <2>7 DEF CompareDifferent, Goto, After
    <2>8. CASE Assign(t)
      BY <1>0, <2>3, <2>8 DEF Assign, Goto, After
    <2>9. CASE BuildMessage(t)
      BY <1>0, <2>3, <2>9 DEF BuildMessage, Goto, After
    <2>10. CASE Defer(t)
      <3>1. at[t] = "defer" /\ UNCHANGED <<device, last_value>>
        BY <2>10 DEF Defer, Goto
      <3>2. at'[t] \in {"build", "idle"}
        BY <2>10, DeferStep, PropertyAssumption DEF Property
      <3> QED
        BY <2>3, <3>1, <3>2 DEF After
    <2> QED
      BY <1>2, <2>5, <2>6, <2>7, <2>8, <2>9, <2>10 DEF CallStep
  <1>3. CASE Publish \/ UNCHANGED vars
    <2>1. UNCHANGED <<at, value, device, last_value, overlapped, lastSet>>
      BY <1>3 DEF Publish, vars, callVars, historyVars
    <2> QED
      BY <2>1 DEF DeviceInv
  <1> QED
    BY <1>1, <1>2, <1>3, Steps

\* The latest notice of a queue is the one that was appended last.
LEMMA LatestStep == TypeOK /\ CallInv /\ OneCall /\ LatestInv /\ [Next]_vars => LatestInv'
  <1> SUFFICES ASSUME TypeOK, CallInv, OneCall, LatestInv, [Next]_vars, ~overlapped',
                      NEW p \in Property
               PROVE  /\ \A u \in Caller : at'[u] = "defer" => message'[u] = last_value'
                      /\ \/ \E u \in Caller : WillTell(u, p)'
                         \/ Latest(deferred', published'[p], p, last_value')
    <2>1. 1 \in Property
      BY PropertyAssumption DEF Property
    <2> QED
      BY <2>1 DEF LatestInv, Latest, Places
  <1> DEFINE said == \A u \in Caller : at'[u] = "defer" => message'[u] = last_value'
             kept == \/ \E u \in Caller : WillTell(u, p)'
                     \/ Latest(deferred', published'[p], p, last_value')
  <1>0. /\ at \in [Caller -> {"idle", "forward", "compare", "assign", "build", "defer"}]
        /\ observer \in [Caller -> Property] /\ message \in [Caller -> Val]
    BY DEF TypeOK
  <1>00. ~overlapped => /\ \A u \in Caller : at[u] = "defer" => message[u] = last_value
                        /\ \/ \E u \in Caller : WillTell(u, p)
                           \/ Latest(deferred, published[p], p, last_value)
    BY DEF LatestInv
  <1>1. ASSUME UNCHANGED <<last_value, deferred, published>>, ~overlapped,
               \A u \in Caller : WillTell(u, p) => WillTell(u, p)'
        PROVE  kept
    BY <1>00, <1>1
  <1>2. ASSUME NEW t \in Caller, ~overlapped,
               \/ \E v \in Val, first \in {"forward", "compare"} : Call(t, v, first)
               \/ Forward(t) \/ CompareEqual(t) \/ CompareDifferent(t)
        PROVE  said /\ kept
    <2>1. /\ \A u \in Caller : at[u] \in After =>
                at'[u] = at[u] /\ observer'[u] = observer[u] /\ message'[u] = message[u]
          /\ at'[t] \notin After /\ \A u \in Caller : u # t => at'[u] = at[u]
          /\ UNCHANGED <<last_value, deferred, published>>
      BY <1>2, QuietSteps
    <2>2. \A u \in Caller : WillTell(u, p) => WillTell(u, p)'
      BY <2>1, TellersKept
    <2>3. kept
      BY <1>1, <1>2, <2>1, <2>2
    <2>4. ASSUME NEW u \in Caller, at'[u] = "defer"
          PROVE  message'[u] = last_value'
      <3>1. at[u] = "defer" /\ message'[u] = message[u]
        BY <2>1, <2>4 DEF After
      <3> QED
        BY <1>00, <1>2, <2>1, <3>1
    <2> QED
      BY <2>3, <2>4
  <1>3. ASSUME NEW t \in Caller, NEW v \in Val, NEW first \in {"forward", "compare"},
               Call(t, v, first)
        PROVE  said /\ kept
    <2>1. ~overlapped
      BY <1>3 DEF Call
    <2> QED
      BY <1>2, <1>3, <2>1
  <1>4. ASSUME NEW t \in Caller, CallStep(t)
        PROVE  said /\ kept
    <2>1. /\ at[t] # "idle" /\ \A u \in Caller : u # t => at'[u] = at[u]
          /\ ~overlapped
      BY <1>4, OthersWait
    <2>2. \A u \in Caller : u # t => at[u] = "idle" /\ at'[u] = "idle"
      BY <2>1 DEF OneCall
    <2>3. SUFFICES (at'[t] = "defer" => message'[t] = last_value') /\ kept
      BY <2>2
    <2>4. CASE Forward(t) \/ CompareEqual(t) \/ CompareDifferent(t)
      BY <1>2, <2>1, <2>4
    <2>5. CASE Assign(t)
      <3>1. at'[t] = "build" /\ observer'[t] = 1 /\ 1 <= p
        BY <1>0, <2>5 DEF Assign, Goto, CallInv, After, Property
      <3>2. WillTell(t, p)'
        BY <3>1 DEF WillTell
      <3> QED
        BY <3>1, <3>2
    <2>6. CASE BuildMessage(t)
      <3>1. /\ UNCHANGED <<last_value, deferred, published>>
            /\ message'[t] = last_value
            /\ \A u \in Caller : WillTell(u, p) => WillTell(u, p)'
        BY <2>6, BuildStep
      <3> QED
        BY <1>1, <2>1, <3>1
    <2>7. CASE Defer(t)
      <3>1. /\ at[t] = "defer" /\ UNCHANGED <<last_value, changes, published>>
            /\ Places(deferred', p) = IF observer[t] = p
                                      THEN Places(deferred, p) \cup {Len(deferred) + 1}
                                      ELSE Places(deferred, p)
            /\ \A i \in Places(deferred, p) : i <= Len(deferred) /\ deferred'[i] = deferred[i]
            /\ deferred'[Len(deferred) + 1].value = message[t]
            /\ observer[t] < p => at'[t] = "build" /\ observer'[t] <= p
            /\ at'[t] \in {"build", "idle"}
        BY <2>7, DeferStep
      <3>2. message[t] = last_value
        BY <1>00, <2>1, <3>1
      <3>3. observer[t] \in Nat /\ p \in Nat
        BY <1>0 DEF Property
      <3>4. CASE observer[t] < p
        <4>1. WillTell(t, p)'
          BY <3>1, <3>4 DEF WillTell
        <4> QED
          BY <3>1, <4>1
      <3>5. CASE observer[t] = p
        <4>1. Places(deferred', p) = Places(deferred, p) \cup {Len(deferred) + 1}
          BY <3>1, <3>5
        <4>2. ASSUME NEW i \in Places(deferred', p),
                     \A j \in Places(deferred', p) : j <= i
              PROVE  deferred'[i].value = last_value'
          <5>1. Len(deferred) \in Nat /\ i \in Nat
            BY DEF TypeOK, Places
          <5>2. Len(deferred) + 1 <= i
            BY <4>1, <4>2
          <5>3. i = Len(deferred) + 1
            BY <3>1, <4>1, <5>1, <5>2
          <5> QED
            BY <3>1, <3>2, <5>3
        <4>3. Places(deferred', p) # {}
          BY <4>1
        <4> QED
          BY <3>1, <4>2, <4>3 DEF Latest
      <3>6. CASE observer[t] > p
        <4>1. Places(deferred', p) = Places(deferred, p)
          BY <3>1, <3>3, <3>6
        <4>2. ~(\E u \in Caller : WillTell(u, p))
          <5>1. ~WillTell(t, p)
            BY <3>1, <3>3, <3>6 DEF WillTell
          <5>2. \A u \in Caller : u # t => ~WillTell(u, p)
            BY <2>2 DEF WillTell
          <5> QED
            BY <5>1, <5>2
        <4>3. Latest(deferred, published[p], p, last_value)
          BY <1>00, <2>1, <4>2
        <4>4. Latest(deferred', published'[p], p, last_value')
          BY <3>1, <4>1, <4>3 DEF Latest
        <4> QED
          BY <3>1, <4>4
      <3> QED
        BY <3>3, <3>4, <3>5, <3>6
    <2> QED
      BY <1>4, <2>4, <2>5, <2>6, <2>7 DEF CallStep
  <1>5. CASE Publish
    <2>1. /\ deferred # <<>> /\ deferred \in Seq(Notice) /\ deferred' = Tail(deferred)
          /\ UNCHANGED <<last_value, at, observer, message>>
          /\ Head(deferred) = deferred[1]
          /\ Head(deferred).property = p =>
                published'[p][Len(published'[p])] = Head(deferred).value
          /\ Head(deferred).property # p => published'[p] = published[p]
      BY <1>5, PublishStep
    <2>2. /\ \A i : i \in Places(Tail(deferred), p)
                    <=> i \in Nat \ {0} /\ i + 1 \in Places(deferred, p)
          /\ \A i \in Places(Tail(deferred), p) : Tail(deferred)[i] = deferred[i + 1]
          /\ 1 \in Places(deferred, p) <=> Head(deferred).property = p
      BY <2>1, TailPlaces
    <2>3. ~overlapped
      BY <1>5 DEF Publish, historyVars
    <2>4. said
      BY <1>00, <2>1, <2>3
    <2>5. CASE \E u \in Caller : WillTell(u, p)
      BY <2>1, <2>4, <2>5 DEF WillTell
    <2>6. CASE Latest(deferred, published[p], p, last_value)
      <3>0. \A j \in Places(deferred, p) : j \in Nat \ {0} /\ (j = 1 \/ j - 1 \in Places(deferred', p))
        <4> SUFFICES ASSUME NEW j \in Places(deferred, p), j # 1
                     PROVE  j - 1 \in Places(deferred', p)
          BY DEF Places
        <4>1. j - 1 \in Nat \ {0} /\ (j - 1) + 1 = j
          BY DEF Places
        <4> QED
          BY <2>1, <2>2, <4>1
      <3>1. ASSUME NEW i \in Places(deferred', p), \A j \in Places(deferred', p) : j <= i
            PROVE  deferred'[i].value = last_value
        <4>1. i \in Nat \ {0} /\ i + 1 \in Places(deferred, p) /\ deferred'[i] = deferred[i + 1]
          BY <2>1, <2>2
        <4>2. ASSUME NEW j \in Places(deferred, p)
              PROVE  j <= i + 1
          <5>1. CASE j = 1
            BY <4>1, <5>1
          <5>2. CASE j # 1
            <6>1. j \in Nat /\ j - 1 <= i
              BY <3>0, <3>1, <5>2
            <6> QED
              BY <4>1, <6>1
          <5> QED
            BY <5>1, <5>2
        <4> QED
          BY <2>6, <4>1, <4>2 DEF Latest
      <3>2. ASSUME Places(deferred', p) = {}, published'[p] # <<>>
            PROVE  published'[p][Len(published'[p])] = last_value
        <4>1. \A j \in Places(deferred, p) : j = 1
          BY <3>0, <3>2
        <4>2. CASE Head(deferred).property = p
          <5>1. 1 \in Places(deferred, p) /\ \A j \in Places(deferred, p) : j <= 1
            BY <2>2, <4>1, <4>2
          <5>2. deferred[1].value = last_value
            BY <2>6, <5>1 DEF Latest
          <5> QED
            BY <2>1, <4>2, <5>2
        <4>3. CASE Head(deferred).property # p
          <5>1. Places(deferred, p) = {} /\ published'[p] = published[p]
            BY <2>1, <2>2, <4>1, <4>3
          <5> QED
            BY <2>6, <3>2, <5>1 DEF Latest
        <4> QED
          BY <4>2, <4>3
      <3>3. Latest(deferred', published'[p], p, last_value')
        BY <2>1, <3>1, <3>2 DEF Latest
      <3> QED
        BY <2>4, <3>3
    <2> QED
      BY <1>00, <2>3, <2>5, <2>6
  <1>6. CASE UNCHANGED vars
    <2>1. UNCHANGED <<last_value, deferred, published, at, observer, message, overlapped>>
      BY <1>6 DEF vars, callVars, historyVars
    <2>2. \A u \in Caller : WillTell(u, p) => WillTell(u, p)'
      BY <2>1 DEF WillTell
    <2> QED
      BY <1>00, <1>1, <2>1, <2>2
  <1> QED
    BY <1>3, <1>4, <1>5, <1>6, Steps

---------------------------------------------------------------------------------
(* The theorems *)

\* Before the first call nothing is owed and nothing was told.
LEMMA Initially == Init => IInv
  <1> SUFFICES ASSUME Init
               PROVE  IInv
    OBVIOUS
  <1> USE ValueAssumption, PropertyAssumption, BoundAssumption
  <1>0. /\ \A t \in Caller : at[t] = "idle" /\ observer[t] = 1
        /\ changes = 0 /\ calls = 0 /\ deferred = <<>>
        /\ \A p \in Property : published[p] = <<>>
        /\ last_value = Initial /\ device = Initial
    BY DEF Init
  <1>1. TypeOK
    <2>1. 1 \in Property
      BY DEF Property
    <2>2. /\ value \in [Caller -> Val] /\ message \in [Caller -> Val]
          /\ observer \in [Caller -> Property]
          /\ at \in [Caller -> {"idle", "forward", "compare", "assign", "build", "defer"}]
      BY <2>1 DEF Init
    <2>3. <<>> \in Seq([property : Property, value : Val]) /\ <<>> \in Seq(Val)
      OBVIOUS
    <2>4. published \in [Property -> Seq(Val)]
      BY <2>3 DEF Init
    <2>5. last_value \in Val /\ device \in Valid \cup {Initial}
      BY <1>0
    <2>6. calls \in 0 .. MaxCalls /\ changes \in 0 .. MaxCalls
      BY <1>0
    <2>7. overlapped \in BOOLEAN /\ lastSet \in BOOLEAN
      BY DEF Init
    <2>8. deferred \in Seq([property : Property, value : Val])
      BY <1>0, <2>3
    <2> QED
      BY <2>2, <2>4, <2>5, <2>6, <2>7, <2>8 DEF TypeOK
  <1>2. CallInv
    BY <1>0 DEF CallInv
  <1>3. CountInv
    <2>1. MayAssign = {}
      BY <1>0 DEF MayAssign, Before
    <2>2. ASSUME NEW p \in Property
          PROVE  /\ Owes(p) = {} /\ Places(deferred, p) = {}
                 /\ Len(published[p]) = 0
      BY <1>0 DEF Owes, After, Places
    <2>3. IsFiniteSet({}) /\ Cardinality({}) = 0
      BY FS_EmptySet
    <2>4. IsFiniteSet(MayAssign) /\ changes + Cardinality(MayAssign) <= calls
      BY <1>0, <2>1, <2>3
    <2>5. ASSUME NEW p \in Property
          PROVE  /\ IsFiniteSet(Owes(p))
                 /\ changes = Len(published[p]) + Cardinality(Places(deferred, p))
                                                + Cardinality(Owes(p))
      <3>1. Owes(p) = {} /\ Places(deferred, p) = {} /\ Len(published[p]) = 0
        BY <2>2
      <3>2. /\ IsFiniteSet(Owes(p)) /\ Cardinality(Owes(p)) = 0
            /\ Cardinality(Places(deferred, p)) = 0
        BY <2>3, <3>1
      <3> QED
        BY <1>0, <3>1, <3>2
    <2> QED
      BY <2>4, <2>5 DEF CountInv
  <1>4. ToldInv
    BY <1>0 DEF ToldInv
  <1>5. OneCall /\ DeviceInv
    BY <1>0 DEF OneCall, DeviceInv, After
  <1>6. LatestInv
    <2>1. ASSUME NEW p \in Property
          PROVE  Latest(deferred, published[p], p, last_value)
      BY <1>0 DEF Latest, Places
    <2> QED
      BY <1>0, <2>1 DEF LatestInv
  <1> QED
    BY <1>1, <1>2, <1>3, <1>4, <1>5, <1>6 DEF IInv

\* The inductive invariant holds in every state.
THEOREM Invariant == Spec => []IInv
  <1>1. IInv /\ [Next]_vars => IInv'
    <2> SUFFICES ASSUME IInv, [Next]_vars
                 PROVE  IInv'
      OBVIOUS
    <2>1. TypeOK /\ CallInv /\ CountInv /\ ToldInv /\ OneCall /\ LatestInv /\ DeviceInv
      BY DEF IInv
    <2>2. TypeOK' /\ CallInv' /\ CountInv' /\ ToldInv'
      BY <2>1, TypeStep, CallKeeps, CountStep, ToldStep
    <2>3. OneCall' /\ LatestInv' /\ DeviceInv'
      BY <2>1, OneCallStep, LatestStep, DeviceStep
    <2> QED
      BY <2>2, <2>3 DEF IInv
  <1> QED
    BY Initially, <1>1, PTL DEF Spec

\* The value, the calls and the queue keep their types; what is passed on to the
\* device is the initial value or one that the metadata allows.
THEOREM Typing == Spec => []TypeOK
  <1>1. IInv => TypeOK
    BY DEF IInv
  <1> QED
    BY Invariant, <1>1, PTL

\* However many threads set a value and however their calls overlap, each property
\* that shares it publishes one notice for every assignment.
THEOREM OneNoticeForEachChange == Spec => []EveryChangeIsAnnounced
  <1>1. ASSUME IInv
        PROVE  EveryChangeIsAnnounced
    <2> SUFFICES ASSUME Settled, NEW p \in Property
                 PROVE  Len(published[p]) = changes
      BY DEF EveryChangeIsAnnounced
    <2>1. changes = Len(published[p]) + Cardinality(Places(deferred, p))
                                      + Cardinality(Owes(p))
      BY <1>1 DEF IInv, CountInv
    <2>2. Places(deferred, p) = {} /\ Owes(p) = {}
      BY DEF Settled, Places, Owes, After
    <2>3. Len(published[p]) \in Nat
      BY <1>1 DEF IInv, TypeOK
    <2> QED
      BY <2>1, <2>2, <2>3, FS_EmptySet
  <1> QED
    BY Invariant, <1>1, PTL

\* The value that remains when all calls have returned was published for every
\* property, since each observer reads it after the assignment.
THEOREM LastValueIsAnnounced == Spec => []SettledValueWasAnnounced
  <1>1. ASSUME IInv
        PROVE  SettledValueWasAnnounced
    <2> SUFFICES ASSUME Settled, changes > 0, NEW p \in Property
                 PROVE  last_value \in Range(published[p])
      BY DEF SettledValueWasAnnounced
    <2>1. \/ \E t \in Caller : WillTell(t, p)
          \/ \E i \in Places(deferred, p) : deferred[i].value = last_value
          \/ last_value \in Range(published[p])
      BY <1>1 DEF IInv, ToldInv
    <2>2. Places(deferred, p) = {} /\ ~ \E t \in Caller : WillTell(t, p)
      BY DEF Settled, Places, WillTell
    <2> QED
      BY <2>1, <2>2
  <1> QED
    BY Invariant, <1>1, PTL

\* Calls one after the other leave the value, the device and what the listeners
\* heard last the same.
THEOREM CallsInTurnAgree == Spec => []SequentialCallsAgree
  <1>1. ASSUME IInv
        PROVE  SequentialCallsAgree
    <2> SUFFICES ASSUME ~overlapped, Settled
                 PROVE  /\ \A p \in Property : published[p] # <<>> =>
                              published[p][Len(published[p])] = last_value
                        /\ lastSet => device = last_value
      BY DEF SequentialCallsAgree
    <2>1. ASSUME NEW p \in Property, published[p] # <<>>
          PROVE  published[p][Len(published[p])] = last_value
      <3>1. Places(deferred, p) = {} /\ ~ \E t \in Caller : WillTell(t, p)
        BY DEF Settled, Places, WillTell
      <3>2. Latest(deferred, published[p], p, last_value)
        BY <1>1, <3>1 DEF IInv, LatestInv
      <3> QED
        BY <2>1, <3>1, <3>2 DEF Latest
    <2>2. lastSet => device = last_value
      BY <1>1 DEF IInv, DeviceInv, Settled
    <2> QED
      BY <2>1, <2>2
  <1> QED
    BY Invariant, <1>1, PTL

---------------------------------------------------------------------------------
(* Calls in turn *)

\* What a call that runs alone has found different is still different.
DifferentInv ==
    ~overlapped => \A t \in Caller : at[t] = "assign" => last_value # value[t]

\* notify_of_external_update, called in turn: only overlapping calls announce what the
\* value already was.
THEOREM CallsInTurnNotifyOnlyChanges ==
    Spec => [][\A t \in Caller : Assign(t) /\ ~overlapped => last_value # last_value']_vars
  <1>1. Init => DifferentInv
    BY DEF Init, DifferentInv
  <1>2. ASSUME IInv, DifferentInv, [Next]_vars
        PROVE  DifferentInv'
    <2> SUFFICES ASSUME ~overlapped', NEW u \in Caller, at'[u] = "assign"
                 PROVE  last_value' # value'[u]
      BY DEF DifferentInv
    <2>1. at \in [Caller -> {"idle", "forward", "compare", "assign", "build", "defer"}]
          /\ value \in [Caller -> Val]
      BY <1>2 DEF IInv, TypeOK
    <2>2. ASSUME NEW t \in Caller, NEW v \in Val, Call(t, v, "forward") \/ Call(t, v, "compare")
          PROVE  last_value' # value'[u]
      BY <1>2, <2>1, <2>2 DEF Call, Goto
    <2>3. ASSUME NEW t \in Caller, NEW p \in Property, NEW v \in Val, SetValue(t, p, v)
          PROVE  last_value' # value'[u]
      BY <2>2, <2>3 DEF SetValue
    <2>4. ASSUME NEW t \in Thread, NEW v \in Val, ExternalUpdate(t, v)
          PROVE  last_value' # value'[u]
      BY <2>2, <2>4 DEF ExternalUpdate, Caller
    <2>5. ASSUME NEW t \in Caller, CallStep(t)
          PROVE  last_value' # value'[u]
      <3>1. overlapped' = overlapped
        BY <2>5 DEF CallStep, Forward, CompareEqual, CompareDifferent, Assign, BuildMessage,
             Defer, historyVars
      <3>2. at[t] # "idle" /\ (u # t => at'[u] = at[u])
        BY <2>1, <2>5 DEF CallStep, Forward, CompareEqual, CompareDifferent, Assign,
             BuildMessage, Defer, Goto
      <3>3. u = t
        BY <1>2, <3>1, <3>2 DEF IInv, OneCall
      <3> QED
        BY <2>1, <2>5, <3>3 DEF CallStep, Forward, CompareEqual, CompareDifferent, Assign,
             BuildMessage, Defer, Goto
    <2>6. CASE Publish \/ UNCHANGED vars
      BY <1>2, <2>6 DEF Publish, vars, callVars, historyVars, DifferentInv
    <2> QED
      BY <1>2, <2>3, <2>4, <2>5, <2>6 DEF Next
  <1>3. ASSUME IInv, DifferentInv
        PROVE  [\A t \in Caller : Assign(t) /\ ~overlapped => last_value # last_value']_vars
    BY <1>3 DEF DifferentInv, Assign, Goto
  <1> QED
    BY <1>1, <1>2, <1>3, Invariant, PTL DEF Spec
=================================================================================
