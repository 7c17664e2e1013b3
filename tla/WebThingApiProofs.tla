--------------------------- MODULE WebThingApiProofs -----------------------------
(***************************************************************************)
(* What is proved of WebThingApi, for any server, things, clients and      *)
(* sockets: the values stay allowed, refusals change nothing, and every    *)
(* listener hears all that it should, of its thing only and in order. And  *)
(* of all servers: links are served, and a slash at the end does no harm.  *)
(***************************************************************************)
EXTENDS WebThingApi, RoutingProofs, NaturalsInduction, TLAPS

---------------------------------------------------------------------------------
(* The inductive invariant *)

\* A notice goes to the topic of the thing that it is about, whose events are known.
Proper(notice, ids) ==
    \/ /\ notice.about \in Property
       /\ notice.topic = <<notice.about[1], "properties">>
    \/ /\ notice.about \in Id
       /\ ids[notice.about] \in Action
       /\ notice.topic = <<ids[notice.about][1], "actions">>
    \/ /\ notice.about \in Event
       /\ NameOf[notice.about] \in Available
       /\ notice.topic = EventTopic(NameOf[notice.about])

\* A socket has subscribed to topics of its thing only, to two of them at once, and
\* has heard of its thing only.
TopicInv ==
    /\ \A i \in DOMAIN deferred : Proper(deferred[i], uuids)
    /\ \A s \in Socket :
          /\ \A topic \in topics[s] : topic[1] = open[s]
          /\ open[s] # None => <<open[s], "properties">> \in topics[s]
          /\ \A i \in DOMAIN heard[s] :
                \/ heard[s][i] = Error
                \/ Proper(heard[s][i], uuids) /\ heard[s][i].topic[1] = open[s]

\* No notice of a queue is about p.
Silent(queue, p) == \A i \in DOMAIN queue : queue[i].about # p

\* The last notice of a queue about p says that its value is v.
LatestIs(queue, p, v) ==
    \A i \in DOMAIN queue :
        /\ queue[i].about = p
        /\ \A j \in DOMAIN queue : j > i => queue[j].about # p
        => queue[i].content = v

\* The value of a property is what the last waiting notice says, or, when none waits,
\* what the listeners of its thing were told last.
ToldInv ==
    /\ \A s \in Socket : open[s] = None => changed[s] = {}
    /\ \A p \in Property : LatestIs(deferred, p, value[p])
    /\ \A s \in Socket, p \in Property :
          open[s] = p[1] /\ Silent(deferred, p) =>
              /\ LatestIs(heard[s], p, value[p])
              /\ Silent(heard[s], p) => p \notin changed[s]

\* d was stored before e.
Before(d, e) == \E k, l \in DOMAIN emitted : k < l /\ emitted[k] = d /\ emitted[l] = e

\* What may be told of d first and then of e.
Precedes(d, e) == d \in Event /\ e \in Event =>
                      d # e /\ (emitter[d] = emitter[e] => Before(d, e))

\* An event that was announced was stored before, and its thread has gone on.
Announced(d) == d \in Event => emitter[d] # None /\ emitting[emitter[d]] # d

\* A queue has only events that may be announced, in the order of each thread.
InOrder(queue) ==
    /\ \A i \in DOMAIN queue : Announced(queue[i].about)
    /\ \A i, j \in DOMAIN queue : i < j => Precedes(queue[i].about, queue[j].about)

\* And so may be told after what another queue has.
Follows(queue, later) ==
    \A i \in DOMAIN queue, j \in DOMAIN later : Precedes(queue[i].about, later[j].about)

\* Every event is stored once, by the thread that emits it; the one that a thread has
\* yet to announce is its latest; announcements are in the order of each thread.
EventInv ==
    /\ \A k, l \in DOMAIN emitted : k # l => emitted[k] # emitted[l]
    /\ \A e \in Event : emitter[e] = None <=> e \notin Range(emitted)
    /\ \A t \in Emitter : emitting[t] # None =>
          /\ emitter[emitting[t]] = t
          /\ \A d \in Event : emitter[d] = t /\ d # emitting[t] => Before(d, emitting[t])
    /\ InOrder(deferred)
    /\ \A s \in Socket : InOrder(heard[s]) /\ Follows(heard[s], deferred)

\* The events of a thing that were stored after the k-th one.
Newer(t, k) == {l \in k + 1 .. Len(emitted) : NameOf[emitted[l]][1] = t}

\* An event is followed in the storage by all newer ones, or has been evicted by them.
ListedInv ==
    \A k \in DOMAIN emitted :
        LET t == NameOf[emitted[k]][1] IN
        /\ IsFiniteSet(Newer(t, k))
        /\ \/ Cardinality(Newer(t, k)) >= MaxSize
           \/ \E i \in DOMAIN events[t] : /\ events[t][i] = emitted[k]
                                          /\ Cardinality(Newer(t, k)) = Len(events[t]) - i

\* The inductive invariant.
IInv == TypeOK /\ ValuesStayAllowed /\ TopicInv /\ ToldInv /\ EventInv /\ ListedInv

---------------------------------------------------------------------------------
(* The entries of an object *)

\* Induction: what holds of 0 and of the successor of each number holds of all.
LEMMA Induction ==
    ASSUME NEW S, 0 \in S, \A n \in Nat : n \in S => n + 1 \in S
    PROVE  \A n \in Nat : n \in S
  <1> DEFINE less == {p \in Nat \X Nat : p[1] < p[2]}
             missing == {n \in Nat : n \notin S}
  <1>1. SUFFICES ASSUME missing # {}
                 PROVE  FALSE
    OBVIOUS
  <1>2. IsWellFoundedOn(less, Nat)
    BY NatLessThanWellFounded, Zenon DEF OpToRel
  <1>3. PICK n \in missing : \A m \in missing : ~ (<<m, n>> \in less)
    <2> HIDE DEF less
    <2>1. missing \in SUBSET Nat
      OBVIOUS
    <2> QED
      BY <1>1, <1>2, <2>1, WFMin
  <1>4. n \in Nat /\ n # 0 /\ n - 1 \in Nat
    OBVIOUS
  <1>5. <<n - 1, n>> \in Nat \X Nat /\ <<n - 1, n>>[1] = n - 1 /\ <<n - 1, n>>[2] = n
    BY <1>4
  <1>6. n - 1 \notin missing
    BY <1>3, <1>4, <1>5
  <1> QED
    BY <1>3, <1>4, <1>6

\* What holds of what is done before an object, and is kept by each entry, holds of
\* what is done after it: setting properties.
LEMMA SetEachKeeps ==
    ASSUME NEW done, NEW thing, NEW entries, entries \in Seq(Range(entries)), NEW Good, done \in Good,
           \A d \in Good, k \in DOMAIN entries :
               SetProperty(d, <<thing, entries[k].name>>, entries[k].json) \in Good
    PROVE  SetEach(done, thing, entries) \in Good
  <1> DEFINE N == Len(entries)
             step(d, k) == SetProperty(d, <<thing, entries[k].name>>, entries[k].json)
             isAfter(f, n) == f = [k \in 0 .. n |-> IF k = 0 THEN done ELSE step(f[k - 1], k)]
             have == {n \in Nat : \E f : isAfter(f, n)}
             after == CHOOSE f : isAfter(f, N)
             good == {n \in Nat : n <= N => after[n] \in Good}
  <1>1. N \in Nat /\ DOMAIN entries = 1 .. N
    OBVIOUS
  <1>2. SetEach(done, thing, entries) = after[N]
    BY DEF SetEach
  <1>3. \A d \in Good, k \in 1 .. N : step(d, k) \in Good
    BY <1>1
  <1> HIDE DEF N, step
  <1>4. \A n \in Nat : n \in have
    <2>1. isAfter([k \in 0 .. 0 |-> done], 0)
      OBVIOUS
    <2>2. ASSUME NEW n \in Nat, n \in have
          PROVE  n + 1 \in have
      <3>1. PICK f : isAfter(f, n)
        BY <2>2
      <3> DEFINE g == [k \in 0 .. n + 1 |-> IF k = n + 1 THEN step(f[n], n + 1) ELSE f[k]]
      <3>2. ASSUME NEW k \in 0 .. n + 1
            PROVE  g[k] = IF k = 0 THEN done ELSE step(g[k - 1], k)
        <4>1. CASE k = n + 1
          BY <4>1
        <4>2. CASE k \in 0 .. n
          <5>1. g[k] = f[k] /\ f[k] = IF k = 0 THEN done ELSE step(f[k - 1], k)
            BY <3>1, <4>2
          <5>2. k # 0 => g[k - 1] = f[k - 1]
            BY <4>2
          <5> QED
            BY <5>1, <5>2
        <4> QED
          BY <4>1, <4>2
      <3>3. g = [k \in 0 .. n + 1 |-> g[k]]
        OBVIOUS
      <3>4. isAfter(g, n + 1)
        <4> HIDE DEF g
        <4> QED
          BY <3>2, <3>3
      <3>5. \E h : isAfter(h, n + 1)
        <4> HIDE DEF g, isAfter
        <4> QED
          BY <3>4
      <3> HIDE DEF isAfter
      <3> QED
        BY <3>5
    <2>3. 0 \in have
      BY <2>1
    <2> HIDE DEF have
    <2> QED
      BY <2>2, <2>3, Induction
  <1>5. after = [k \in 0 .. N |-> IF k = 0 THEN done ELSE step(after[k - 1], k)]
    <2>1. \E f : isAfter(f, N)
      BY <1>1, <1>4
    <2> HIDE DEF isAfter
    <2>2. isAfter(after, N)
      BY <2>1
    <2> USE DEF isAfter
    <2> HIDE DEF after
    <2> QED
      BY <2>2
  <1> HIDE DEF after
  <1>6. 0 \in good
    BY <1>1, <1>5
  <1>7. ASSUME NEW n \in Nat, n \in good
        PROVE  n + 1 \in good
    <2>1. SUFFICES ASSUME n + 1 <= N
                   PROVE  after[n + 1] \in Good
      OBVIOUS
    <2>2. after[n] \in Good /\ n + 1 \in 1 .. N
      BY <1>1, <1>7, <2>1
    <2>3. after[n + 1] = step(after[n], n + 1)
      BY <1>1, <1>5, <2>1
    <2> QED
      BY <1>3, <2>2, <2>3
  <1>8. N \in good
    <2> HIDE DEF good
    <2> QED
      BY <1>1, <1>6, <1>7, Induction
  <1> QED
    BY <1>1, <1>2, <1>8

\* The same for performing actions.
LEMMA PerformEachKeeps ==
    ASSUME NEW done, NEW thing, NEW entries, entries \in Seq(Range(entries)), NEW Good, done \in Good,
           \A d \in Good, k \in DOMAIN entries :
               PerformAction(d, <<thing, entries[k].name>>, entries[k].valid) \in Good
    PROVE  PerformEach(done, thing, entries) \in Good
  <1> DEFINE N == Len(entries)
             step(d, k) == PerformAction(d, <<thing, entries[k].name>>, entries[k].valid)
             isAfter(f, n) == f = [k \in 0 .. n |-> IF k = 0 THEN done ELSE step(f[k - 1], k)]
             have == {n \in Nat : \E f : isAfter(f, n)}
             after == CHOOSE f : isAfter(f, N)
             good == {n \in Nat : n <= N => after[n] \in Good}
  <1>1. N \in Nat /\ DOMAIN entries = 1 .. N
    OBVIOUS
  <1>2. PerformEach(done, thing, entries) = after[N]
    BY DEF PerformEach
  <1>3. \A d \in Good, k \in 1 .. N : step(d, k) \in Good
    BY <1>1
  <1> HIDE DEF N, step
  <1>4. \A n \in Nat : n \in have
    <2>1. isAfter([k \in 0 .. 0 |-> done], 0)
      OBVIOUS
    <2>2. ASSUME NEW n \in Nat, n \in have
          PROVE  n + 1 \in have
      <3>1. PICK f : isAfter(f, n)
        BY <2>2
      <3> DEFINE g == [k \in 0 .. n + 1 |-> IF k = n + 1 THEN step(f[n], n + 1) ELSE f[k]]
      <3>2. ASSUME NEW k \in 0 .. n + 1
            PROVE  g[k] = IF k = 0 THEN done ELSE step(g[k - 1], k)
        <4>1. CASE k = n + 1
          BY <4>1
        <4>2. CASE k \in 0 .. n
          <5>1. g[k] = f[k] /\ f[k] = IF k = 0 THEN done ELSE step(f[k - 1], k)
            BY <3>1, <4>2
          <5>2. k # 0 => g[k - 1] = f[k - 1]
            BY <4>2
          <5> QED
            BY <5>1, <5>2
        <4> QED
          BY <4>1, <4>2
      <3>3. g = [k \in 0 .. n + 1 |-> g[k]]
        OBVIOUS
      <3>4. isAfter(g, n + 1)
        <4> HIDE DEF g
        <4> QED
          BY <3>2, <3>3
      <3>5. \E h : isAfter(h, n + 1)
        <4> HIDE DEF g, isAfter
        <4> QED
          BY <3>4
      <3> HIDE DEF isAfter
      <3> QED
        BY <3>5
    <2>3. 0 \in have
      BY <2>1
    <2> HIDE DEF have
    <2> QED
      BY <2>2, <2>3, Induction
  <1>5. after = [k \in 0 .. N |-> IF k = 0 THEN done ELSE step(after[k - 1], k)]
    <2>1. \E f : isAfter(f, N)
      BY <1>1, <1>4
    <2> HIDE DEF isAfter
    <2>2. isAfter(after, N)
      BY <2>1
    <2> USE DEF isAfter
    <2> HIDE DEF after
    <2> QED
      BY <2>2
  <1> HIDE DEF after
  <1>6. 0 \in good
    BY <1>1, <1>5
  <1>7. ASSUME NEW n \in Nat, n \in good
        PROVE  n + 1 \in good
    <2>1. SUFFICES ASSUME n + 1 <= N
                   PROVE  after[n + 1] \in Good
      OBVIOUS
    <2>2. after[n] \in Good /\ n + 1 \in 1 .. N
      BY <1>1, <1>7, <2>1
    <2>3. after[n + 1] = step(after[n], n + 1)
      BY <1>1, <1>5, <2>1
    <2> QED
      BY <1>3, <2>2, <2>3
  <1>8. N \in good
    <2> HIDE DEF good
    <2> QED
      BY <1>1, <1>6, <1>7, Induction
  <1> QED
    BY <1>1, <1>2, <1>8

---------------------------------------------------------------------------------
(* Queues of notices *)

\* What one more notice changes.
LEMMA AppendNotice ==
    ASSUME NEW q \in Seq(NoticeSet), NEW m \in NoticeSet
    PROVE  /\ Append(q, m) \in Seq(NoticeSet)
           /\ Len(Append(q, m)) = Len(q) + 1
           /\ DOMAIN Append(q, m) = 1 .. Len(q) + 1
           /\ DOMAIN q = 1 .. Len(q)
           /\ Len(q) \in Nat
           /\ \A i \in 1 .. Len(q) : Append(q, m)[i] = q[i]
           /\ Append(q, m)[Len(q) + 1] = m
  OBVIOUS

\* The last notice about its subject is the one that is appended; of others nothing
\* changes.
LEMMA AppendTold ==
    ASSUME NEW q \in Seq(NoticeSet), NEW m \in NoticeSet, NEW p
    PROVE  /\ m.about = p => /\ LatestIs(Append(q, m), p, m.content)
                             /\ ~Silent(Append(q, m), p)
           /\ m.about # p => /\ \A v : LatestIs(q, p, v) => LatestIs(Append(q, m), p, v)
                             /\ Silent(Append(q, m), p) <=> Silent(q, p)
  <1> DEFINE r == Append(q, m)
  <1>1. /\ DOMAIN r = 1 .. Len(q) + 1
        /\ DOMAIN q = 1 .. Len(q)
        /\ Len(q) \in Nat
        /\ \A i \in 1 .. Len(q) : r[i] = q[i]
        /\ r[Len(q) + 1] = m
    BY AppendNotice
  <1> HIDE DEF r
  <1>2. ASSUME m.about = p
        PROVE  LatestIs(r, p, m.content) /\ ~Silent(r, p)
    <2>1. ASSUME NEW i \in DOMAIN r, \A j \in DOMAIN r : j > i => r[j].about # p
          PROVE  r[i].content = m.content
      <3>1. Len(q) + 1 \in DOMAIN r /\ ~(Len(q) + 1 > i)
        BY <1>1, <1>2, <2>1
      <3>2. i = Len(q) + 1
        BY <1>1, <3>1
      <3> QED
        BY <1>1, <3>2
    <2>2. Len(q) + 1 \in DOMAIN r
      BY <1>1
    <2> QED
      BY <1>1, <1>2, <2>1, <2>2 DEF LatestIs, Silent
  <1>3. ASSUME m.about # p, NEW v, LatestIs(q, p, v)
        PROVE  LatestIs(r, p, v)
    <2>1. ASSUME NEW i \in DOMAIN r, r[i].about = p,
                 \A j \in DOMAIN r : j > i => r[j].about # p
          PROVE  r[i].content = v
      <3>1. i \in DOMAIN q /\ q[i] = r[i]
        BY <1>1, <1>3, <2>1
      <3>2. \A j \in DOMAIN q : j > i => q[j].about # p
        BY <1>1, <2>1
      <3> QED
        BY <1>3, <2>1, <3>1, <3>2 DEF LatestIs
    <2> QED
      BY <2>1 DEF LatestIs
  <1>4. ASSUME m.about # p
        PROVE  Silent(r, p) <=> Silent(q, p)
    BY <1>1, <1>4 DEF Silent
  <1> QED
    BY <1>2, <1>3, <1>4 DEF r

\* What taking the first notice changes.
LEMMA TailNotice ==
    ASSUME NEW q \in Seq(NoticeSet), q # <<>>
    PROVE  /\ Tail(q) \in Seq(NoticeSet)
           /\ Len(q) \in Nat /\ Len(q) > 0
           /\ DOMAIN Tail(q) = 1 .. Len(q) - 1
           /\ DOMAIN q = 1 .. Len(q)
           /\ \A i \in 1 .. Len(q) - 1 : Tail(q)[i] = q[i + 1]
           /\ q[1] \in NoticeSet
  OBVIOUS

\* The last notices stay the last, and a subject of which nothing waits any more is
\* the one of the first notice or had none.
LEMMA TailTold ==
    ASSUME NEW q \in Seq(NoticeSet), q # <<>>, NEW p, NEW v, LatestIs(q, p, v)
    PROVE  /\ LatestIs(Tail(q), p, v)
           /\ Silent(Tail(q), p) => IF q[1].about = p THEN q[1].content = v ELSE Silent(q, p)
  <1> DEFINE r == Tail(q)
  <1>1. /\ Len(q) \in Nat /\ Len(q) > 0
        /\ DOMAIN r = 1 .. Len(q) - 1
        /\ DOMAIN q = 1 .. Len(q)
        /\ \A i \in 1 .. Len(q) - 1 : r[i] = q[i + 1]
    BY TailNotice
  <1> HIDE DEF r
  <1>2. \A j \in DOMAIN q : j > 1 => j - 1 \in DOMAIN r /\ r[j - 1] = q[j]
    BY <1>1
  <1>3. ASSUME NEW i \in DOMAIN r, r[i].about = p,
               \A j \in DOMAIN r : j > i => r[j].about # p
        PROVE  r[i].content = v
    <2>1. i + 1 \in DOMAIN q /\ q[i + 1] = r[i]
      BY <1>1
    <2>2. ASSUME NEW j \in DOMAIN q, j > i + 1
          PROVE  q[j].about # p
      <3>1. j - 1 \in DOMAIN r /\ r[j - 1] = q[j] /\ j - 1 > i
        BY <1>1, <2>2
      <3> QED
        BY <1>3, <3>1
    <2> QED
      BY <1>3, <2>1, <2>2 DEF LatestIs
  <1>4. ASSUME Silent(r, p)
        PROVE  IF q[1].about = p THEN q[1].content = v ELSE Silent(q, p)
    <2>1. \A j \in DOMAIN q : j > 1 => q[j].about # p
      BY <1>2, <1>4 DEF Silent
    <2>2. 1 \in DOMAIN q
      BY <1>1
    <2>3. CASE q[1].about = p
      BY <2>1, <2>2, <2>3 DEF LatestIs
    <2>4. CASE q[1].about # p
      BY <1>1, <2>1, <2>4 DEF Silent
    <2> QED
      BY <2>3, <2>4
  <1> QED
    BY <1>3, <1>4 DEF LatestIs, r

\* A notice stays proper while no id changes its action.
LEMMA ProperKept ==
    ASSUME NEW m, NEW ids, NEW others, Proper(m, ids),
           \A i \in Id : ids[i] \in Action => others[i] = ids[i]
    PROVE  Proper(m, others)
  BY DEF Proper

---------------------------------------------------------------------------------
(* What a handler does *)

\* What a handler has done, entry by entry, has this type.
Done == [value : [Property -> Int], actions : [Action -> SUBSET Id],
         uuids : [Id -> Action \cup {None}], deferred : Seq(NoticeSet)]

\* Relative to the state in which the handler began: ids were only given away; what is
\* stored, allowed and announced last is as in the invariant; the notices that waited
\* still wait, and a changed value has been announced behind them.
Progress(d) ==
    /\ \A action \in Action, i \in Id : i \in d.actions[action] => d.uuids[i] = action
    /\ \A i \in Id : uuids[i] # None => d.uuids[i] = uuids[i]
    /\ \A p \in Property : d.value[p] # Initial[p] => p \notin ReadOnly /\ d.value[p] \in Allowed[p]
    /\ \A i \in DOMAIN d.deferred : Proper(d.deferred[i], d.uuids)
    /\ Len(deferred) <= Len(d.deferred)
    /\ \A i \in DOMAIN deferred : d.deferred[i] = deferred[i]
    /\ \A i \in DOMAIN d.deferred : i > Len(deferred) => d.deferred[i].about \notin Event
    /\ \A p \in Property : LatestIs(d.deferred, p, d.value[p])
    /\ \A p \in Property : Silent(d.deferred, p) => d.value[p] = value[p]

Reached == {d \in Done : Progress(d)}

\* The handler begins where the things are.
LEMMA NowIsReached ==
    ASSUME TypeOK, ValuesStayAllowed, TopicInv, ToldInv
    PROVE  Now \in Reached
  <1>1. Now \in Done
    BY DEF TypeOK, Now, Done
  <1>2. /\ Now.value = value /\ Now.actions = actions
        /\ Now.uuids = uuids /\ Now.deferred = deferred
    BY DEF Now
  <1>3. deferred \in Seq(NoticeSet)
    BY DEF TypeOK
  <1>4. Len(deferred) \in Nat /\ DOMAIN deferred = 1 .. Len(deferred)
    BY <1>3
  <1>5. /\ \A action \in Action, i \in Id : i \in Now.actions[action] => Now.uuids[i] = action
        /\ \A i \in Id : uuids[i] # None => Now.uuids[i] = uuids[i]
        /\ \A p \in Property :
              Now.value[p] # Initial[p] => p \notin ReadOnly /\ Now.value[p] \in Allowed[p]
    BY <1>2 DEF TypeOK, ValuesStayAllowed
  <1>6. /\ \A i \in DOMAIN Now.deferred : Proper(Now.deferred[i], Now.uuids)
        /\ Len(deferred) <= Len(Now.deferred)
        /\ \A i \in DOMAIN deferred : Now.deferred[i] = deferred[i]
        /\ \A i \in DOMAIN Now.deferred :
              i > Len(deferred) => Now.deferred[i].about \notin Event
    BY <1>2, <1>4 DEF TopicInv
  <1>7. /\ \A p \in Property : LatestIs(Now.deferred, p, Now.value[p])
        /\ \A p \in Property : Silent(Now.deferred, p) => Now.value[p] = value[p]
    BY <1>2 DEF ToldInv
  <1> HIDE DEF Now
  <1> QED
    BY <1>1, <1>5, <1>6, <1>7 DEF Reached, Progress

\* One more notice behind those that wait, when ids are only given away.
LEMMA NotifyReached ==
    ASSUME NEW d \in Reached, deferred \in Seq(NoticeSet), NEW m \in NoticeSet,
           NEW ids, Proper(m, ids), m.about \notin Event,
           \A i \in Id : d.uuids[i] \in Action => ids[i] = d.uuids[i],
           NEW q, q = Append(d.deferred, m)
    PROVE  /\ q \in Seq(NoticeSet)
           /\ \A i \in DOMAIN q : Proper(q[i], ids)
           /\ Len(deferred) <= Len(q)
           /\ \A i \in DOMAIN deferred : q[i] = deferred[i]
           /\ \A i \in DOMAIN q : i > Len(deferred) => q[i].about \notin Event
  <1> DEFINE r == d.deferred
  <1>1. r \in Seq(NoticeSet)
    BY DEF Reached, Done
  <1>2. /\ q \in Seq(NoticeSet)
        /\ Len(q) = Len(r) + 1
        /\ DOMAIN q = 1 .. Len(r) + 1
        /\ DOMAIN r = 1 .. Len(r)
        /\ Len(r) \in Nat
        /\ \A i \in 1 .. Len(r) : q[i] = r[i]
        /\ q[Len(r) + 1] = m
    BY <1>1, AppendNotice
  <1>3. /\ \A i \in DOMAIN r : Proper(r[i], d.uuids)
        /\ Len(deferred) <= Len(r)
        /\ \A i \in DOMAIN deferred : r[i] = deferred[i]
        /\ \A i \in DOMAIN r : i > Len(deferred) => r[i].about \notin Event
    BY DEF Reached, Progress
  <1>4. Len(deferred) \in Nat /\ DOMAIN deferred = 1 .. Len(deferred)
    OBVIOUS
  <1> HIDE DEF r
  <1>5. ASSUME NEW i \in DOMAIN q
        PROVE  Proper(q[i], ids) /\ (i > Len(deferred) => q[i].about \notin Event)
    <2>1. CASE i = Len(r) + 1
      BY <1>2, <2>1
    <2>2. CASE i \in DOMAIN r
      <3>1. Proper(r[i], ids)
        BY <1>3, <2>2, ProperKept
      <3> QED
        BY <1>2, <1>3, <2>2, <3>1
    <2> QED
      BY <1>2, <2>1, <2>2
  <1>6. Len(deferred) <= Len(q) /\ \A i \in DOMAIN deferred : q[i] = deferred[i]
    BY <1>2, <1>3, <1>4
  <1> QED
    BY <1>2, <1>5, <1>6

\* Setting a property goes on from what a handler has reached.
LEMMA SetPropertyReached ==
    ASSUME TypeOK, NEW d \in Reached, NEW p, NEW json
    PROVE  SetProperty(d, p, json) \in Reached
  <1>1. CASE SetProperty(d, p, json) = d
    BY <1>1
  <1>2. ASSUME p \in Property, NEW n \in Accepted(p, json), d.value[p] # n
        PROVE  Change(d, p, n) \in Reached
    <2> DEFINE m == Notice(<<p[1], "properties">>, p, n)
               e == Change(d, p, n)
    <2>1. n \in Int /\ n \in Allowed[p] /\ p \notin ReadOnly
      BY <1>2, ThingAssumption DEF Accepted
    <2>2. p[1] \in Thing
      BY <1>2, ThingAssumption
    <2>3. m \in NoticeSet
      BY <1>2, <2>1, <2>2 DEF NoticeSet, Notice, Topic
    <2>4. m.about = p /\ m.content = n /\ m.about \notin Event /\ Proper(m, d.uuids)
      BY <1>2, DisjointAssumption DEF Notice, Proper
    <2>5. d \in Done
      BY DEF Reached
    <2>6. e = [d EXCEPT !.value[p] = n, !.deferred = Append(@, m)]
      BY <1>2 DEF Change
    <2> HIDE DEF e, m
    <2>7. /\ e.value = [d.value EXCEPT ![p] = n]
          /\ e.actions = d.actions
          /\ e.uuids = d.uuids
          /\ e.deferred = Append(d.deferred, m)
      BY <2>5, <2>6 DEF Done
    <2>8. deferred \in Seq(NoticeSet) /\ d.deferred \in Seq(NoticeSet)
      BY <2>5 DEF TypeOK, Done
    <2>9. /\ e.deferred \in Seq(NoticeSet)
          /\ \A i \in DOMAIN e.deferred : Proper(e.deferred[i], e.uuids)
          /\ Len(deferred) <= Len(e.deferred)
          /\ \A i \in DOMAIN deferred : e.deferred[i] = deferred[i]
          /\ \A i \in DOMAIN e.deferred : i > Len(deferred) => e.deferred[i].about \notin Event
      <3> DEFINE q == Append(d.deferred, m)
      <3>1. /\ q \in Seq(NoticeSet)
            /\ \A i \in DOMAIN q : Proper(q[i], d.uuids)
            /\ Len(deferred) <= Len(q)
            /\ \A i \in DOMAIN deferred : q[i] = deferred[i]
            /\ \A i \in DOMAIN q : i > Len(deferred) => q[i].about \notin Event
        BY <2>3, <2>4, <2>8, NotifyReached
      <3> HIDE DEF q
      <3>2. e.deferred = q /\ e.uuids = d.uuids
        BY <2>7 DEF q
      <3> QED
        BY <3>1, <3>2
    <2>10. e \in Done
      <3>1. e.value \in [Property -> Int]
        BY <1>2, <2>1, <2>5, <2>7 DEF Done
      <3>2. DOMAIN e = DOMAIN d
        BY <2>6
      <3> QED
        BY <2>5, <2>6, <2>9, <3>1 DEF Done
    <2>11. ASSUME NEW o \in Property
           PROVE  /\ LatestIs(e.deferred, o, e.value[o])
                  /\ Silent(e.deferred, o) => e.value[o] = value[o]
                  /\ e.value[o] # Initial[o] => o \notin ReadOnly /\ e.value[o] \in Allowed[o]
      <3>1. CASE o = p
        <4>1. e.value[o] = n
          BY <1>2, <2>5, <2>7, <3>1 DEF Done
        <4>2. m.about = o /\ m.content = n
          BY <2>4, <3>1
        <4>3. /\ LatestIs(Append(d.deferred, m), o, m.content)
              /\ ~Silent(Append(d.deferred, m), o)
          BY <2>3, <2>8, <4>2, AppendTold
        <4> QED
          BY <2>1, <2>7, <3>1, <4>1, <4>2, <4>3
      <3>2. CASE o # p
        <4>1. e.value[o] = d.value[o]
          BY <2>5, <2>7, <3>2 DEF Done
        <4>2. m.about # o
          BY <2>4, <3>2
        <4>3. /\ \A v : LatestIs(d.deferred, o, v) => LatestIs(Append(d.deferred, m), o, v)
              /\ Silent(Append(d.deferred, m), o) <=> Silent(d.deferred, o)
          BY <2>3, <2>8, <4>2, AppendTold
        <4>4. /\ LatestIs(d.deferred, o, d.value[o]) => LatestIs(e.deferred, o, d.value[o])
              /\ Silent(e.deferred, o) <=> Silent(d.deferred, o)
          BY <2>7, <4>3
        <4> QED
          BY <4>1, <4>4 DEF Reached, Progress
      <3> QED
        BY <3>1, <3>2
    <2>12. /\ \A action \in Action, i \in Id : i \in e.actions[action] => e.uuids[i] = action
           /\ \A i \in Id : uuids[i] # None => e.uuids[i] = uuids[i]
      BY <2>7 DEF Reached, Progress
    <2>13. Progress(e)
      BY <2>9, <2>11, <2>12 DEF Progress
    <2> QED
      BY <2>10, <2>13 DEF Reached, e
  <1>3. CASE SetProperty(d, p, json) # d
    <2>1. p \in Property /\ Accepted(p, json) # {}
      BY <1>3 DEF SetProperty
    <2> DEFINE n == CHOOSE n \in Accepted(p, json) : TRUE
    <2>2. n \in Accepted(p, json)
      BY <2>1
    <2>3. SetProperty(d, p, json) = Change(d, p, n)
      BY <2>1 DEF SetProperty
    <2> HIDE DEF n
    <2>4. d.value[p] # n
      BY <1>3, <2>3 DEF Change
    <2> QED
      BY <1>2, <2>1, <2>2, <2>3, <2>4
  <1> QED
    BY <1>1, <1>3

\* An action that is performed was there and gets an id that no other action has, under
\* which it is announced to the listeners of its thing.
LEMMA PerformActionReached ==
    ASSUME deferred \in Seq(NoticeSet), NEW d \in Reached, NEW action, NEW valid
    PROVE  PerformAction(d, action, valid) \in Reached
  <1>1. CASE PerformAction(d, action, valid) = d
    BY <1>1
  <1>2. CASE PerformAction(d, action, valid) # d
    <2> DEFINE id == FreshId(d)
               m == Notice(<<action[1], "actions">>, id, 0)
               e == PerformAction(d, action, valid)
    <2>1. action \in Action /\ ~NoIdLeft(d)
      BY <1>2 DEF PerformAction
    <2>2. id \in Id /\ d.uuids[id] = None
      BY <2>1 DEF NoIdLeft, FreshId
    <2>3. e = [d EXCEPT !.uuids[id] = action,
                        !.actions[action] = @ \cup {id},
                        !.deferred = Append(@, m)]
      BY <1>2 DEF PerformAction
    <2>4. d \in Done
      BY DEF Reached
    <2> HIDE DEF id
    <2>5. action[1] \in Thing
      BY <2>1, ThingAssumption
    <2>6. m \in NoticeSet
      BY <2>2, <2>5 DEF NoticeSet, Notice, Topic
    <2>7. m.about = id /\ id \notin Property /\ id \notin Event
      BY <2>2, DisjointAssumption DEF Notice
    <2>8. m.topic = <<action[1], "actions">>
      BY DEF Notice
    <2> HIDE DEF m, e
    <2>9. /\ e.value = d.value
          /\ e.actions = [d.actions EXCEPT ![action] = @ \cup {id}]
          /\ e.uuids = [d.uuids EXCEPT ![id] = action]
          /\ e.deferred = Append(d.deferred, m)
      BY <2>3, <2>4 DEF Done
    <2>10. d.actions \in [Action -> SUBSET Id] /\ d.uuids \in [Id -> Action \cup {None}]
      BY <2>4 DEF Done
    <2>11. /\ e.actions \in [Action -> SUBSET Id]
           /\ e.uuids \in [Id -> Action \cup {None}]
           /\ e.uuids[id] = action
           /\ \A i \in Id : i # id => e.uuids[i] = d.uuids[i]
      BY <2>1, <2>2, <2>9, <2>10
    <2>12. None \notin Action
      BY NoneAssumption
    <2>13. \A i \in Id : d.uuids[i] \in Action => e.uuids[i] = d.uuids[i]
      BY <2>2, <2>11, <2>12
    <2>14. Proper(m, e.uuids)
      BY <2>1, <2>2, <2>7, <2>8, <2>11 DEF Proper
    <2>15. /\ e.deferred \in Seq(NoticeSet)
           /\ \A i \in DOMAIN e.deferred : Proper(e.deferred[i], e.uuids)
           /\ Len(deferred) <= Len(e.deferred)
           /\ \A i \in DOMAIN deferred : e.deferred[i] = deferred[i]
           /\ \A i \in DOMAIN e.deferred : i > Len(deferred) => e.deferred[i].about \notin Event
      <3> DEFINE q == Append(d.deferred, m)
      <3>1. PICK ids : ids = e.uuids
        OBVIOUS
      <3>2. \A i \in Id : d.uuids[i] \in Action => ids[i] = d.uuids[i]
        BY <2>13, <3>1
      <3>3. Proper(m, ids) /\ m.about \notin Event
        BY <2>7, <2>14, <3>1
      <3>4. /\ q \in Seq(NoticeSet)
            /\ \A i \in DOMAIN q : Proper(q[i], ids)
            /\ Len(deferred) <= Len(q)
            /\ \A i \in DOMAIN deferred : q[i] = deferred[i]
            /\ \A i \in DOMAIN q : i > Len(deferred) => q[i].about \notin Event
        <4>1. deferred \in Seq(NoticeSet) /\ d \in Reached /\ q = Append(d.deferred, m)
          OBVIOUS
        <4> HIDE DEF q
        <4>2. \A i \in DOMAIN q : Proper(q[i], ids)
          BY <2>6, <3>2, <3>3, <4>1, NotifyReached
        <4>3. Len(deferred) <= Len(q)
          BY <2>6, <3>2, <3>3, <4>1, NotifyReached
        <4>4. q \in Seq(NoticeSet)
          BY <2>6, <3>2, <3>3, <4>1, NotifyReached
        <4>5. \A i \in DOMAIN deferred : q[i] = deferred[i]
          BY <2>6, <3>2, <3>3, <4>1, NotifyReached
        <4>6. \A i \in DOMAIN q : i > Len(deferred) => q[i].about \notin Event
          BY <2>6, <3>2, <3>3, <4>1, NotifyReached
        <4> QED
          BY <4>2, <4>3, <4>4, <4>5, <4>6
      <3> HIDE DEF q
      <3>5. e.deferred = q
        BY <2>9 DEF q
      <3> QED
        BY <3>1, <3>4, <3>5
    <2>16. e \in Done
      <3>1. DOMAIN e = DOMAIN d
        BY <2>3
      <3> QED
        BY <2>3, <2>4, <2>9, <2>11, <2>15, <3>1 DEF Done
    <2>17. ASSUME NEW p \in Property
           PROVE  /\ LatestIs(e.deferred, p, e.value[p])
                  /\ Silent(e.deferred, p) => e.value[p] = value[p]
                  /\ e.value[p] # Initial[p] => p \notin ReadOnly /\ e.value[p] \in Allowed[p]
      <3>1. m.about # p
        BY <2>7
      <3>2. d.deferred \in Seq(NoticeSet)
        BY <2>4 DEF Done
      <3>3. /\ \A v : LatestIs(d.deferred, p, v) => LatestIs(Append(d.deferred, m), p, v)
            /\ Silent(Append(d.deferred, m), p) <=> Silent(d.deferred, p)
        BY <2>6, <3>1, <3>2, AppendTold
      <3>4. /\ LatestIs(d.deferred, p, d.value[p])
            /\ Silent(d.deferred, p) => d.value[p] = value[p]
            /\ d.value[p] # Initial[p] => p \notin ReadOnly /\ d.value[p] \in Allowed[p]
        BY DEF Reached, Progress
      <3> QED
        BY <2>9, <3>3, <3>4
    <2>18. \A a \in Action, i \in Id : i \in d.actions[a] => d.uuids[i] = a
      BY DEF Reached, Progress
    <2>19. \A a \in Action, i \in Id : i \in e.actions[a] => e.uuids[i] = a
      <3> SUFFICES ASSUME NEW a \in Action, NEW i \in Id, i \in e.actions[a]
                   PROVE  e.uuids[i] = a
        OBVIOUS
      <3>1. CASE i = id
        BY <2>1, <2>2, <2>9, <2>10, <2>11, <2>12, <2>18, <3>1
      <3>2. CASE i # id
        BY <2>9, <2>10, <2>11, <2>18, <3>2
      <3> QED
        BY <3>1, <3>2
    <2>20. \A i \in Id : uuids[i] # None => e.uuids[i] = uuids[i]
      <3>1. \A i \in Id : uuids[i] # None => d.uuids[i] = uuids[i]
        BY DEF Reached, Progress
      <3> QED
        BY <2>2, <2>11, <3>1
    <2>21. Progress(e)
      BY <2>15, <2>17, <2>19, <2>20 DEF Progress
    <2> QED
      BY <2>16, <2>21 DEF Reached, e
  <1> QED
    BY <1>1, <1>2

\* So both kinds of objects lead to what a handler may reach, and so does one entry.
LEMMA SetEachReached ==
    ASSUME TypeOK, ValuesStayAllowed, TopicInv, ToldInv, NEW t, NEW entries \in PropertyObjects
    PROVE  SetEach(Now, t, entries) \in Reached
  <1>1. entries \in Seq(Range(entries))
    BY ObjectAssumption
  <1>2. \A d \in Reached, k \in DOMAIN entries :
            SetProperty(d, <<t, entries[k].name>>, entries[k].json) \in Reached
    BY SetPropertyReached
  <1>3. Now \in Reached
    BY NowIsReached
  <1> QED
    BY <1>1, <1>2, <1>3, SetEachKeeps

\* ... and performing actions.
LEMMA PerformEachReached ==
    ASSUME TypeOK, ValuesStayAllowed, TopicInv, ToldInv, NEW t, NEW entries \in ActionObjects
    PROVE  PerformEach(Now, t, entries) \in Reached
  <1>1. entries \in Seq(Range(entries))
    BY ObjectAssumption
  <1>2. deferred \in Seq(NoticeSet)
    BY DEF TypeOK
  <1>3. \A d \in Reached, k \in DOMAIN entries :
            PerformAction(d, <<t, entries[k].name>>, entries[k].valid) \in Reached
    BY <1>2, PerformActionReached
  <1>4. Now \in Reached
    BY NowIsReached
  <1> QED
    BY <1>1, <1>3, <1>4, PerformEachKeeps

---------------------------------------------------------------------------------
(* The steps *)

\* The four parts of the invariant about values and their notices.
Parts == TypeOK /\ ValuesStayAllowed /\ TopicInv /\ ToldInv

\* Sockets hear nothing but errors, subscribe to topics of their thing, and stay open.
Errors ==
    /\ UNCHANGED open
    /\ heard' \in [Socket -> Seq(NoticeSet)]
    /\ \A s \in Socket :
          /\ Len(heard[s]) <= Len(heard'[s])
          /\ \A i \in DOMAIN heard[s] : heard'[s][i] = heard[s][i]
          /\ \A i \in DOMAIN heard'[s] : i > Len(heard[s]) => heard'[s][i] = Error
          /\ open[s] = None => heard'[s] = <<>>
Subscriptions ==
    /\ topics' \in [Socket -> SUBSET Topic]
    /\ \A s \in Socket : /\ topics[s] \subseteq topics'[s]
                         /\ \A topic \in topics'[s] : topic[1] = open[s]
                         /\ open[s] = None => topics'[s] = {}

\* A step of a handler, or one that changes no more than a handler may.
HandlerStep == /\ \E d \in Reached : Finish(d)
               /\ Errors /\ Subscriptions
               /\ UNCHANGED eventVars

\* A value that stays is no change.
LEMMA NothingChanged ==
    ASSUME Parts, NEW d, d.value = value
    PROVE  changed = [s \in Socket |-> IF open[s] = None THEN {}
                         ELSE changed[s] \cup {p \in Property : d.value[p] # value[p]}]
  <1>1. changed \in [Socket -> SUBSET Property] /\ \A s \in Socket : open[s] = None => changed[s] = {}
    BY DEF Parts, TypeOK, ToldInv
  <1>2. \A s \in Socket : changed[s] = IF open[s] = None THEN {}
                      ELSE changed[s] \cup {p \in Property : d.value[p] # value[p]}
    BY <1>1
  <1>3. changed = [s \in Socket |-> changed[s]]
    BY <1>1
  <1> QED
    BY <1>2, <1>3

\* Nothing is done.
LEMMA NothingDone ==
    ASSUME Parts, UNCHANGED handlerVars
    PROVE  \E d \in Reached : Finish(d)
  <1>1. Now \in Reached
    BY NowIsReached DEF Parts
  <1>2. changed = [s \in Socket |-> IF open[s] = None THEN {}
                      ELSE changed[s] \cup {p \in Property : Now.value[p] # value[p]}]
    <2>1. Now.value = value
      BY DEF Now
    <2> HIDE DEF Now
    <2> QED
      BY <2>1, NothingChanged
  <1>3. Finish(Now)
    BY <1>2 DEF Finish, Now, handlerVars
  <1> QED
    BY <1>1, <1>3

\* Nothing is heard, and nothing subscribed to.
LEMMA NothingHeard ==
    ASSUME Parts, UNCHANGED socketVars
    PROVE  Errors /\ Subscriptions
  <1>1. heard \in [Socket -> Seq(NoticeSet)] /\ topics \in [Socket -> SUBSET Topic]
        /\ \A s \in Socket : open[s] = None => topics[s] = {} /\ heard[s] = <<>>
    BY DEF Parts, TypeOK
  <1>2. UNCHANGED <<open, topics, heard>>
    BY DEF socketVars
  <1>3. Errors
    BY <1>1, <1>2 DEF Errors
  <1>4. Subscriptions
    BY <1>1, <1>2 DEF Subscriptions, Parts, TopicInv
  <1> QED
    BY <1>3, <1>4

\* Errors that are sent to a socket that is connected.
LEMMA ErrorsHeard ==
    ASSUME Parts, NEW s \in Socket, open[s] # None, UNCHANGED open, NEW n \in Nat,
           heard' = [heard EXCEPT ![s] = @ \o [i \in 1 .. n |-> Error]]
    PROVE  Errors
  <1> DEFINE e == [i \in 1 .. n |-> Error]
             q == heard[s]
  <1>1. heard \in [Socket -> Seq(NoticeSet)]
        /\ \A t \in Socket : open[t] = None => heard[t] = <<>>
    BY DEF Parts, TypeOK
  <1>2. Error \in NoticeSet
    BY DEF Error, Notice, NoticeSet, Topic
  <1>3. e \in Seq(NoticeSet) /\ Len(e) = n /\ \A i \in 1 .. n : e[i] = Error
    BY <1>2
  <1>4. q \in Seq(NoticeSet)
    BY <1>1
  <1>5. heard'[s] = q \o e /\ \A t \in Socket : t # s => heard'[t] = heard[t]
    BY <1>1
  <1> HIDE DEF e, q
  <1>6. /\ q \o e \in Seq(NoticeSet)
        /\ Len(q) \in Nat /\ Len(q \o e) = Len(q) + n
        /\ DOMAIN q = 1 .. Len(q) /\ DOMAIN (q \o e) = 1 .. Len(q) + n
        /\ \A i \in 1 .. Len(q) : (q \o e)[i] = q[i]
        /\ \A i \in Len(q) + 1 .. Len(q) + n : (q \o e)[i] = e[i - Len(q)]
    BY <1>3, <1>4
  <1>7. \A i \in Len(q) + 1 .. Len(q) + n : (q \o e)[i] = Error
    BY <1>3, <1>6
  <1>8. heard' \in [Socket -> Seq(NoticeSet)]
    <2>1. heard' = [heard EXCEPT ![s] = q \o e]
      BY DEF q, e
    <2> QED
      BY <1>1, <1>6, <2>1
  <1>9. ASSUME NEW t \in Socket
        PROVE  /\ Len(heard[t]) <= Len(heard'[t])
               /\ \A i \in DOMAIN heard[t] : heard'[t][i] = heard[t][i]
               /\ \A i \in DOMAIN heard'[t] : i > Len(heard[t]) => heard'[t][i] = Error
               /\ open[t] = None => heard'[t] = <<>>
    <2>1. CASE t = s
      <3>1. heard[t] = q
        BY <2>1 DEF q
      <3>2. heard'[t] = q \o e
        BY <1>5, <2>1
      <3> QED
        BY <1>6, <1>7, <2>1, <3>1, <3>2
    <2>2. CASE t # s
      <3>1. heard'[t] = heard[t] /\ heard[t] \in Seq(NoticeSet)
        BY <1>1, <1>5, <2>2
      <3> QED
        BY <1>1, <3>1
    <2> QED
      BY <2>1, <2>2
  <1> QED
    BY <1>8, <1>9 DEF Errors

\* Removing an action only takes it out of what is stored.
LEMMA DeleteReached ==
    ASSUME Parts, NEW action \in Action, NEW id
    PROVE  [Now EXCEPT !.actions[action] = @ \ {id}] \in Reached
  <1> DEFINE e == [Now EXCEPT !.actions[action] = @ \ {id}]
  <1>1. Now \in Reached
    BY NowIsReached DEF Parts
  <1>2. Now \in Done /\ Progress(Now)
    BY <1>1 DEF Reached
  <1>3. /\ e.value = Now.value /\ e.uuids = Now.uuids /\ e.deferred = Now.deferred
        /\ e.actions = [Now.actions EXCEPT ![action] = @ \ {id}]
        /\ DOMAIN e = DOMAIN Now
    BY <1>2 DEF Done
  <1>4. Now.actions \in [Action -> SUBSET Id]
    BY <1>2 DEF Done
  <1>5. e.actions \in [Action -> SUBSET Id]
    BY <1>3, <1>4
  <1>6. \A a \in Action, i \in Id : i \in e.actions[a] => i \in Now.actions[a]
    BY <1>3, <1>4
  <1>7. e \in Done
    BY <1>2, <1>5 DEF Done
  <1> HIDE DEF e
  <1>8. Progress(e)
    BY <1>2, <1>3, <1>6 DEF Progress
  <1> QED
    BY <1>7, <1>8 DEF Reached, e

\* What a step may be, as far as values, actions, notices and sockets are concerned.
LEMMA StepKinds ==
    ASSUME Parts, [Next]_vars
    PROVE  \/ HandlerStep
           \/ \E s \in Socket, t \in Thing : Open(s, t)
           \/ \E s \in Socket : Close(s)
           \/ \E t \in Emitter, e \in Event : AddEvent(t, e)
           \/ \E t \in Emitter : EventNotify(t)
           \/ Publish
  <1>1. ASSUME UNCHANGED <<handlerVars, socketVars, eventVars>>
        PROVE  HandlerStep
    BY <1>1, NothingDone, NothingHeard DEF HandlerStep
  <1>2. ASSUME NEW d \in Reached, Finish(d), UNCHANGED <<socketVars, eventVars>>
        PROVE  HandlerStep
    BY <1>2, NothingHeard DEF HandlerStep
  <1>3. Now \in Reached /\ deferred \in Seq(NoticeSet) /\ TypeOK
    BY NowIsReached DEF Parts, TypeOK
  <1>4. ASSUME NEW c \in Client, HttpRequest(c)
        PROVE  HandlerStep
    <2>1. CASE \E status \in Answers : Answer(c, status)
      BY <1>1, <2>1 DEF Answer
    <2>2. CASE \E action \in GetTargets, id \in Id : GetAction(c, action, id)
      BY <1>1, <2>2 DEF GetAction
    <2>3. CASE \E p \in PutTargets : PutHead(c, p)
      BY <1>1, <2>3 DEF PutHead, RequestHead
    <2>4. CASE \E target \in PostTargets : PostHead(c, target)
      BY <1>1, <2>4 DEF PostHead, RequestHead
    <2>5. CASE BodyPiece(c)
      BY <1>1, <2>5 DEF BodyPiece
    <2>6. CASE BadBody(c)
      BY <1>1, <2>6 DEF BadBody, BodyEnds
    <2>7. ASSUME NEW v \in Json, PutBody(c, v)
          PROVE  HandlerStep
      <3>1. SetProperty(Now, body[c].target, v) \in Reached
        BY <1>3, SetPropertyReached
      <3> QED
        BY <1>2, <2>7, <3>1 DEF PutBody, BodyEnds
    <2>8. ASSUME NEW name \in ActionNames, NEW valid \in BOOLEAN, PostBody(c, name, valid)
          PROVE  HandlerStep
      <3>1. PerformAction(Now, <<body[c].target[1], name>>, valid) \in Reached
        BY <1>3, PerformActionReached
      <3> QED
        BY <1>2, <2>8, <3>1 DEF PostBody, BodyEnds
    <2>9. CASE Abort(c)
      BY <1>1, <2>9 DEF Abort, BodyEnds
    <2>10. ASSUME NEW action \in DeleteTargets, NEW id \in Id, Delete(c, action, id)
           PROVE  HandlerStep
      <3>1. CASE action \in Action /\ id \in actions[action]
        <4> DEFINE d == [Now EXCEPT !.actions[action] = @ \ {id}]
        <4>1. d \in Reached
          BY <3>1, DeleteReached
        <4>2. UNCHANGED <<value, uuids, deferred, changed, socketVars, eventVars>>
              /\ actions' = [actions EXCEPT ![action] = @ \ {id}]
          BY <2>10, <3>1 DEF Delete
        <4>3. /\ d.value = value /\ d.uuids = uuids /\ d.deferred = deferred
              /\ d.actions = [actions EXCEPT ![action] = @ \ {id}]
          BY DEF Now
        <4> HIDE DEF d
        <4>4. changed = [s \in Socket |-> IF open[s] = None THEN {}
                            ELSE changed[s] \cup {p \in Property : d.value[p] # value[p]}]
          BY <4>3, NothingChanged
        <4>5. Finish(d)
          BY <4>2, <4>3, <4>4 DEF Finish
        <4> QED
          BY <1>2, <4>1, <4>2, <4>5
      <3>2. CASE ~(action \in Action /\ id \in actions[action])
        BY <1>1, <2>10, <3>2 DEF Delete, handlerVars
      <3> QED
        BY <3>1, <3>2
    <2>11. ASSUME NEW name \in ActionNames, PostWithoutThread(c, name)
           PROVE  HandlerStep
      <3>1. PerformAction(Now, <<body[c].target[1], name>>, TRUE) \in Reached
        BY <1>3, PerformActionReached
      <3> QED
        BY <1>2, <2>11, <3>1 DEF PostWithoutThread, BodyEnds
    <2> QED
      BY <1>4, <2>1, <2>2, <2>3, <2>4, <2>5, <2>6, <2>7, <2>8, <2>9, <2>10, <2>11 DEF HttpRequest
  <1>5. ASSUME NEW s \in Socket, Message(s), UNCHANGED topics,
               NEW n \in Nat, heard' = [heard EXCEPT ![s] = @ \o [i \in 1 .. n |-> Error]],
               NEW d \in Reached, Finish(d)
        PROVE  HandlerStep
    <2>1. UNCHANGED <<open, eventVars>> /\ open[s] # None
      BY <1>5 DEF Message
    <2>2. Errors
      BY <1>5, <2>1, ErrorsHeard
    <2>3. Subscriptions
      BY ZenonT(60), <1>5 DEF Subscriptions, Parts, TypeOK, TopicInv
    <2> QED
      BY <1>5, <2>1, <2>2, <2>3 DEF HandlerStep
  <1>6. ASSUME NEW s \in Socket, WebSocketMessage(s)
        PROVE  HandlerStep
    <2>1. CASE Malformed(s)
      <3>1. \E d \in Reached : Finish(d)
        BY <2>1, NothingDone DEF Malformed
      <3>2. heard' = [heard EXCEPT ![s] = @ \o [i \in 1 .. 1 |-> Error]]
        <4>1. heard[s] \in Seq(NoticeSet)
          BY <1>3 DEF TypeOK
        <4>2. Append(heard[s], Error) = heard[s] \o [i \in 1 .. 1 |-> Error]
          BY <4>1
        <4> QED
          BY <2>1, <4>2 DEF Malformed
      <3> QED
        BY <1>5, <2>1, <3>1, <3>2 DEF Malformed
    <2>2. ASSUME NEW names \in SUBSET EventNames, AddEventSubscription(s, names)
          PROVE  HandlerStep
      <3>1. Message(s) /\ UNCHANGED <<handlerVars, heard>>
        BY <2>2 DEF AddEventSubscription
      <3>2. \E d \in Reached : Finish(d)
        BY <3>1, NothingDone
      <3>3. UNCHANGED <<open, eventVars>> /\ open[s] # None
        BY <3>1 DEF Message
      <3>4. Errors
        BY <1>3, <3>1, <3>3 DEF Errors, TypeOK
      <3>5. Subscriptions
        <4> DEFINE more == {EventTopic(<<open[s], n>>) : n \in names}
        <4>1. topics' = [topics EXCEPT ![s] = @ \cup more]
          BY <2>2 DEF AddEventSubscription
        <4>2. topics \in [Socket -> SUBSET Topic] /\ open[s] \in Thing
          BY <1>3, <3>3 DEF TypeOK
        <4>3. \A topic \in more : topic[1] = open[s] /\ topic \in Topic
          BY <4>2 DEF EventTopic, Topic
        <4> HIDE DEF more
        <4>4. topics' \in [Socket -> SUBSET Topic]
          BY <4>1, <4>2, <4>3
        <4>5. \A t \in Socket : topics'[t] = IF t = s THEN topics[t] \cup more ELSE topics[t]
          BY <4>1, <4>2
        <4>6. \A t \in Socket : /\ \A topic \in topics[t] : topic[1] = open[t]
                                /\ open[t] = None => topics[t] = {}
          BY ZenonT(60), <1>3 DEF TypeOK, Parts, TopicInv
        <4>7. ASSUME NEW t \in Socket
              PROVE  /\ topics[t] \subseteq topics'[t]
                     /\ \A topic \in topics'[t] : topic[1] = open[t]
                     /\ open[t] = None => topics'[t] = {}
          <5>1. CASE t = s
            <6>1. topics'[t] = topics[t] \cup more
              BY <4>5, <5>1
            <6>2. \A topic \in topics'[t] : topic \in topics[t] \/ topic \in more
              BY <6>1
            <6>3. \A topic \in topics'[t] : topic[1] = open[t]
              BY <4>3, <4>6, <5>1, <6>2
            <6> QED
              BY <3>3, <5>1, <6>1, <6>3
          <5>2. CASE t # s
            <6>1. topics'[t] = topics[t]
              BY <4>5, <5>2
            <6> QED
              BY <4>6, <6>1
          <5> QED
            BY <5>1, <5>2
        <4> QED
          BY <4>4, <4>7 DEF Subscriptions
      <3> QED
        BY <3>2, <3>3, <3>4, <3>5 DEF HandlerStep
    <2>3. ASSUME NEW entries \in PropertyObjects, SetProperties(s, entries)
          PROVE  HandlerStep
      <3> DEFINE refused == {k \in DOMAIN entries :
                                Refused(<<open[s], entries[k].name>>, entries[k].json)}
      <3>1. SetEach(Now, open[s], entries) \in Reached
        BY SetEachReached DEF Parts
      <3>2. Cardinality(refused) \in Nat
        <4>1. DOMAIN entries = 1 .. Len(entries) /\ Len(entries) \in Nat
          BY ObjectAssumption
        <4>2. IsFiniteSet(1 .. Len(entries))
          BY <4>1, FS_Interval
        <4>3. refused \in SUBSET (1 .. Len(entries))
          BY <4>1
        <4> HIDE DEF refused
        <4>4. IsFiniteSet(refused)
          BY <4>2, <4>3, FS_Subset
        <4> QED
          BY <4>4, FS_CardinalityType
      <3>3. /\ Message(s) /\ UNCHANGED topics /\ Finish(SetEach(Now, open[s], entries))
            /\ heard' = [heard EXCEPT ![s] = @ \o [i \in 1 .. Cardinality(refused) |-> Error]]
        BY <2>3 DEF SetProperties
      <3> HIDE DEF refused
      <3> QED
        BY <1>5, <3>1, <3>2, <3>3
    <2>4. ASSUME NEW entries \in ActionObjects, RequestActions(s, entries)
          PROVE  HandlerStep
      <3>1. PerformEach(Now, open[s], entries) \in Reached
        BY PerformEachReached DEF Parts
      <3>2. UNCHANGED <<socketVars, eventVars>> /\ Finish(PerformEach(Now, open[s], entries))
        BY <2>4 DEF RequestActions, Message, socketVars
      <3> QED
        BY <1>2, <3>1, <3>2
    <2> QED
      BY <1>6, <2>1, <2>2, <2>3, <2>4 DEF WebSocketMessage
  <1>7. CASE UNCHANGED vars
    BY <1>1, <1>7 DEF vars
  <1> QED
    BY <1>4, <1>6, <1>7 DEF Next, EmitEvent

---------------------------------------------------------------------------------
(* Typing *)

\* The statuses there are.
Status == {0, 200, 201, 204, 301, 400, 403, 404, 405}

\* What a client is answered, sends and has begun is typed.
LEMMA ClientStep ==
    ASSUME TypeOK, [Next]_vars
    PROVE  /\ body' \in [Client -> {None} \cup Upload]
           /\ reply' \in Status
           /\ requests' \in 0 .. MaxRequests
  <1>1. body \in [Client -> {None} \cup Upload] /\ reply \in Status /\ requests \in 0 .. MaxRequests
    BY DEF TypeOK, Status
  <1>2. ASSUME BeginRequest
        PROVE  requests' \in 0 .. MaxRequests
    BY <1>1, <1>2, NumberAssumption DEF BeginRequest
  <1>3. 0 \in Status
    BY DEF Status
  <1>4. \A d : StatusOf(d) \in Status
    BY DEF StatusOf, Status
  <1>5. ASSUME NEW c \in Client, HttpRequest(c)
        PROVE  /\ body' \in [Client -> {None} \cup Upload]
               /\ reply' \in Status
               /\ requests' \in 0 .. MaxRequests
    <2>1. ASSUME NEW status \in Answers, Answer(c, status)
          PROVE  /\ reply' \in Status /\ UNCHANGED body /\ BeginRequest
      <3>1. (\E d : status = StatusOf(d)) \/ status \in {403, 404}
        BY ZenonT(60) DEF Answers
      <3>2. {403, 404} \subseteq Status
        BY DEF Status
      <3> QED
        BY <1>4, <2>1, <3>1, <3>2 DEF Answer, Reply
    <2>2. ASSUME NEW action \in GetTargets, NEW id \in Id, GetAction(c, action, id)
          PROVE  /\ reply' \in Status /\ UNCHANGED body /\ BeginRequest
      BY <2>2 DEF GetAction, Reply, Status
    <2>3. ASSUME NEW method, NEW target, RequestHead(c, method, target),
                 [method |-> method, target |-> target] \in Upload
          PROVE  /\ body' \in [Client -> {None} \cup Upload] /\ reply' \in Status /\ BeginRequest
      BY <1>1, <1>3, <2>3 DEF RequestHead, NoReply
    <2>4. ASSUME NEW p \in PutTargets, PutHead(c, p)
          PROVE  /\ body' \in [Client -> {None} \cup Upload] /\ reply' \in Status /\ BeginRequest
      <3>1. p \in Property
        BY DEF PutTargets
      <3>2. [method |-> "PUT", target |-> p] \in Upload
        BY <3>1 DEF Upload
      <3> QED
        BY <2>3, <2>4, <3>2 DEF PutHead
    <2>5. ASSUME NEW target \in PostTargets, PostHead(c, target)
          PROVE  /\ body' \in [Client -> {None} \cup Upload] /\ reply' \in Status /\ BeginRequest
      <3>1. [method |-> "POST", target |-> target] \in Upload
        BY DEF Upload
      <3> QED
        BY <2>3, <2>5, <3>1 DEF PostHead
    <2>6. CASE BodyPiece(c)
      BY <1>1, <1>3, <2>6 DEF BodyPiece, NoReply
    <2>7. ASSUME BodyEnds(c)
          PROVE  body' \in [Client -> {None} \cup Upload] /\ UNCHANGED requests
      BY <1>1, <2>7 DEF BodyEnds
    <2>8. ASSUME BadBody(c) \/ Abort(c) \/ (\E v \in Json : PutBody(c, v))
                 \/ (\E name \in ActionNames, valid \in BOOLEAN : PostBody(c, name, valid))
                 \/ \E name \in ActionNames : PostWithoutThread(c, name)
          PROVE  BodyEnds(c) /\ reply' \in Status
      <3>1. CASE BadBody(c) \/ Abort(c)
        BY <3>1 DEF BadBody, Abort, Reply, NoReply, Status
      <3>2. CASE \E v \in Json : PutBody(c, v)
        <4>1. PICK v \in Json : PutBody(c, v)
          BY <3>2
        <4>2. reply' = IF Refused(body[c].target, v) THEN 400 ELSE 200
          BY <4>1 DEF PutBody, Reply
        <4> QED
          BY <4>1, <4>2 DEF PutBody, Status
      <3>3. CASE \E name \in ActionNames, valid \in BOOLEAN : PostBody(c, name, valid)
        <4>1. PICK name \in ActionNames, valid \in BOOLEAN : PostBody(c, name, valid)
          BY <3>3
        <4>2. reply' = IF actions' = actions THEN 400 ELSE 201
          BY <4>1 DEF PostBody, Reply
        <4> QED
          BY <4>1, <4>2 DEF PostBody, Status
      <3>4. CASE \E name \in ActionNames : PostWithoutThread(c, name)
        BY <3>4 DEF PostWithoutThread, Reply, Status
      <3> QED
        BY <2>8, <3>1, <3>2, <3>3, <3>4
    <2>9. ASSUME NEW action \in DeleteTargets, NEW id \in Id, Delete(c, action, id)
          PROVE  /\ reply' \in Status /\ UNCHANGED body /\ BeginRequest
      BY <2>9 DEF Delete, Reply, Status
    <2> QED
      BY <1>1, <1>2, <1>5, <2>1, <2>2, <2>4, <2>5, <2>6, <2>7, <2>8, <2>9 DEF HttpRequest
  <1>6. ASSUME NEW s \in Socket, WebSocketMessage(s)
        PROVE  NoReply /\ BeginRequest /\ UNCHANGED body
    BY <1>6 DEF WebSocketMessage, Malformed, AddEventSubscription, SetProperties,
                RequestActions, Message
  <1>7. ASSUME \/ \E s \in Socket, t \in Thing : Open(s, t)
               \/ \E s \in Socket : Close(s)
               \/ \E t \in Emitter : EmitEvent(t)
               \/ Publish
        PROVE  NoReply /\ UNCHANGED <<body, requests>>
    BY <1>7 DEF Open, Close, EmitEvent, AddEvent, EventNotify, Publish
  <1>8. CASE UNCHANGED vars
    BY <1>1, <1>8 DEF vars
  <1> QED
    BY <1>1, <1>2, <1>3, <1>5, <1>6, <1>7, <1>8 DEF Next, NoReply

\* What a notice that is delivered leaves.
LEMMA DeliverTypes ==
    ASSUME heard \in [Socket -> Seq(NoticeSet)], NEW m \in NoticeSet, Deliver(m)
    PROVE  heard' \in [Socket -> Seq(NoticeSet)]
  <1>1. \A s \in Socket : heard[s] \in Seq(NoticeSet) /\ Append(heard[s], m) \in Seq(NoticeSet)
    OBVIOUS
  <1> QED
    BY <1>1 DEF Deliver

\* Every step keeps the types.
LEMMA TypeStep == Parts /\ [Next]_vars => TypeOK'
  <1> SUFFICES ASSUME Parts, [Next]_vars
               PROVE  TypeOK'
    OBVIOUS
  <1>0. TypeOK
    BY DEF Parts
  <1>1. /\ body' \in [Client -> {None} \cup Upload]
        /\ reply' \in {0, 200, 201, 204, 301, 400, 403, 404, 405}
        /\ requests' \in 0 .. MaxRequests
    BY <1>0, ClientStep DEF Status
  <1> DEFINE Handlers == /\ value \in [Property -> Int]
                         /\ actions \in [Action -> SUBSET Id]
                         /\ uuids \in [Id -> Action \cup {None}]
                         /\ \A action \in Action, id \in Id :
                               id \in actions[action] => uuids[id] = action
                         /\ deferred \in Seq(NoticeSet)
                         /\ changed \in [Socket -> SUBSET Property]
             Events == /\ events \in [Thing -> Seq(Event)]
                       /\ \A t \in Thing : Len(events[t]) <= MaxSize
                       /\ emitting \in [Emitter -> Event \cup {None}]
                       /\ emitted \in Seq(Event)
                       /\ emitter \in [Event -> Emitter \cup {None}]
             Sockets == /\ open \in [Socket -> Thing \cup {None}]
                        /\ topics \in [Socket -> SUBSET Topic]
                        /\ heard \in [Socket -> Seq(NoticeSet)]
                        /\ \A s \in Socket : open[s] = None => topics[s] = {} /\ heard[s] = <<>>
  <1>2. Handlers /\ Events /\ Sockets
    BY <1>0 DEF TypeOK
  <1>3. SUFFICES Handlers' /\ Events' /\ Sockets'
    <2> HIDE DEF Handlers, Events, Sockets
    <2>1. ASSUME Handlers', Events', Sockets'
          PROVE  TypeOK'
      <3> USE DEF Handlers, Events, Sockets
      <3> QED
        BY <1>1, <2>1 DEF TypeOK
    <2> QED
      BY <2>1
  <1>4. CASE HandlerStep
    <2>1. Events'
      BY <1>2, <1>4 DEF HandlerStep, eventVars
    <2>2. Sockets'
      BY <1>2, <1>4 DEF HandlerStep, Errors, Subscriptions
    <2>3. Handlers'
      <3>1. PICK d \in Reached : Finish(d)
        BY <1>4 DEF HandlerStep
      <3>2. d \in Done /\ \A action \in Action, i \in Id : i \in d.actions[action] => d.uuids[i] = action
        BY DEF Reached, Progress
      <3>3. /\ value' = d.value /\ actions' = d.actions
            /\ uuids' = d.uuids /\ deferred' = d.deferred
            /\ changed' \in [Socket -> SUBSET Property]
        BY <1>2, <3>1 DEF Finish
      <3> QED
        BY <3>2, <3>3 DEF Done
    <2> QED
      BY <2>1, <2>2, <2>3
  <1>5. ASSUME NEW s \in Socket, NEW t \in Thing, Open(s, t)
        PROVE  Handlers' /\ Events' /\ Sockets'
    <2>1. Handlers' /\ Events'
      BY <1>2, <1>5 DEF Open, handlerVars, eventVars
    <2>2. {<<t, "properties">>, <<t, "actions">>} \subseteq Topic
      BY DEF Topic
    <2>3. Sockets'
      BY <1>2, <1>5, <2>2, NoneAssumption DEF Open
    <2> QED
      BY <2>1, <2>3
  <1>6. ASSUME NEW s \in Socket, Close(s)
        PROVE  Handlers' /\ Events' /\ Sockets'
    <2>1. Handlers' /\ Events'
      BY <1>2, <1>6 DEF Close, eventVars
    <2>2. Sockets'
      BY <1>2, <1>6 DEF Close
    <2> QED
      BY <2>1, <2>2
  <1>7. ASSUME NEW t \in Emitter, NEW e \in Event, AddEvent(t, e)
        PROVE  Handlers' /\ Events' /\ Sockets'
    <2>1. Handlers' /\ Sockets'
      BY <1>2, <1>7 DEF AddEvent, handlerVars, socketVars
    <2>2. NameOf[e][1] \in Thing
      BY ThingAssumption
    <2> DEFINE q == events[NameOf[e][1]]
    <2>3. q \in Seq(Event) /\ Len(q) <= MaxSize
      BY <1>2, <2>2
    <2>4. LatestEvents(Append(q, e)) \in Seq(Event) /\ Len(LatestEvents(Append(q, e))) <= MaxSize
      <3> HIDE DEF q
      <3> QED
        BY <2>3, NumberAssumption DEF LatestEvents
    <2>5. events' = [events EXCEPT ![NameOf[e][1]] = LatestEvents(Append(q, e))]
      BY <1>7 DEF AddEvent
    <2> HIDE DEF q
    <2>6. events' \in [Thing -> Seq(Event)] /\ \A thing \in Thing : Len(events'[thing]) <= MaxSize
      BY <1>2, <2>2, <2>4, <2>5
    <2>7. /\ emitting' \in [Emitter -> Event \cup {None}]
          /\ emitted' \in Seq(Event)
          /\ emitter' \in [Event -> Emitter \cup {None}]
      BY <1>2, <1>7 DEF AddEvent
    <2> QED
      BY <2>1, <2>6, <2>7
  <1>8. ASSUME NEW t \in Emitter, EventNotify(t)
        PROVE  Handlers' /\ Events' /\ Sockets'
    <2>1. Sockets'
      BY <1>2, <1>8 DEF EventNotify, socketVars
    <2>2. Events'
      BY <1>2, <1>8 DEF EventNotify
    <2>3. deferred' \in Seq(NoticeSet)
      <3> DEFINE e == emitting[t]
                 m == Notice(EventTopic(NameOf[e]), e, 0)
      <3>1. e \in Event
        BY <1>2, <1>8 DEF EventNotify
      <3>2. NameOf[e] \in Range(NameOf) /\ NameOf[e][1] \in Thing
        BY <3>1, ThingAssumption DEF Range
      <3>3. NameOf[e][2] \in EventNames
        BY <3>2 DEF EventNames
      <3>4. EventTopic(NameOf[e]) \in Topic
        BY <3>2, <3>3 DEF EventTopic, Topic
      <3>5. m \in NoticeSet
        BY <3>1, <3>4 DEF Notice, NoticeSet
      <3>6. deferred' = Append(deferred, m) \/ deferred' = deferred
        BY <1>8 DEF EventNotify
      <3> HIDE DEF m
      <3>7. deferred \in Seq(NoticeSet)
        BY <1>2
      <3>8. Append(deferred, m) \in Seq(NoticeSet)
        BY <3>5, <3>7, AppendNotice
      <3> QED
        BY <3>6, <3>7, <3>8
    <2>4. Handlers'
      BY <1>2, <1>8, <2>3 DEF EventNotify
    <2> QED
      BY <2>1, <2>2, <2>4
  <1>9. CASE Publish
    <2>1. deferred # <<>> /\ deferred' = Tail(deferred) /\ Deliver(deferred[1])
      BY <1>9 DEF Publish
    <2>2. deferred' \in Seq(NoticeSet) /\ deferred[1] \in NoticeSet
      BY <1>2, <2>1, TailNotice
    <2>3. Handlers' /\ Events'
      BY <1>2, <1>9, <2>2 DEF Publish, eventVars
    <2>4. heard' \in [Socket -> Seq(NoticeSet)]
      BY <1>2, <2>1, <2>2, DeliverTypes
    <2>5. \A s \in Socket : open[s] = None => heard'[s] = heard[s]
      BY <1>2, <2>1 DEF Deliver
    <2>6. Sockets'
      BY <1>2, <1>9, <2>4, <2>5 DEF Publish
    <2> QED
      BY <2>3, <2>6
  <1> QED
    BY <1>4, <1>5, <1>6, <1>7, <1>8, <1>9, StepKinds

---------------------------------------------------------------------------------
(* Values and refusals *)

\* Every step keeps the values allowed.
LEMMA ValueStep == Parts /\ [Next]_vars => ValuesStayAllowed'
  <1> SUFFICES ASSUME Parts, [Next]_vars
               PROVE  ValuesStayAllowed'
    OBVIOUS
  <1>1. CASE HandlerStep
    <2>1. PICK d \in Reached : Finish(d)
      BY <1>1 DEF HandlerStep
    <2>2. value' = d.value /\ Progress(d)
      BY <2>1 DEF Finish, Reached
    <2> QED
      BY <2>2 DEF Progress, ValuesStayAllowed
  <1>2. CASE UNCHANGED value
    BY <1>2 DEF Parts, ValuesStayAllowed
  <1>3. ASSUME \/ \E s \in Socket, t \in Thing : Open(s, t)
               \/ \E s \in Socket : Close(s)
               \/ \E t \in Emitter, e \in Event : AddEvent(t, e)
               \/ \E t \in Emitter : EventNotify(t)
               \/ Publish
        PROVE  UNCHANGED value
    BY <1>3 DEF Open, Close, AddEvent, EventNotify, Publish, handlerVars
  <1> QED
    BY <1>1, <1>2, <1>3, StepKinds

\* What a POST that finds and performs no action has done: nothing, since an action that
\* is performed is stored under a new id.
LEMMA NothingPerformed ==
    ASSUME Parts, NEW action, NEW valid,
           PerformAction(Now, action, valid).actions = actions
    PROVE  PerformAction(Now, action, valid) = Now
  <1> SUFFICES ASSUME PerformAction(Now, action, valid) # Now
               PROVE  FALSE
    OBVIOUS
  <1> DEFINE id == FreshId(Now)
  <1>1. Now.uuids = uuids /\ Now.actions = actions
    BY DEF Now
  <1>2. action \in Action /\ ~NoIdLeft(Now)
    BY DEF PerformAction
  <1>3. id \in Id /\ uuids[id] = None
    BY <1>1, <1>2 DEF NoIdLeft, FreshId
  <1>4. /\ actions \in [Action -> SUBSET Id]
        /\ id \in actions[action] => uuids[id] = action
    BY <1>2, <1>3 DEF Parts, TypeOK
  <1>5. Now.actions \in [Action -> SUBSET Id] /\ DOMAIN Now = {"value", "actions", "uuids", "deferred"}
    BY <1>1, <1>4 DEF Now
  <1>6. PerformAction(Now, action, valid).actions = [actions EXCEPT ![action] = @ \cup {id}]
    BY <1>2 DEF PerformAction, Now
  <1>7. id \in actions[action]
    BY <1>2, <1>4, <1>6
  <1> QED
    BY <1>2, <1>3, <1>4, <1>7, NoneAssumption

\* The one refusal that is too late.
NoThread == \E c \in Client, name \in ActionNames : PostWithoutThread(c, name)

\* A step that answers with an error changes nothing, but for that one.
LEMMA RefusalStep ==
    ASSUME Parts, [Next]_vars, reply' >= 400, ~NoThread
    PROVE  UNCHANGED vars \/ UNCHANGED <<handlerVars, eventVars>>
  <1>1. ASSUME NEW d, d.value = value, d.actions = actions, d.uuids = uuids,
               d.deferred = deferred, Finish(d)
        PROVE  UNCHANGED handlerVars
    <2>1. changed' = changed
      BY <1>1, NothingChanged DEF Finish
    <2> QED
      BY <1>1, <2>1 DEF Finish, handlerVars
  <1>2. /\ Now.value = value /\ Now.actions = actions
        /\ Now.uuids = uuids /\ Now.deferred = deferred
    BY DEF Now
  <1>3. ~NoReply
    BY DEF NoReply
  <1>4. ASSUME NEW c \in Client, HttpRequest(c)
        PROVE  UNCHANGED <<handlerVars, eventVars>>
    <2>1. ASSUME \/ \E status \in Answers : Answer(c, status)
                 \/ \E action \in GetTargets, id \in Id : GetAction(c, action, id)
                 \/ BadBody(c)
          PROVE  UNCHANGED <<handlerVars, eventVars>>
      BY <2>1 DEF Answer, GetAction, BadBody, BodyEnds
    <2>2. ASSUME \/ \E p \in PutTargets : PutHead(c, p)
                 \/ \E target \in PostTargets : PostHead(c, target)
                 \/ BodyPiece(c)
                 \/ Abort(c)
          PROVE  FALSE
      BY <1>3, <2>2 DEF PutHead, PostHead, RequestHead, BodyPiece, Abort
    <2>3. ASSUME NEW v \in Json, PutBody(c, v)
          PROVE  UNCHANGED <<handlerVars, eventVars>>
      <3> DEFINE p == body[c].target
      <3>1. reply' = IF Refused(p, v) THEN 400 ELSE 200
        BY <2>3 DEF PutBody, Reply
      <3>2. Refused(p, v)
        BY <3>1
      <3>3. SetProperty(Now, p, v) = Now
        BY <3>2 DEF Refused, SetProperty
      <3>4. Finish(SetProperty(Now, p, v)) /\ UNCHANGED eventVars
        BY <2>3 DEF PutBody, BodyEnds
      <3>5. Finish(Now)
        BY <3>3, <3>4
      <3> HIDE DEF Now
      <3> QED
        BY <1>1, <1>2, <3>4, <3>5
    <2>4. ASSUME NEW name \in ActionNames, NEW valid \in BOOLEAN, PostBody(c, name, valid)
          PROVE  UNCHANGED <<handlerVars, eventVars>>
      <3> DEFINE d == PerformAction(Now, <<body[c].target[1], name>>, valid)
      <3>1. reply' = IF actions' = actions THEN 400 ELSE 201
        BY <2>4 DEF PostBody, Reply
      <3>2. actions' = actions
        BY <3>1
      <3>3. Finish(d) /\ UNCHANGED eventVars
        BY <2>4 DEF PostBody, BodyEnds
      <3>4. d.actions = actions
        BY <3>2, <3>3 DEF Finish
      <3>5. d = Now
        BY <3>4, NothingPerformed
      <3>6. Finish(Now)
        BY <3>3, <3>5
      <3> HIDE DEF Now, d
      <3> QED
        BY <1>1, <1>2, <3>3, <3>6
    <2>5. ASSUME NEW action \in DeleteTargets, NEW id \in Id, Delete(c, action, id)
          PROVE  UNCHANGED <<handlerVars, eventVars>>
      <3>1. reply' # 204
        BY <2>5 DEF Delete, Reply
      <3> QED
        BY <2>5, <3>1 DEF Delete, Reply, handlerVars
    <2>6. ~ \E name \in ActionNames : PostWithoutThread(c, name)
      BY DEF NoThread
    <2> QED
      BY <1>4, <2>1, <2>2, <2>3, <2>4, <2>5, <2>6 DEF HttpRequest
  <1>5. ASSUME NEW s \in Socket, WebSocketMessage(s)
        PROVE  NoReply
    BY <1>5 DEF WebSocketMessage, Malformed, AddEventSubscription, SetProperties,
                RequestActions, Message
  <1>6. ASSUME \/ \E s \in Socket, t \in Thing : Open(s, t)
               \/ \E s \in Socket : Close(s)
               \/ \E t \in Emitter : EmitEvent(t)
               \/ Publish
        PROVE  NoReply
    BY <1>6 DEF Open, Close, EmitEvent, AddEvent, EventNotify, Publish
  <1> QED
    BY <1>3, <1>4, <1>5, <1>6 DEF Next

---------------------------------------------------------------------------------
(* Topics *)

\* Every step keeps what is waiting, subscribed to and heard in its thing's topics.
LEMMA TopicStep == Parts /\ [Next]_vars => TopicInv'
  <1> SUFFICES ASSUME Parts, [Next]_vars
               PROVE  TopicInv'
    OBVIOUS
  <1>1. TypeOK /\ TopicInv
    BY DEF Parts
  <1>2. deferred \in Seq(NoticeSet) /\ open \in [Socket -> Thing \cup {None}]
        /\ heard \in [Socket -> Seq(NoticeSet)] /\ topics \in [Socket -> SUBSET Topic]
        /\ \A s \in Socket : open[s] = None => topics[s] = {} /\ heard[s] = <<>>
    BY <1>1 DEF TypeOK
  <1> DEFINE Heard(s) == \A i \in DOMAIN heard[s] :
                             \/ heard[s][i] = Error
                             \/ Proper(heard[s][i], uuids) /\ heard[s][i].topic[1] = open[s]
             Subscribed(s) == /\ \A topic \in topics[s] : topic[1] = open[s]
                              /\ open[s] # None => <<open[s], "properties">> \in topics[s]
             Waiting == \A i \in DOMAIN deferred : Proper(deferred[i], uuids)
  <1>3. Waiting /\ \A s \in Socket : Heard(s) /\ Subscribed(s)
    BY <1>1 DEF TopicInv
  <1>4. SUFFICES Waiting' /\ \A s \in Socket : Heard(s)' /\ Subscribed(s)'
    BY DEF TopicInv
  <1>5. CASE HandlerStep
    <2>1. PICK d \in Reached : Finish(d)
      BY <1>5 DEF HandlerStep
    <2>2. deferred' = d.deferred /\ uuids' = d.uuids /\ Progress(d)
      BY <2>1 DEF Finish, Reached
    <2>3. Waiting'
      BY <2>2 DEF Progress
    <2>4. \A i \in Id : uuids[i] \in Action => uuids'[i] = uuids[i]
      BY <2>2, NoneAssumption DEF Progress
    <2>5. ASSUME NEW s \in Socket
          PROVE  Heard(s)' /\ Subscribed(s)'
      <3>1. /\ open' = open
            /\ heard'[s] \in Seq(NoticeSet)
            /\ \A i \in DOMAIN heard[s] : heard'[s][i] = heard[s][i]
            /\ \A i \in DOMAIN heard'[s] : i > Len(heard[s]) => heard'[s][i] = Error
        BY <1>5 DEF HandlerStep, Errors
      <3>2. ASSUME NEW i \in DOMAIN heard'[s]
            PROVE  \/ heard'[s][i] = Error
                   \/ Proper(heard'[s][i], uuids') /\ heard'[s][i].topic[1] = open'[s]
        <4>1. CASE i \in DOMAIN heard[s] /\ heard[s][i] # Error
          <5>1. Proper(heard[s][i], uuids) /\ heard[s][i].topic[1] = open[s]
            BY <1>3, <4>1
          <5>2. Proper(heard[s][i], uuids')
            BY <2>4, <5>1, ProperKept
          <5> QED
            BY <3>1, <4>1, <5>1, <5>2
        <4>2. CASE i \notin DOMAIN heard[s]
          <5>1. heard[s] \in Seq(NoticeSet)
            BY <1>2
          <5>2. i > Len(heard[s])
            BY <3>1, <4>2, <5>1
          <5> QED
            BY <3>1, <5>2
        <4> QED
          BY <3>1, <4>1, <4>2
      <3>3. /\ topics[s] \subseteq topics'[s]
            /\ \A topic \in topics'[s] : topic[1] = open[s]
        BY <1>5 DEF HandlerStep, Subscriptions
      <3> QED
        BY <1>3, <3>1, <3>2, <3>3
    <2> QED
      BY <2>3, <2>5
  <1>6. ASSUME NEW s \in Socket, NEW t \in Thing, Open(s, t)
        PROVE  Waiting' /\ \A r \in Socket : Heard(r)' /\ Subscribed(r)'
    <2>1. /\ UNCHANGED <<deferred, uuids, heard>> /\ open[s] = None
          /\ open' = [open EXCEPT ![s] = t]
          /\ topics' = [topics EXCEPT ![s] = {<<t, "properties">>, <<t, "actions">>}]
      BY <1>6 DEF Open, handlerVars
    <2>2. Waiting'
      BY <1>3, <2>1
    <2>3. ASSUME NEW r \in Socket
          PROVE  Heard(r)' /\ Subscribed(r)'
      <3>1. CASE r = s
        <4>1. heard'[r] = <<>> /\ open'[r] = t
          BY <1>2, <2>1, <3>1
        <4>2. topics'[r] = {<<t, "properties">>, <<t, "actions">>}
          BY <1>2, <2>1, <3>1
        <4> QED
          BY <4>1, <4>2
      <3>2. CASE r # s
        <4>1. heard'[r] = heard[r] /\ open'[r] = open[r] /\ topics'[r] = topics[r] /\ uuids' = uuids
          BY <1>2, <2>1, <3>2
        <4> QED
          BY <1>3, <4>1
      <3> QED
        BY <3>1, <3>2
    <2> QED
      BY <2>2, <2>3
  <1>7. ASSUME NEW s \in Socket, Close(s)
        PROVE  Waiting' /\ \A r \in Socket : Heard(r)' /\ Subscribed(r)'
    <2>1. /\ UNCHANGED <<deferred, uuids>>
          /\ open' = [open EXCEPT ![s] = None]
          /\ topics' = [topics EXCEPT ![s] = {}]
          /\ heard' = [heard EXCEPT ![s] = <<>>]
      BY <1>7 DEF Close
    <2>2. Waiting'
      BY <1>3, <2>1
    <2>3. ASSUME NEW r \in Socket
          PROVE  Heard(r)' /\ Subscribed(r)'
      <3>1. CASE r = s
        <4>1. heard'[r] = <<>> /\ open'[r] = None /\ topics'[r] = {}
          BY <1>2, <2>1, <3>1
        <4> QED
          BY <4>1
      <3>2. CASE r # s
        <4>1. heard'[r] = heard[r] /\ open'[r] = open[r] /\ topics'[r] = topics[r] /\ uuids' = uuids
          BY <1>2, <2>1, <3>2
        <4> QED
          BY <1>3, <4>1
      <3> QED
        BY <3>1, <3>2
    <2> QED
      BY <2>2, <2>3
  <1>8. ASSUME NEW t \in Emitter, NEW e \in Event, AddEvent(t, e)
        PROVE  Waiting' /\ \A r \in Socket : Heard(r)' /\ Subscribed(r)'
    BY <1>3, <1>8 DEF AddEvent, handlerVars, socketVars
  <1>9. ASSUME NEW t \in Emitter, EventNotify(t)
        PROVE  Waiting' /\ \A r \in Socket : Heard(r)' /\ Subscribed(r)'
    <2> DEFINE e == emitting[t]
               m == Notice(EventTopic(NameOf[e]), e, 0)
    <2>1. UNCHANGED <<uuids, open, topics, heard>>
      BY <1>9 DEF EventNotify, socketVars
    <2>2. \A r \in Socket : Heard(r)' /\ Subscribed(r)'
      BY <1>3, <2>1
    <2>3. CASE NameOf[e] \notin Available
      BY <1>3, <1>9, <2>1, <2>2, <2>3 DEF EventNotify
    <2>4. CASE NameOf[e] \in Available
      <3>1. e \in Event
        BY <1>1, <1>9 DEF EventNotify, TypeOK
      <3>2. Proper(m, uuids)
        BY <2>4, <3>1 DEF Proper, Notice
      <3>3. deferred' = Append(deferred, m)
        BY <1>9, <2>4 DEF EventNotify
      <3> HIDE DEF m
      <3>4. Waiting'
        BY <1>2, <1>3, <2>1, <3>2, <3>3
      <3> QED
        BY <2>2, <3>4
    <2> QED
      BY <2>3, <2>4
  <1>10. CASE Publish
    <2> DEFINE m == deferred[1]
    <2>1. /\ deferred # <<>> /\ deferred' = Tail(deferred) /\ Deliver(m)
          /\ UNCHANGED <<uuids, open, topics>>
      BY <1>10 DEF Publish
    <2>2. /\ DOMAIN deferred' = 1 .. Len(deferred) - 1
          /\ DOMAIN deferred = 1 .. Len(deferred)
          /\ Len(deferred) \in Nat /\ Len(deferred) > 0
          /\ \A i \in 1 .. Len(deferred) - 1 : deferred'[i] = deferred[i + 1]
          /\ m \in NoticeSet
      BY <1>2, <2>1, TailNotice
    <2>3. Waiting'
      BY <1>3, <2>1, <2>2
    <2>4. Proper(m, uuids)
      BY <1>3, <2>2
    <2> HIDE DEF m
    <2>5. ASSUME NEW s \in Socket
          PROVE  Heard(s)' /\ Subscribed(s)'
      <3>1. Subscribed(s)'
        BY <1>3, <2>1
      <3>2. heard'[s] = IF m.topic \in topics[s] THEN Append(heard[s], m) ELSE heard[s]
        BY <2>1 DEF Deliver
      <3>3. CASE m.topic \notin topics[s]
        <4>1. heard'[s] = heard[s]
          BY <3>2, <3>3
        <4> QED
          BY <1>3, <2>1, <3>1, <4>1
      <3>4. CASE m.topic \in topics[s]
        <4>1. heard'[s] = Append(heard[s], m) /\ heard[s] \in Seq(NoticeSet)
          BY <1>2, <3>2, <3>4
        <4>2. m.topic[1] = open[s]
          BY <1>3, <3>4
        <4>3. ASSUME NEW i \in DOMAIN heard'[s]
              PROVE  \/ heard'[s][i] = Error
                     \/ Proper(heard'[s][i], uuids) /\ heard'[s][i].topic[1] = open[s]
          <5>1. CASE i \in DOMAIN heard[s]
            <6>1. heard'[s][i] = heard[s][i]
              BY <2>2, <4>1, <5>1, AppendNotice
            <6> QED
              BY <1>3, <5>1, <6>1
          <5>2. CASE i \notin DOMAIN heard[s]
            <6>1. heard'[s][i] = m
              BY <2>2, <4>1, <5>2, AppendNotice
            <6> QED
              BY <2>4, <4>2, <6>1
          <5> QED
            BY <5>1, <5>2
        <4> QED
          BY <2>1, <3>1, <4>3
      <3> QED
        BY <3>3, <3>4
    <2> QED
      BY <2>3, <2>5
  <1> QED
    BY <1>5, <1>6, <1>7, <1>8, <1>9, <1>10, StepKinds

---------------------------------------------------------------------------------
(* What listeners were told *)

\* Errors are about no property.
LEMMA ErrorsTell ==
    ASSUME NEW q \in Seq(NoticeSet), NEW r \in Seq(NoticeSet), NEW p \in Property, NEW v,
           Len(q) <= Len(r), \A i \in DOMAIN q : r[i] = q[i],
           \A i \in DOMAIN r : i > Len(q) => r[i] = Error
    PROVE  /\ LatestIs(q, p, v) => LatestIs(r, p, v)
           /\ Silent(r, p) => Silent(q, p)
  <1>1. /\ DOMAIN q = 1 .. Len(q) /\ Len(q) \in Nat
        /\ DOMAIN r = 1 .. Len(r) /\ Len(r) \in Nat
    OBVIOUS
  <1>2. Error.about # p
    BY NoneAssumption DEF Error, Notice
  <1>3. \A i \in DOMAIN r : r[i].about = p => i \in DOMAIN q
    BY <1>1, <1>2
  <1>4. \A i \in DOMAIN q : i \in DOMAIN r
    BY <1>1
  <1>5. ASSUME LatestIs(q, p, v), NEW i \in DOMAIN r, r[i].about = p,
               \A j \in DOMAIN r : j > i => r[j].about # p
        PROVE  r[i].content = v
    <2>1. i \in DOMAIN q /\ q[i] = r[i]
      BY <1>3, <1>5
    <2>2. \A j \in DOMAIN q : j > i => q[j].about # p
      BY <1>4, <1>5
    <2> QED
      BY <1>5, <2>1, <2>2 DEF LatestIs
  <1>6. Silent(r, p) => Silent(q, p)
    BY <1>4 DEF Silent
  <1> QED
    BY <1>5, <1>6 DEF LatestIs

\* Every step keeps what listeners were told or are about to be told.
LEMMA ToldStep == Parts /\ [Next]_vars => ToldInv'
  <1> SUFFICES ASSUME Parts, [Next]_vars
               PROVE  ToldInv'
    OBVIOUS
  <1>1. TypeOK /\ TopicInv /\ ToldInv
    BY DEF Parts
  <1>2. /\ deferred \in Seq(NoticeSet)
        /\ open \in [Socket -> Thing \cup {None}]
        /\ heard \in [Socket -> Seq(NoticeSet)]
        /\ changed \in [Socket -> SUBSET Property]
        /\ \A s \in Socket : open[s] = None => heard[s] = <<>>
    BY <1>1 DEF TypeOK
  <1> DEFINE Closed(s) == open[s] = None => changed[s] = {}
             Knows(s, p) == open[s] = p[1] /\ Silent(deferred, p) =>
                                /\ LatestIs(heard[s], p, value[p])
                                /\ Silent(heard[s], p) => p \notin changed[s]
             Latest(p) == LatestIs(deferred, p, value[p])
  <1>3. /\ \A s \in Socket : Closed(s)
        /\ \A p \in Property : Latest(p)
        /\ \A s \in Socket, p \in Property : Knows(s, p)
    BY <1>1 DEF ToldInv
  <1>4. SUFFICES /\ \A s \in Socket : Closed(s)'
                 /\ \A p \in Property : Latest(p)'
                 /\ \A s \in Socket, p \in Property : Knows(s, p)'
    BY DEF ToldInv
  <1>5. CASE HandlerStep
    <2>1. PICK d \in Reached : Finish(d)
      BY <1>5 DEF HandlerStep
    <2>2. /\ deferred' = d.deferred /\ value' = d.value /\ Progress(d)
          /\ changed' = [s \in Socket |-> IF open[s] = None THEN {}
                            ELSE changed[s] \cup {p \in Property : d.value[p] # value[p]}]
      BY <2>1 DEF Finish, Reached
    <2>3. open' = open
      BY <1>5 DEF HandlerStep, Errors
    <2>4. \A s \in Socket : Closed(s)'
      BY <2>2, <2>3
    <2>5. \A p \in Property : Latest(p)'
      BY <2>2 DEF Progress
    <2>6. ASSUME NEW s \in Socket, NEW p \in Property, open[s] = p[1], Silent(d.deferred, p)
          PROVE  /\ LatestIs(heard'[s], p, d.value[p])
                 /\ Silent(heard'[s], p) => p \notin changed'[s]
      <3>1. d.value[p] = value[p]
        BY <2>2, <2>6 DEF Progress
      <3>2. d.deferred \in Seq(NoticeSet)
        BY DEF Reached, Done
      <3>3. \A i \in DOMAIN deferred : i \in DOMAIN d.deferred /\ d.deferred[i] = deferred[i]
        BY <1>2, <2>2, <3>2 DEF Progress
      <3>4. Silent(deferred, p)
        BY <2>6, <3>3 DEF Silent
      <3>5. LatestIs(heard[s], p, value[p]) /\ (Silent(heard[s], p) => p \notin changed[s])
        BY <1>3, <2>6, <3>4
      <3>6. /\ heard[s] \in Seq(NoticeSet) /\ heard'[s] \in Seq(NoticeSet)
            /\ Len(heard[s]) <= Len(heard'[s])
            /\ \A i \in DOMAIN heard[s] : heard'[s][i] = heard[s][i]
            /\ \A i \in DOMAIN heard'[s] : i > Len(heard[s]) => heard'[s][i] = Error
        BY <1>2, <1>5 DEF HandlerStep, Errors
      <3>7. /\ LatestIs(heard[s], p, value[p]) => LatestIs(heard'[s], p, value[p])
            /\ Silent(heard'[s], p) => Silent(heard[s], p)
        BY <3>6, ErrorsTell
      <3>8. p \notin changed[s] => p \notin changed'[s]
        BY <2>2, <3>1
      <3> QED
        BY <3>1, <3>5, <3>7, <3>8
    <2>7. \A s \in Socket, p \in Property : Knows(s, p)'
      BY <2>2, <2>3, <2>6
    <2> QED
      BY <2>4, <2>5, <2>7
  <1>6. ASSUME NEW s \in Socket, NEW t \in Thing, Open(s, t)
        PROVE  /\ \A r \in Socket : Closed(r)'
               /\ \A p \in Property : Latest(p)'
               /\ \A r \in Socket, p \in Property : Knows(r, p)'
    <2>1. /\ UNCHANGED <<deferred, value, heard, changed>> /\ open[s] = None
          /\ open' = [open EXCEPT ![s] = t]
      BY <1>6 DEF Open, handlerVars
    <2>2. \A p \in Property : Latest(p)'
      BY <1>3, <2>1
    <2>3. heard[s] = <<>> /\ changed[s] = {}
      BY <1>2, <1>3, <2>1
    <2>4. ASSUME NEW r \in Socket
          PROVE  Closed(r)' /\ \A p \in Property : Knows(r, p)'
      <3>1. CASE r = s
        <4>1. heard'[r] = <<>> /\ changed'[r] = {}
          BY <2>1, <2>3, <3>1
        <4> QED
          BY <4>1 DEF LatestIs
      <3>2. CASE r # s
        <4>1. heard'[r] = heard[r] /\ changed'[r] = changed[r] /\ open'[r] = open[r]
          BY <1>2, <2>1, <3>2
        <4> QED
          BY <1>3, <2>1, <4>1
      <3> QED
        BY <3>1, <3>2
    <2> QED
      BY <2>2, <2>4
  <1>7. ASSUME NEW s \in Socket, Close(s)
        PROVE  /\ \A r \in Socket : Closed(r)'
               /\ \A p \in Property : Latest(p)'
               /\ \A r \in Socket, p \in Property : Knows(r, p)'
    <2>1. /\ UNCHANGED <<deferred, value>>
          /\ open' = [open EXCEPT ![s] = None]
          /\ changed' = [changed EXCEPT ![s] = {}]
          /\ heard' = [heard EXCEPT ![s] = <<>>]
      BY <1>7 DEF Close
    <2>2. \A p \in Property : Latest(p)'
      BY <1>3, <2>1
    <2>3. ASSUME NEW r \in Socket
          PROVE  Closed(r)' /\ \A p \in Property : Knows(r, p)'
      <3>1. CASE r = s
        <4>1. heard'[r] = <<>> /\ changed'[r] = {}
          BY <1>2, <2>1, <3>1
        <4> QED
          BY <4>1 DEF LatestIs
      <3>2. CASE r # s
        <4>1. heard'[r] = heard[r] /\ changed'[r] = changed[r] /\ open'[r] = open[r]
          BY <1>2, <2>1, <3>2
        <4> QED
          BY <1>3, <2>1, <4>1
      <3> QED
        BY <3>1, <3>2
    <2> QED
      BY <2>2, <2>3
  <1>8. ASSUME NEW t \in Emitter, NEW e \in Event, AddEvent(t, e)
        PROVE  /\ \A s \in Socket : Closed(s)'
               /\ \A p \in Property : Latest(p)'
               /\ \A s \in Socket, p \in Property : Knows(s, p)'
    BY <1>3, <1>8 DEF AddEvent, handlerVars, socketVars
  <1>9. ASSUME NEW t \in Emitter, EventNotify(t)
        PROVE  /\ \A s \in Socket : Closed(s)'
               /\ \A p \in Property : Latest(p)'
               /\ \A s \in Socket, p \in Property : Knows(s, p)'
    <2> DEFINE e == emitting[t]
               m == Notice(EventTopic(NameOf[e]), e, 0)
    <2>1. UNCHANGED <<value, open, heard, changed>>
      BY <1>9 DEF EventNotify, socketVars
    <2>2. e \in Event
      BY <1>1, <1>9 DEF EventNotify, TypeOK
    <2>3. deferred' = deferred \/ deferred' = Append(deferred, m)
      BY <1>9 DEF EventNotify
    <2>4. m \in NoticeSet
      <3>1. NameOf[e] \in Range(NameOf) /\ NameOf[e][1] \in Thing
        BY <2>2, ThingAssumption DEF Range
      <3>2. NameOf[e][2] \in EventNames
        BY <3>1 DEF EventNames
      <3>3. EventTopic(NameOf[e]) \in Topic
        BY <3>1, <3>2 DEF EventTopic, Topic
      <3> QED
        BY <2>2, <3>3 DEF Notice, NoticeSet
    <2>5. m.about = e
      BY DEF Notice
    <2> HIDE DEF m
    <2>6. ASSUME NEW p \in Property
          PROVE  Latest(p)' /\ (Silent(deferred', p) => Silent(deferred, p))
      <3>1. m.about # p
        BY <2>2, <2>5, DisjointAssumption
      <3>2. /\ \A v : LatestIs(deferred, p, v) => LatestIs(Append(deferred, m), p, v)
            /\ Silent(Append(deferred, m), p) <=> Silent(deferred, p)
        BY <1>2, <2>4, <3>1, AppendTold
      <3> QED
        BY <1>3, <2>1, <2>3, <3>2
    <2>7. \A s \in Socket, p \in Property : Knows(s, p)'
      BY <1>3, <2>1, <2>6
    <2> QED
      BY <1>3, <2>1, <2>6, <2>7
  <1>10. CASE Publish
    <2> DEFINE m == deferred[1]
    <2>1. /\ deferred # <<>> /\ deferred' = Tail(deferred) /\ Deliver(m)
          /\ UNCHANGED <<value, open, changed>>
      BY <1>10 DEF Publish
    <2>2. m \in NoticeSet /\ 1 \in DOMAIN deferred
      BY <1>2, <2>1, TailNotice
    <2>3. Proper(m, uuids)
      BY <1>1, <2>2 DEF TopicInv
    <2>4. ASSUME NEW p \in Property
          PROVE  /\ Latest(p)'
                 /\ Silent(deferred', p) => IF m.about = p THEN m.content = value[p]
                                                           ELSE Silent(deferred, p)
      <3>1. LatestIs(deferred, p, value[p])
        BY <1>3
      <3>2. /\ LatestIs(Tail(deferred), p, value[p])
            /\ Silent(Tail(deferred), p) => IF m.about = p THEN m.content = value[p]
                                                           ELSE Silent(deferred, p)
        BY <1>2, <2>1, <3>1, TailTold
      <3> QED
        BY <2>1, <3>2
    <2> HIDE DEF m
    <2>5. ASSUME NEW s \in Socket, NEW p \in Property, open[s] = p[1], Silent(deferred', p)
          PROVE  /\ LatestIs(heard'[s], p, value[p])
                 /\ Silent(heard'[s], p) => p \notin changed[s]
      <3>1. heard'[s] = IF m.topic \in topics[s] THEN Append(heard[s], m) ELSE heard[s]
        BY <2>1 DEF Deliver
      <3>2. heard[s] \in Seq(NoticeSet)
        BY <1>2
      <3>3. CASE m.about = p
        <4>1. m.content = value[p]
          BY <2>4, <2>5, <3>3
        <4>2. m.topic = <<p[1], "properties">>
          BY <2>3, <3>3, DisjointAssumption DEF Proper
        <4>3. open[s] # None
          BY <2>5, ThingAssumption, NoneAssumption
        <4>4. m.topic \in topics[s]
          BY <1>1, <2>5, <4>2, <4>3 DEF TopicInv
        <4>5. LatestIs(Append(heard[s], m), p, m.content) /\ ~Silent(Append(heard[s], m), p)
          BY <2>2, <3>2, <3>3, AppendTold
        <4> QED
          BY <3>1, <4>1, <4>4, <4>5
      <3>4. CASE m.about # p
        <4>1. Silent(deferred, p)
          BY <2>4, <2>5, <3>4
        <4>2. LatestIs(heard[s], p, value[p]) /\ (Silent(heard[s], p) => p \notin changed[s])
          BY <1>3, <2>5, <4>1
        <4>3. /\ \A v : LatestIs(heard[s], p, v) => LatestIs(Append(heard[s], m), p, v)
              /\ Silent(Append(heard[s], m), p) <=> Silent(heard[s], p)
          BY <2>2, <3>2, <3>4, AppendTold
        <4> QED
          BY <3>1, <4>2, <4>3
      <3> QED
        BY <3>3, <3>4
    <2>6. \A s \in Socket, p \in Property : Knows(s, p)'
      BY <2>1, <2>5
    <2>7. \A s \in Socket : Closed(s)'
      BY <1>3, <2>1
    <2> QED
      BY <2>4, <2>6, <2>7
  <1> QED
    BY <1>5, <1>6, <1>7, <1>8, <1>9, <1>10, StepKinds

---------------------------------------------------------------------------------
(* Events in order *)

\* One more notice that may be told after all others.
LEMMA AppendInOrder ==
    ASSUME NEW q \in Seq(NoticeSet), NEW m \in NoticeSet, InOrder(q), Announced(m.about),
           \A i \in DOMAIN q : Precedes(q[i].about, m.about)
    PROVE  InOrder(Append(q, m))
  <1> DEFINE r == Append(q, m)
  <1>1. /\ DOMAIN r = 1 .. Len(q) + 1
        /\ DOMAIN q = 1 .. Len(q)
        /\ Len(q) \in Nat
        /\ \A i \in 1 .. Len(q) : r[i] = q[i]
        /\ r[Len(q) + 1] = m
    BY AppendNotice
  <1> HIDE DEF r
  <1>2. \A i \in DOMAIN r : i \in DOMAIN q \/ (i = Len(q) + 1 /\ r[i] = m)
    BY <1>1
  <1>3. \A i \in DOMAIN r : Announced(r[i].about)
    BY <1>1, <1>2 DEF InOrder
  <1>4. ASSUME NEW i \in DOMAIN r, NEW j \in DOMAIN r, i < j
        PROVE  Precedes(r[i].about, r[j].about)
    <2>1. i \in DOMAIN q /\ r[i] = q[i]
      BY <1>1, <1>4
    <2>2. CASE j \in DOMAIN q
      BY <1>1, <1>4, <2>1, <2>2 DEF InOrder
    <2>3. CASE j = Len(q) + 1
      BY <1>1, <2>1, <2>3
    <2> QED
      BY <1>2, <2>2, <2>3
  <1> QED
    BY <1>3, <1>4 DEF InOrder, r

\* A queue that goes on with notices that are about no event.
LEMMA QuietInOrder ==
    ASSUME NEW q \in Seq(NoticeSet), NEW r \in Seq(NoticeSet), Len(q) <= Len(r),
           \A i \in DOMAIN q : r[i] = q[i],
           \A i \in DOMAIN r : i > Len(q) => r[i].about \notin Event
    PROVE  /\ InOrder(q) => InOrder(r)
           /\ \A x : Follows(x, q) => Follows(x, r)
           /\ \A x : Follows(q, x) => Follows(r, x)
  <1>1. \A i \in DOMAIN r : r[i].about \in Event => i \in DOMAIN q /\ r[i] = q[i]
    OBVIOUS
  <1>2. ASSUME InOrder(q)
        PROVE  InOrder(r)
    <2>1. \A i \in DOMAIN r : Announced(r[i].about)
      BY <1>1, <1>2 DEF InOrder, Announced
    <2>2. \A i, j \in DOMAIN r : i < j => Precedes(r[i].about, r[j].about)
      BY <1>1, <1>2 DEF InOrder, Precedes
    <2> QED
      BY <2>1, <2>2 DEF InOrder
  <1>3. ASSUME NEW x, Follows(x, q)
        PROVE  Follows(x, r)
    BY <1>1, <1>3 DEF Follows, Precedes
  <1>4. ASSUME NEW x, Follows(q, x)
        PROVE  Follows(r, x)
    BY <1>1, <1>4 DEF Follows, Precedes
  <1> QED
    BY <1>2, <1>3, <1>4

\* Storing an event leaves the order of the others.
LEMMA StoredOrder ==
    ASSUME TypeOK, EventInv, NEW t \in Emitter, NEW e \in Event, AddEvent(t, e)
    PROVE  /\ \A d \in Event : d # e => emitter'[d] = emitter[d]
           /\ emitter'[e] = t
           /\ DOMAIN emitted' = 1 .. Len(emitted) + 1
           /\ DOMAIN emitted = 1 .. Len(emitted) /\ Len(emitted) \in Nat
           /\ \A k \in DOMAIN emitted : emitted'[k] = emitted[k] /\ emitted[k] \in Event
           /\ emitted'[Len(emitted) + 1] = e
           /\ \A d, x \in Event : Before(d, x) => Before(d, x)'
           /\ \A d \in Event : emitter[d] # None => Before(d, e)'
           /\ \A d : Announced(d) => Announced(d)' /\ d # e
           /\ \A d, x : Announced(d) /\ Announced(x) /\ Precedes(d, x) => Precedes(d, x)'
  <1>1. /\ emitting[t] = None /\ emitter[e] = None
        /\ emitted' = Append(emitted, e)
        /\ emitter' = [emitter EXCEPT ![e] = t]
        /\ emitting' = [emitting EXCEPT ![t] = e]
    BY DEF AddEvent
  <1>2. /\ emitting \in [Emitter -> Event \cup {None}]
        /\ emitted \in Seq(Event)
        /\ emitter \in [Event -> Emitter \cup {None}]
    BY DEF TypeOK
  <1>3. (\A d \in Event : d # e => emitter'[d] = emitter[d]) /\ emitter'[e] = t
    BY <1>1, <1>2
  <1>4. /\ DOMAIN emitted' = 1 .. Len(emitted) + 1
        /\ DOMAIN emitted = 1 .. Len(emitted) /\ Len(emitted) \in Nat
        /\ \A k \in DOMAIN emitted : emitted'[k] = emitted[k] /\ emitted[k] \in Event
        /\ emitted'[Len(emitted) + 1] = e
    BY <1>1, <1>2
  <1>5. ASSUME NEW d \in Event, NEW x \in Event, Before(d, x)
        PROVE  Before(d, x)'
    <2>1. PICK k \in DOMAIN emitted, l \in DOMAIN emitted : k < l /\ emitted[k] = d /\ emitted[l] = x
      BY <1>5 DEF Before
    <2>2. k \in DOMAIN emitted' /\ l \in DOMAIN emitted'
      BY <1>4
    <2>3. emitted'[k] = d /\ emitted'[l] = x
      BY <1>4, <2>1
    <2> QED
      BY <2>1, <2>2, <2>3 DEF Before
  <1>6. ASSUME NEW d \in Event, emitter[d] # None
        PROVE  Before(d, e)'
    <2>1. d \in Range(emitted)
      BY <1>6 DEF EventInv
    <2>2. PICK k \in DOMAIN emitted : emitted[k] = d
      BY <2>1 DEF Range
    <2>3. /\ k \in DOMAIN emitted' /\ Len(emitted) + 1 \in DOMAIN emitted'
          /\ k < Len(emitted) + 1 /\ emitted'[k] = d
      BY <1>4, <2>2
    <2> QED
      BY <1>4, <2>3 DEF Before
  <1>7. ASSUME NEW d, Announced(d)
        PROVE  Announced(d)' /\ d # e
    <2>1. CASE d \notin Event
      BY <2>1 DEF Announced
    <2>2. CASE d \in Event
      <3>1. emitter[d] # None /\ emitting[emitter[d]] # d /\ emitter[d] \in Emitter
        BY <1>2, <1>7, <2>2 DEF Announced
      <3>2. d # e /\ emitter'[d] = emitter[d]
        BY <1>1, <1>3, <2>2, <3>1
      <3>3. emitting'[emitter[d]] # d
        BY <1>1, <1>2, <3>1, <3>2
      <3> QED
        BY <3>1, <3>2, <3>3 DEF Announced
    <2> QED
      BY <2>1, <2>2
  <1>8. ASSUME NEW d, NEW x, Announced(d), Announced(x), Precedes(d, x)
        PROVE  Precedes(d, x)'
    <2>1. d # e /\ x # e
      BY <1>7, <1>8
    <2> QED
      BY <1>3, <1>5, <1>8, <2>1 DEF Precedes
  <1> QED
    BY <1>3, <1>4, <1>5, <1>6, <1>7, <1>8

\* Every step keeps the order of the events.
LEMMA EventStep == Parts /\ EventInv /\ [Next]_vars => EventInv'
  <1> SUFFICES ASSUME Parts, EventInv, [Next]_vars
               PROVE  EventInv'
    OBVIOUS
  <1>1. /\ TypeOK
        /\ deferred \in Seq(NoticeSet)
        /\ heard \in [Socket -> Seq(NoticeSet)]
        /\ emitting \in [Emitter -> Event \cup {None}]
        /\ emitter \in [Event -> Emitter \cup {None}]
        /\ emitted \in Seq(Event)
        /\ \A s \in Socket : open[s] = None => heard[s] = <<>>
    BY DEF Parts, TypeOK
  <1>2. None \notin Event /\ None \notin Emitter
    BY NoneAssumption
  <1> DEFINE Distinct == \A k, l \in DOMAIN emitted : k # l => emitted[k] # emitted[l]
             Stored == \A e \in Event : emitter[e] = None <=> e \notin Range(emitted)
             Emits(t) == emitting[t] # None =>
                            /\ emitter[emitting[t]] = t
                            /\ \A d \in Event : emitter[d] = t /\ d # emitting[t]
                                                    => Before(d, emitting[t])
             Hears(s) == InOrder(heard[s]) /\ Follows(heard[s], deferred)
  <1>3. Distinct /\ Stored /\ InOrder(deferred)
        /\ (\A t \in Emitter : Emits(t)) /\ \A s \in Socket : Hears(s)
    BY DEF EventInv
  <1>4. SUFFICES Distinct' /\ Stored' /\ InOrder(deferred)'
                 /\ (\A t \in Emitter : Emits(t)') /\ \A s \in Socket : Hears(s)'
    BY DEF EventInv
  \* Steps in which no event is stored or announced keep the first parts, and the order
  \* in the queues is the one before the step.
  <1>5. ASSUME UNCHANGED <<emitting, emitted, emitter>>, InOrder(deferred'),
               \A s \in Socket : InOrder(heard'[s]) /\ Follows(heard'[s], deferred')
        PROVE  Distinct' /\ Stored' /\ InOrder(deferred)'
               /\ (\A t \in Emitter : Emits(t)') /\ \A s \in Socket : Hears(s)'
    <2>1. Distinct' /\ Stored'
      BY <1>3, <1>5
    <2>2. \A t \in Emitter : Emits(t)'
      BY <1>3, <1>5 DEF Before
    <2>3. InOrder(deferred)'
      BY <1>5 DEF InOrder, Announced, Precedes, Before
    <2>4. ASSUME NEW s \in Socket
          PROVE  Hears(s)'
      <3>1. InOrder(heard'[s]) /\ Follows(heard'[s], deferred')
        BY <1>5
      <3>2. InOrder(heard[s])'
        BY <1>5, <3>1 DEF InOrder, Announced, Precedes, Before
      <3>3. Follows(heard[s], deferred)'
        BY <1>5, <3>1 DEF Follows, Precedes, Before
      <3> QED
        BY <3>2, <3>3
    <2> QED
      BY <2>1, <2>2, <2>3, <2>4
  <1>6. \A q : InOrder(<<>>) /\ Follows(<<>>, q)
    BY DEF InOrder, Follows
  <1>7. CASE HandlerStep
    <2>1. PICK d \in Reached : Finish(d)
      BY <1>7 DEF HandlerStep
    <2>2. deferred' = d.deferred /\ Progress(d) /\ d.deferred \in Seq(NoticeSet)
      BY <2>1 DEF Finish, Reached, Done
    <2>3. /\ deferred' \in Seq(NoticeSet)
          /\ Len(deferred) <= Len(deferred')
          /\ \A i \in DOMAIN deferred : deferred'[i] = deferred[i]
          /\ \A i \in DOMAIN deferred' : i > Len(deferred) => deferred'[i].about \notin Event
      BY <2>2 DEF Progress
    <2>4. /\ InOrder(deferred) => InOrder(deferred')
          /\ \A x : Follows(x, deferred) => Follows(x, deferred')
      BY <1>1, <2>3, QuietInOrder
    <2>5. Error.about \notin Event
      BY <1>2 DEF Error, Notice
    <2>6. ASSUME NEW s \in Socket
          PROVE  InOrder(heard'[s]) /\ Follows(heard'[s], deferred')
      <3> DEFINE q == heard[s]
                 r == heard'[s]
      <3>1. /\ q \in Seq(NoticeSet) /\ r \in Seq(NoticeSet)
            /\ Len(q) <= Len(r)
            /\ \A i \in DOMAIN q : r[i] = q[i]
            /\ \A i \in DOMAIN r : i > Len(q) => r[i].about \notin Event
        BY <1>1, <1>7, <2>5 DEF HandlerStep, Errors
      <3> HIDE DEF q, r
      <3>2. /\ InOrder(q) => InOrder(r)
            /\ \A x : Follows(q, x) => Follows(r, x)
        BY <3>1, QuietInOrder
      <3>3. InOrder(q) /\ Follows(q, deferred')
        BY <1>3, <2>4 DEF q
      <3> QED
        BY <3>2, <3>3 DEF r
    <2>7. UNCHANGED <<emitting, emitted, emitter>>
      BY <1>7 DEF HandlerStep, eventVars
    <2> QED
      BY <1>3, <1>5, <2>4, <2>6, <2>7
  <1>8. ASSUME NEW s \in Socket, NEW t \in Thing, Open(s, t)
        PROVE  Distinct' /\ Stored' /\ InOrder(deferred)'
               /\ (\A x \in Emitter : Emits(x)') /\ \A r \in Socket : Hears(r)'
    <2>1. UNCHANGED <<deferred, heard, emitting, emitted, emitter>>
      BY <1>8 DEF Open, handlerVars, eventVars
    <2> QED
      BY <1>3, <1>5, <2>1
  <1>9. ASSUME NEW s \in Socket, Close(s)
        PROVE  Distinct' /\ Stored' /\ InOrder(deferred)'
               /\ (\A x \in Emitter : Emits(x)') /\ \A r \in Socket : Hears(r)'
    <2>1. /\ UNCHANGED <<deferred, emitting, emitted, emitter>>
          /\ \A r \in Socket : heard'[r] = heard[r] \/ heard'[r] = <<>>
      BY <1>1, <1>9 DEF Close, eventVars
    <2> QED
      BY <1>3, <1>5, <1>6, <2>1
  <1>10. ASSUME NEW t \in Emitter, NEW e \in Event, AddEvent(t, e)
         PROVE  Distinct' /\ Stored' /\ InOrder(deferred)'
                /\ (\A x \in Emitter : Emits(x)') /\ \A r \in Socket : Hears(r)'
    <2>1. /\ emitting[t] = None /\ emitter[e] = None
          /\ emitting' = [emitting EXCEPT ![t] = e]
          /\ UNCHANGED <<deferred, heard>>
      BY <1>10 DEF AddEvent, handlerVars, socketVars
    <2>2. /\ \A d \in Event : d # e => emitter'[d] = emitter[d]
          /\ emitter'[e] = t
          /\ DOMAIN emitted' = 1 .. Len(emitted) + 1
          /\ DOMAIN emitted = 1 .. Len(emitted) /\ Len(emitted) \in Nat
          /\ \A k \in DOMAIN emitted : emitted'[k] = emitted[k] /\ emitted[k] \in Event
          /\ emitted'[Len(emitted) + 1] = e
      BY <1>1, <1>10, StoredOrder
    <2>3. /\ \A d, x \in Event : Before(d, x) => Before(d, x)'
          /\ \A d \in Event : emitter[d] # None => Before(d, e)'
      BY <1>1, <1>10, StoredOrder
    <2>4. /\ \A d : Announced(d) => Announced(d)'
          /\ \A d, x : Announced(d) /\ Announced(x) /\ Precedes(d, x) => Precedes(d, x)'
      BY <1>1, <1>10, StoredOrder
    <2>5. e \notin Range(emitted)
      BY <1>3, <2>1
    <2>6. \A k \in DOMAIN emitted : emitted[k] # e
      BY <2>5 DEF Range
    <2>7. Distinct'
      <3> SUFFICES ASSUME NEW k \in DOMAIN emitted', NEW l \in DOMAIN emitted', k # l
                   PROVE  emitted'[k] # emitted'[l]
        OBVIOUS
      <3>1. k \in DOMAIN emitted \/ k = Len(emitted) + 1
        BY <2>2
      <3>2. l \in DOMAIN emitted \/ l = Len(emitted) + 1
        BY <2>2
      <3> QED
        BY <1>3, <2>2, <2>6, <3>1, <3>2
    <2>8. Stored'
      <3>1. Range(emitted') = Range(emitted) \cup {e}
        <4>1. DOMAIN emitted' = DOMAIN emitted \cup {Len(emitted) + 1}
          BY <2>2
        <4> QED
          BY <2>2, <4>1 DEF Range
      <3>2. ASSUME NEW d \in Event
            PROVE  emitter'[d] = None <=> d \notin Range(emitted')
        BY <1>2, <1>3, <2>2, <3>1, <3>2
      <3> QED
        BY <3>2 DEF Range
    <2>9. ASSUME NEW x \in Emitter
          PROVE  Emits(x)'
      <3> SUFFICES ASSUME NEW y, y = emitting'[x], y # None
                   PROVE  /\ emitter'[y] = x
                          /\ \A d \in Event : emitter'[d] = x /\ d # y => Before(d, y)'
        BY DEF Before
      <3>1. CASE x = t
        <4>1. y = e
          BY <1>1, <2>1, <3>1
        <4>2. \A d \in Event : emitter'[d] = t /\ d # e => emitter[d] # None
          BY <1>2, <2>2
        <4> QED
          BY <2>2, <2>3, <3>1, <4>1, <4>2
      <3>2. CASE x # t
        <4>1. y = emitting[x] /\ y \in Event /\ emitter[y] = x
          BY <1>1, <1>3, <2>1, <3>2
        <4>2. emitter'[y] = x
          BY <1>2, <2>1, <2>2, <4>1
        <4>3. ASSUME NEW d \in Event, emitter'[d] = x, d # y
              PROVE  Before(d, y)'
          <5>1. emitter[d] = x
            BY <2>2, <3>2, <4>3
          <5>2. Before(d, y)
            BY <1>3, <4>1, <4>3, <5>1 DEF Before
          <5> QED
            BY <2>3, <4>1, <5>2
        <4> QED
          BY <4>2, <4>3
      <3> QED
        BY <3>1, <3>2
    <2>10. ASSUME NEW q, InOrder(q)
           PROVE  InOrder(q)'
      <3>1. \A i \in DOMAIN q : Announced(q[i].about)
        BY <2>10 DEF InOrder
      <3>2. \A i, j \in DOMAIN q : i < j => Precedes(q[i].about, q[j].about)'
        BY <2>4, <2>10, <3>1 DEF InOrder
      <3> QED
        BY <2>4, <3>1, <3>2 DEF InOrder
    <2>11. ASSUME NEW q, NEW r, InOrder(q), InOrder(r), Follows(q, r)
           PROVE  Follows(q, r)'
      BY <2>4, <2>11 DEF InOrder, Follows
    <2>12. ASSUME NEW q, q = deferred
           PROVE  InOrder(deferred)' /\ \A s \in Socket : Hears(s)'
      <3>1. InOrder(q) /\ InOrder(q)' /\ deferred' = q
        BY <1>3, <2>1, <2>10, <2>12
      <3>2. InOrder(deferred)'
        BY <3>1 DEF InOrder, Announced, Precedes, Before
      <3>3. ASSUME NEW s \in Socket
            PROVE  Hears(s)'
        <4>1. PICK r : r = heard[s]
          OBVIOUS
        <4>2. InOrder(r) /\ Follows(r, q) /\ heard'[s] = r
          BY <1>3, <2>1, <2>12, <4>1
        <4>3. InOrder(r)' /\ Follows(r, q)'
          BY <2>10, <2>11, <3>1, <4>2
        <4>4. InOrder(heard[s])'
          BY <4>2, <4>3 DEF InOrder, Announced, Precedes, Before
        <4>5. Follows(heard[s], deferred)'
          BY <3>1, <4>2, <4>3 DEF Follows, Precedes, Before
        <4> QED
          BY <4>4, <4>5
      <3> QED
        BY <3>2, <3>3
    <2> QED
      BY <2>7, <2>8, <2>9, <2>12
  <1>11. ASSUME NEW t \in Emitter, EventNotify(t)
         PROVE  Distinct' /\ Stored' /\ InOrder(deferred)'
                /\ (\A x \in Emitter : Emits(x)') /\ \A r \in Socket : Hears(r)'
    <2>1. PICK e : e = emitting[t]
      OBVIOUS
    <2>2. /\ e \in Event /\ emitter[e] = t
          /\ \A d \in Event : emitter[d] = t /\ d # e => Before(d, e)
      BY <1>1, <1>3, <1>11, <2>1 DEF EventNotify, Before
    <2> DEFINE m == Notice(EventTopic(NameOf[e]), e, 0)
    <2>3. /\ emitting' = [emitting EXCEPT ![t] = None]
          /\ UNCHANGED <<heard, emitted, emitter>>
          /\ deferred' = deferred \/ deferred' = Append(deferred, m)
      BY <1>11, <2>1 DEF EventNotify, socketVars
    <2>4. m \in NoticeSet /\ m.about = e
      <3>1. NameOf[e] \in Range(NameOf) /\ NameOf[e][1] \in Thing
        BY <2>2, ThingAssumption DEF Range
      <3>2. NameOf[e][2] \in EventNames
        BY <3>1 DEF EventNames
      <3>3. EventTopic(NameOf[e]) \in Topic
        BY <3>1, <3>2 DEF EventTopic, Topic
      <3> QED
        BY <2>2, <3>3 DEF Notice, NoticeSet
    <2> HIDE DEF m
    <2>5. Distinct' /\ Stored'
      BY <1>3, <2>3
    <2>6. \A x \in Emitter : Emits(x)'
      BY <1>1, <1>3, <2>3 DEF Before
    <2>7. \A d : Announced(d) => d # e /\ Announced(d)'
      BY <1>1, <1>2, <2>1, <2>2, <2>3 DEF Announced
    <2>8. Announced(e)'
      BY <1>1, <1>2, <2>2, <2>3 DEF Announced
    <2>9. \A d, x : Precedes(d, x)' <=> Precedes(d, x)
      BY <2>3 DEF Precedes, Before
    <2>10. \A d : Announced(d) => Precedes(d, e)
      BY <2>2, <2>7 DEF Precedes
    <2>11. ASSUME NEW q, q = deferred'
           PROVE  /\ InOrder(q)'
                  /\ \A r : InOrder(r) /\ Follows(r, deferred) => Follows(r, q)'
      <3>1. CASE q = deferred
        <4>1. InOrder(q)
          BY <1>3, <3>1
        <4>2. InOrder(q)'
          BY <2>7, <2>9, <4>1 DEF InOrder
        <4>3. \A r : Follows(r, q) => Follows(r, q)'
          BY <2>9 DEF Follows
        <4> QED
          BY <3>1, <4>2, <4>3
      <3>2. CASE q = Append(deferred, m)
        <4>1. /\ DOMAIN q = 1 .. Len(deferred) + 1
              /\ DOMAIN deferred = 1 .. Len(deferred)
              /\ Len(deferred) \in Nat
              /\ \A i \in 1 .. Len(deferred) : q[i] = deferred[i]
              /\ q[Len(deferred) + 1] = m
          BY <1>1, <2>4, <3>2, AppendNotice
        <4>2. \A i \in DOMAIN q : (i \in DOMAIN deferred /\ q[i] = deferred[i])
                                 \/ (i = Len(deferred) + 1 /\ q[i].about = e)
          BY <2>4, <4>1
        <4>3. InOrder(deferred)
          BY <1>3
        <4>4. \A i \in DOMAIN q : Announced(q[i].about)'
          BY <2>7, <2>8, <4>2, <4>3 DEF InOrder
        <4>5. ASSUME NEW i \in DOMAIN q, NEW j \in DOMAIN q, i < j
              PROVE  Precedes(q[i].about, q[j].about)
          <5>1. i \in DOMAIN deferred /\ q[i] = deferred[i]
            BY <4>1, <4>5
          <5>2. Announced(q[i].about)
            BY <4>3, <5>1 DEF InOrder
          <5> QED
            BY <2>10, <4>2, <4>3, <4>5, <5>1, <5>2 DEF InOrder
        <4>6. InOrder(q)'
          BY <2>9, <4>4, <4>5 DEF InOrder
        <4>7. ASSUME NEW r, InOrder(r), Follows(r, deferred)
              PROVE  Follows(r, q)'
          <5>1. ASSUME NEW i \in DOMAIN r, NEW j \in DOMAIN q
                PROVE  Precedes(r[i].about, q[j].about)
            BY <2>10, <4>2, <4>7 DEF InOrder, Follows
          <5> QED
            BY <2>9, <5>1 DEF Follows
        <4> QED
          BY <4>6, <4>7
      <3> QED
        BY <2>3, <2>11, <3>1, <3>2
    <2>12. ASSUME NEW q, q = deferred'
           PROVE  InOrder(deferred)' /\ \A s \in Socket : Hears(s)'
      <3>1. InOrder(q)' /\ \A r : InOrder(r) /\ Follows(r, deferred) => Follows(r, q)'
        BY <2>11, <2>12
      <3>2. InOrder(deferred)'
        BY <2>12, <3>1 DEF InOrder, Announced, Precedes, Before
      <3>3. ASSUME NEW s \in Socket
            PROVE  Hears(s)'
        <4>1. PICK r : r = heard[s]
          OBVIOUS
        <4>2. InOrder(r) /\ Follows(r, deferred) /\ heard'[s] = r
          BY <1>3, <2>3, <4>1
        <4>3. InOrder(r)'
          BY <2>7, <2>9, <4>2 DEF InOrder
        <4>4. InOrder(heard[s])'
          BY <4>2, <4>3 DEF InOrder, Announced, Precedes, Before
        <4>5. Follows(r, q)'
          BY <3>1, <4>2
        <4>6. Follows(heard[s], deferred)'
          BY <2>12, <4>2, <4>5 DEF Follows, Precedes, Before
        <4> QED
          BY <4>4, <4>6
      <3> QED
        BY <3>2, <3>3
    <2> QED
      BY <2>5, <2>6, <2>12
  <1>12. CASE Publish
    <2> DEFINE m == deferred[1]
    <2>1. /\ deferred # <<>> /\ deferred' = Tail(deferred) /\ Deliver(m)
          /\ UNCHANGED <<emitting, emitted, emitter>>
      BY <1>12 DEF Publish, eventVars
    <2>2. /\ DOMAIN deferred' = 1 .. Len(deferred) - 1
          /\ DOMAIN deferred = 1 .. Len(deferred)
          /\ Len(deferred) \in Nat /\ Len(deferred) > 0
          /\ \A i \in 1 .. Len(deferred) - 1 : deferred'[i] = deferred[i + 1]
          /\ m \in NoticeSet
      BY <1>1, <2>1, TailNotice
    <2>3. \A i \in DOMAIN deferred' : /\ i + 1 \in DOMAIN deferred /\ i + 1 > 1
                                      /\ deferred'[i] = deferred[i + 1]
      BY <2>2
    <2>4. InOrder(deferred')
      <3>1. \A i, j \in DOMAIN deferred' : i < j => i + 1 < j + 1
        BY <2>2
      <3> QED
        BY <1>3, <2>3, <3>1 DEF InOrder
    <2>5. 1 \in DOMAIN deferred
      BY <2>2
    <2>6. Announced(m.about) /\ \A i \in DOMAIN deferred' : Precedes(m.about, deferred'[i].about)
      BY <1>3, <2>3, <2>5 DEF InOrder
    <2>7. \A s \in Socket : \A i \in DOMAIN heard[s] : Precedes(heard[s][i].about, m.about)
      BY <1>3, <2>5 DEF Follows
    <2> HIDE DEF m
    <2>8. ASSUME NEW s \in Socket
          PROVE  InOrder(heard'[s]) /\ Follows(heard'[s], deferred')
      <3>1. heard'[s] = IF m.topic \in topics[s] THEN Append(heard[s], m) ELSE heard[s]
        BY <2>1 DEF Deliver
      <3>2. InOrder(heard[s]) /\ Follows(heard[s], deferred')
        BY <1>3, <2>3 DEF Follows
      <3>3. CASE m.topic \in topics[s]
        <4> DEFINE q == heard[s]
                   r == Append(q, m)
        <4>1. q \in Seq(NoticeSet) /\ InOrder(q)
          BY <1>1, <3>2
        <4>2. \A i \in DOMAIN q : Precedes(q[i].about, m.about)
          BY <2>7
        <4> HIDE DEF q
        <4>3. InOrder(r)
          BY <2>2, <2>6, <4>1, <4>2, AppendInOrder
        <4>4. \A i \in DOMAIN r : (i \in DOMAIN q /\ r[i] = q[i]) \/ r[i] = m
          BY <2>2, <4>1, AppendNotice
        <4>5. Follows(q, deferred')
          BY <3>2 DEF q
        <4> HIDE DEF r
        <4>6. Follows(r, deferred')
          BY <2>6, <4>4, <4>5 DEF Follows
        <4>7. heard'[s] = r
          BY <3>1, <3>3 DEF q, r
        <4> QED
          BY <4>3, <4>6, <4>7
      <3>4. CASE m.topic \notin topics[s]
        BY <3>1, <3>2, <3>4
      <3> QED
        BY <3>3, <3>4
    <2> QED
      BY <1>5, <2>1, <2>4, <2>8
  <1> QED
    BY <1>7, <1>8, <1>9, <1>10, <1>11, <1>12, StepKinds

---------------------------------------------------------------------------------
(* Events in the storage *)

\* The storage of a thing takes an event at its end; the others come one place further
\* from the end, or are evicted where there is none.
LEMMA LatestShift ==
    ASSUME NEW q \in Seq(Event), Len(q) <= MaxSize, NEW e \in Event,
           NEW r, r = LatestEvents(Append(q, e))
    PROVE  /\ Len(r) \in DOMAIN r /\ r[Len(r)] = e /\ Len(r) \in Nat
           /\ \A i \in DOMAIN q :
                 \/ Len(q) - i + 1 >= MaxSize
                 \/ \E j \in DOMAIN r : r[j] = q[i] /\ Len(r) - j = Len(q) - i + 1
  <1> DEFINE a == Append(q, e)
  <1>1. /\ a \in Seq(Event)
        /\ Len(q) \in Nat /\ DOMAIN q = 1 .. Len(q)
        /\ Len(a) = Len(q) + 1 /\ DOMAIN a = 1 .. Len(q) + 1
        /\ \A i \in 1 .. Len(q) : a[i] = q[i]
        /\ a[Len(q) + 1] = e
        /\ MaxSize \in Nat \ {0}
    BY NumberAssumption
  <1> HIDE DEF a
  <1>2. CASE Len(q) < MaxSize
    <2>1. r = a
      <3>1. Len(a) <= MaxSize
        BY <1>1, <1>2
      <3> QED
        BY <3>1 DEF LatestEvents, a
    <2>2. \A i \in DOMAIN q : i \in DOMAIN r /\ r[i] = q[i] /\ Len(r) - i = Len(q) - i + 1
      BY <1>1, <2>1
    <2> QED
      BY <1>1, <2>1, <2>2
  <1>3. CASE Len(q) = MaxSize
    <2>1. r = Tail(a)
      <3>1. ~(Len(a) <= MaxSize)
        BY <1>1, <1>3
      <3> QED
        BY <3>1 DEF LatestEvents, a
    <2>2. Len(q) >= 1
      BY <1>1, <1>3
    <2>3. /\ Len(r) = Len(q) /\ DOMAIN r = 1 .. Len(q)
          /\ \A j \in 1 .. Len(q) : r[j] = a[j + 1]
      BY <1>1, <2>1
    <2>4. Len(r) \in DOMAIN r /\ r[Len(r)] = e /\ Len(r) \in Nat
      BY <1>1, <2>2, <2>3
    <2>5. ASSUME NEW i \in DOMAIN q, i # 1
          PROVE  i - 1 \in DOMAIN r /\ r[i - 1] = q[i] /\ Len(r) - (i - 1) = Len(q) - i + 1
      <3>1. i - 1 \in 1 .. Len(q) /\ (i - 1) + 1 = i
        BY <1>1, <2>5
      <3> QED
        BY <1>1, <2>3, <3>1
    <2>6. ASSUME NEW i \in DOMAIN q, i = 1
          PROVE  Len(q) - i + 1 >= MaxSize
      BY <1>1, <1>3, <2>6
    <2> QED
      BY <2>4, <2>5, <2>6
  <1>4. Len(q) < MaxSize \/ Len(q) = MaxSize
    <2>1. Len(q) \in Nat /\ MaxSize \in Nat
      BY NumberAssumption
    <2> QED
      BY <2>1
  <1> QED
    BY <1>2, <1>3, <1>4

\* Every step keeps an event listed, or followed by as many as the storage holds.
LEMMA ListedStep == Parts /\ EventInv /\ ListedInv /\ [Next]_vars => ListedInv'
  <1> SUFFICES ASSUME Parts, EventInv, ListedInv, [Next]_vars
               PROVE  ListedInv'
    OBVIOUS
  <1>1. TypeOK
    BY DEF Parts
  <1> DEFINE Thg(k) == NameOf[emitted[k]][1]
             Kept(t, k) ==
                /\ IsFiniteSet(Newer(t, k))
                /\ \/ Cardinality(Newer(t, k)) >= MaxSize
                   \/ \E i \in DOMAIN events[t] :
                         /\ events[t][i] = emitted[k]
                         /\ Cardinality(Newer(t, k)) = Len(events[t]) - i
  <1>2. CASE UNCHANGED <<events, emitted>>
    <2>1. \A t, k : Newer(t, k)' = Newer(t, k)
      BY <1>2 DEF Newer
    <2> QED
      BY <1>2, <2>1 DEF ListedInv
  <1>3. ASSUME \/ HandlerStep
               \/ \E s \in Socket, t \in Thing : Open(s, t)
               \/ \E s \in Socket : Close(s)
               \/ \E t \in Emitter : EventNotify(t)
               \/ Publish
        PROVE  UNCHANGED <<events, emitted>>
    BY <1>3 DEF HandlerStep, Open, Close, EventNotify, Publish, eventVars
  <1>4. ASSUME NEW x \in Emitter, NEW e \in Event, AddEvent(x, e)
        PROVE  ListedInv'
    <2>1. PICK te, n : te = NameOf[e][1] /\ n = Len(emitted) + 1
      OBVIOUS
    <2>2. /\ DOMAIN emitted' = 1 .. n
          /\ DOMAIN emitted = 1 .. Len(emitted) /\ Len(emitted) \in Nat
          /\ \A k \in DOMAIN emitted : emitted'[k] = emitted[k] /\ emitted[k] \in Event
          /\ emitted'[n] = e
      BY <1>1, <1>4, <2>1, StoredOrder
    <2>3. te \in Thing /\ \A d \in Event : NameOf[d][1] \in Thing
      BY <2>1, ThingAssumption
    <2>4. PICK q : q = events[te]
      OBVIOUS
    <2>5. PICK r : r = LatestEvents(Append(q, e))
      OBVIOUS
    <2>6. q \in Seq(Event) /\ Len(q) <= MaxSize
      BY <1>1, <2>3, <2>4 DEF TypeOK
    <2>7. /\ Len(r) \in DOMAIN r /\ r[Len(r)] = e /\ Len(r) \in Nat
          /\ \A i \in DOMAIN q :
                \/ Len(q) - i + 1 >= MaxSize
                \/ \E j \in DOMAIN r : r[j] = q[i] /\ Len(r) - j = Len(q) - i + 1
      BY <2>5, <2>6, LatestShift
    <2>8. events'[te] = r /\ \A t \in Thing : t # te => events'[t] = events[t]
      <3>1. events' = [events EXCEPT ![te] = r]
        BY <1>4, <2>1, <2>4, <2>5 DEF AddEvent
      <3>2. events \in [Thing -> Seq(Event)]
        BY <1>1 DEF TypeOK
      <3> QED
        BY <2>3, <3>1, <3>2
    <2>9. Len(emitted') = n
      BY <1>1, <1>4, <2>1 DEF AddEvent, TypeOK
    <2>10. n \in Nat /\ n = Len(emitted) + 1
      BY <2>2, <2>1
    <2>11. ASSUME NEW k \in DOMAIN emitted, NEW t, t = Thg(k)
           PROVE  Kept(t, k)'
      <3>1. Kept(t, k) /\ t \in Thing /\ k \in 1 .. Len(emitted) /\ emitted'[k] = emitted[k]
        BY <2>2, <2>3, <2>11 DEF ListedInv
      <3>2. CASE t = te
        <4>1. Newer(t, k)' = Newer(t, k) \cup {n} /\ n \notin Newer(t, k)
          <5>1. \A l \in k + 1 .. Len(emitted) : emitted'[l] = emitted[l] /\ l # n
            BY <2>2, <2>10, <3>1
          <5>2. k + 1 .. Len(emitted') = (k + 1 .. Len(emitted)) \cup {n}
            BY <2>2, <2>9, <2>10, <3>1
          <5>3. NameOf[emitted'[n]][1] = t
            BY <2>1, <2>2, <3>2
          <5> QED
            BY <5>1, <5>2, <5>3 DEF Newer
        <4>2. PICK S : S = Newer(t, k)
          OBVIOUS
        <4>3. /\ IsFiniteSet(S \cup {n}) /\ Cardinality(S \cup {n}) = Cardinality(S) + 1
              /\ Cardinality(S) \in Nat
          BY <3>1, <4>1, <4>2, FS_AddElement, FS_CardinalityType
        <4>4. \/ Cardinality(S \cup {n}) >= MaxSize
              \/ \E j \in DOMAIN r : r[j] = emitted[k] /\ Cardinality(S \cup {n}) = Len(r) - j
          <5>1. CASE Cardinality(S) >= MaxSize
            BY <4>3, <5>1, NumberAssumption
          <5>2. CASE \E i \in DOMAIN q : q[i] = emitted[k] /\ Cardinality(S) = Len(q) - i
            <6>1. PICK i \in DOMAIN q : q[i] = emitted[k] /\ Cardinality(S) = Len(q) - i
              BY <5>2
            <6> QED
              BY <2>7, <4>3, <6>1
          <5> QED
            BY <2>4, <3>1, <3>2, <4>2, <5>1, <5>2
        <4>5. Newer(t, k)' = S \cup {n} /\ events'[t] = r
          BY <2>8, <3>2, <4>1, <4>2
        <4> QED
          BY <3>1, <4>3, <4>4, <4>5
      <3>3. CASE t # te
        <4>1. Newer(t, k)' = Newer(t, k)
          <5>1. \A l \in k + 1 .. Len(emitted) : emitted'[l] = emitted[l]
            BY <2>2, <2>10, <3>1
          <5>2. k + 1 .. Len(emitted') = (k + 1 .. Len(emitted)) \cup {n}
            BY <2>2, <2>9, <2>10, <3>1
          <5>3. NameOf[emitted'[n]][1] # t
            BY <2>1, <2>2, <3>3
          <5> QED
            BY <5>1, <5>2, <5>3 DEF Newer
        <4>2. events'[t] = events[t]
          BY <2>8, <3>1, <3>3
        <4> QED
          BY <3>1, <4>1, <4>2
      <3> QED
        BY <3>2, <3>3
    <2>12. Kept(te, n)'
      <3>1. Newer(te, n)' = {}
        BY <2>9, <2>10 DEF Newer
      <3>2. IsFiniteSet({}) /\ Cardinality({}) = 0
        BY FS_EmptySet
      <3>3. \E i \in DOMAIN r : r[i] = e /\ 0 = Len(r) - i
        BY <2>7
      <3>4. events'[te] = r /\ emitted'[n] = e
        BY <2>2, <2>8
      <3> QED
        BY <3>1, <3>2, <3>3, <3>4
    <2>13. ASSUME NEW k \in DOMAIN emitted', NEW t, t = NameOf[emitted'[k]][1]
           PROVE  Kept(t, k)'
      <3>1. CASE k \in DOMAIN emitted
        BY <2>2, <2>11, <2>13, <3>1
      <3>2. CASE k = n
        BY <2>1, <2>2, <2>12, <2>13, <3>2
      <3> QED
        BY <2>2, <2>10, <2>13, <3>1, <3>2
    <2> QED
      BY <2>13 DEF ListedInv, Newer
  <1> QED
    BY <1>2, <1>3, <1>4, StepKinds

---------------------------------------------------------------------------------
(* The theorems *)

\* The server, its things and its sockets begin with the invariant.
LEMMA Initially == Init => IInv
  <1> SUFFICES ASSUME Init
               PROVE  IInv
    OBVIOUS
  <1> USE DEF Init
  <1>1. TypeOK
    <2>1. /\ value \in [Property -> Int]
          /\ actions \in [Action -> SUBSET Id]
          /\ uuids \in [Id -> Action \cup {None}]
          /\ \A action \in Action, id \in Id : id \in actions[action] => uuids[id] = action
      BY ThingAssumption
    <2>2. /\ events \in [Thing -> Seq(Event)]
          /\ \A t \in Thing : Len(events[t]) <= MaxSize
          /\ emitting \in [Emitter -> Event \cup {None}]
          /\ emitted \in Seq(Event)
          /\ emitter \in [Event -> Emitter \cup {None}]
      BY NumberAssumption
    <2>3. /\ body \in [Client -> {None} \cup Upload]
          /\ reply \in {0, 200, 201, 204, 301, 400, 403, 404, 405}
          /\ requests \in 0 .. MaxRequests
      BY NumberAssumption
    <2>4. /\ open \in [Socket -> Thing \cup {None}]
          /\ topics \in [Socket -> SUBSET Topic]
          /\ heard \in [Socket -> Seq(NoticeSet)]
          /\ \A s \in Socket : open[s] = None => topics[s] = {} /\ heard[s] = <<>>
          /\ deferred \in Seq(NoticeSet)
          /\ changed \in [Socket -> SUBSET Property]
      OBVIOUS
    <2> QED
      BY <2>1, <2>2, <2>3, <2>4 DEF TypeOK
  <1>2. ValuesStayAllowed
    BY DEF ValuesStayAllowed
  <1>3. TopicInv
    BY DEF TopicInv
  <1>4. ToldInv
    BY DEF ToldInv, LatestIs
  <1>5. EventInv
    <2>1. Range(emitted) = {}
      BY DEF Range
    <2>2. InOrder(deferred) /\ \A s \in Socket : InOrder(heard[s]) /\ Follows(heard[s], deferred)
      BY DEF InOrder, Follows
    <2> QED
      BY <2>1, <2>2 DEF EventInv
  <1>6. ListedInv
    BY DEF ListedInv
  <1> QED
    BY <1>1, <1>2, <1>3, <1>4, <1>5, <1>6 DEF IInv

\* The inductive invariant holds in every state.
THEOREM Invariant == Spec => []IInv
  <1>1. IInv /\ [Next]_vars => IInv'
    <2> SUFFICES ASSUME IInv, [Next]_vars
                 PROVE  IInv'
      OBVIOUS
    <2>1. Parts /\ EventInv /\ ListedInv
      BY DEF IInv, Parts
    <2>2. TypeOK' /\ ValuesStayAllowed' /\ TopicInv' /\ ToldInv'
      BY <2>1, TypeStep, ValueStep, TopicStep, ToldStep
    <2>3. EventInv' /\ ListedInv'
      BY <2>1, EventStep, ListedStep
    <2> QED
      BY <2>2, <2>3 DEF IInv
  <1> QED
    BY Initially, <1>1, PTL DEF Spec

\* Whatever requests, messages and events come, what is stored, waiting, answered and
\* heard has its type; an action is stored under ids that were generated for it, and a
\* socket that is closed has no topics left.
THEOREM ApiTyping == Spec => []TypeOK
  <1>1. IInv => TypeOK
    BY DEF IInv
  <1> QED
    BY Invariant, <1>1, PTL

\* Whatever JSON is sent and converted, by a PUT or a message, no property gets a value
\* that its metadata does not allow, and none that is read-only is set.
THEOREM ValuesAreAllowed == Spec => []ValuesStayAllowed
  <1>1. IInv => ValuesStayAllowed
    BY DEF IInv
  <1> QED
    BY Invariant, <1>1, PTL

\* A request that is answered with an error has changed and announced nothing, unless
\* it is a POST for which the system has no thread.
THEOREM RefusalsChangeNothing == Spec => RefusedChangesNothing
  <1>1. ASSUME IInv, [Next]_vars
        PROVE  [reply' >= 400 => \/ UNCHANGED <<handlerVars, eventVars>>
                                 \/ \E c \in Client, name \in ActionNames :
                                        PostWithoutThread(c, name)]_vars
    <2>1. Parts
      BY <1>1 DEF IInv, Parts
    <2>2. ASSUME reply' >= 400, ~NoThread
          PROVE  UNCHANGED vars \/ UNCHANGED <<handlerVars, eventVars>>
      BY <1>1, <2>1, <2>2, RefusalStep
    <2> QED
      BY <2>2 DEF NoThread
  <1> QED
    BY Invariant, <1>1, PTL DEF Spec, RefusedChangesNothing

\* A set of numbers up to some n has a greatest one.
LEMMA GreatestIsMax ==
    ASSUME NEW n \in Nat, NEW S \in SUBSET (1 .. n), S # {}
    PROVE  Max(S) \in S /\ \A y \in S : Max(S) >= y
  <1> DEFINE HasMax(X) == X = {} \/ \E x \in X : \A y \in X : x >= y
             T == {m \in Nat : \A X \in SUBSET (1 .. m) : HasMax(X)}
  <1>1. 0 \in T
    OBVIOUS
  <1>2. ASSUME NEW m \in Nat, m \in T
        PROVE  m + 1 \in T
    <2> SUFFICES ASSUME NEW X \in SUBSET (1 .. m + 1)
                 PROVE  HasMax(X)
      BY <1>2
    <2>1. CASE m + 1 \in X
      <3>1. \A y \in X : m + 1 >= y
        BY <1>2
      <3> QED
        BY <2>1, <3>1
    <2>2. CASE m + 1 \notin X
      <3>1. X \in SUBSET (1 .. m)
        BY <1>2, <2>2
      <3> QED
        BY <1>2, <3>1
    <2> QED
      BY <2>1, <2>2
  <1> HIDE DEF T
  <1>3. n \in T
    BY <1>1, <1>2, Induction
  <1>4. \E x \in S : \A y \in S : x >= y
    BY <1>3 DEF T
  <1> QED
    BY <1>4 DEF Max

\* When no notice is waiting, every socket has been told the value of every property
\* of its thing that changed since it connected, by whomever.
THEOREM ListenersKnow == Spec => []ListenersKnowTheValues
  <1>1. ASSUME IInv
        PROVE  ListenersKnowTheValues
    <2> SUFFICES ASSUME deferred = <<>>, NEW s \in Socket, NEW p \in Property, p[1] = open[s]
                 PROVE  IF HeardOf(s, p) = {} THEN p \notin changed[s]
                        ELSE heard[s][Max(HeardOf(s, p))].content = GetProperties(open[s])[p[2]]
      BY DEF ListenersKnowTheValues
    <2>1. TypeOK /\ ToldInv
      BY <1>1 DEF IInv
    <2>2. Silent(deferred, p)
      BY DEF Silent
    <2>3. LatestIs(heard[s], p, value[p]) /\ (Silent(heard[s], p) => p \notin changed[s])
      BY <2>1, <2>2 DEF ToldInv
    <2>4. heard[s] \in Seq(NoticeSet)
      BY <2>1 DEF TypeOK
    <2>5. CASE HeardOf(s, p) = {}
      BY <2>3, <2>5 DEF HeardOf, Silent
    <2>6. CASE HeardOf(s, p) # {}
      <3> DEFINE i == Max(HeardOf(s, p))
      <3>1. Len(heard[s]) \in Nat /\ DOMAIN heard[s] = 1 .. Len(heard[s])
        BY <2>4
      <3>2. HeardOf(s, p) \in SUBSET (1 .. Len(heard[s]))
        BY <3>1 DEF HeardOf
      <3>3. i \in HeardOf(s, p) /\ \A j \in HeardOf(s, p) : i >= j
        BY <2>6, <3>1, <3>2, GreatestIsMax
      <3> HIDE DEF i
      <3>4. /\ i \in DOMAIN heard[s] /\ heard[s][i].about = p
            /\ \A j \in DOMAIN heard[s] : j > i => heard[s][j].about # p
        BY <3>1, <3>3 DEF HeardOf
      <3>5. heard[s][i].content = value[p]
        BY <2>3, <3>4 DEF LatestIs
      <3>6. p = <<open[s], p[2]>>
        BY ThingAssumption
      <3>7. GetProperties(open[s])[p[2]] = value[<<open[s], p[2]>>]
        BY DEF GetProperties
      <3> QED
        BY <2>6, <3>5, <3>6, <3>7 DEF i
    <2> QED
      BY <2>5, <2>6
  <1> QED
    BY Invariant, <1>1, PTL

\* No socket hears of a property, an action or an event of a thing that it is not
\* connected to, or of an event that its thing does not announce.
THEOREM ListenersHearTheirThing == Spec => []ListenersHearOnlyTheirThing
  <1>1. ASSUME IInv
        PROVE  ListenersHearOnlyTheirThing
    <2> SUFFICES ASSUME NEW s \in Socket, NEW i \in DOMAIN heard[s], NEW m, m = heard[s][i]
                 PROVE  /\ m.about \in Property => m.about[1] = open[s]
                        /\ m.about \in Id => uuids[m.about][1] = open[s]
                        /\ m.about \in Event => /\ NameOf[m.about] \in Available
                                                /\ NameOf[m.about][1] = open[s]
      BY DEF ListenersHearOnlyTheirThing
    <2>1. m = Error \/ (Proper(m, uuids) /\ m.topic[1] = open[s])
      BY <1>1 DEF IInv, TopicInv
    <2>2. CASE m = Error
      BY <2>2, NoneAssumption DEF Error, Notice
    <2>3. CASE Proper(m, uuids) /\ m.topic[1] = open[s]
      BY <2>3, DisjointAssumption DEF Proper, EventTopic
    <2> QED
      BY <2>1, <2>2, <2>3
  <1> QED
    BY Invariant, <1>1, PTL

\* Every socket hears the events that one thread emits in their order and once.
THEOREM EventsAreInOrder == Spec => []EventsOfAThreadInOrder
  <1>1. ASSUME IInv
        PROVE  EventsOfAThreadInOrder
    <2> SUFFICES ASSUME NEW s \in Socket, NEW i \in DOMAIN heard[s], NEW j \in DOMAIN heard[s],
                        NEW d, NEW e, d = heard[s][i].about, e = heard[s][j].about,
                        i < j, {d, e} \subseteq Event
                 PROVE  /\ d # e
                        /\ emitter[d] = emitter[e] =>
                              \E k, l \in DOMAIN emitted :
                                  k < l /\ emitted[k] = d /\ emitted[l] = e
      BY DEF EventsOfAThreadInOrder
    <2>1. Precedes(d, e)
      BY <1>1 DEF IInv, EventInv, InOrder
    <2> QED
      BY <2>1 DEF Precedes, Before
  <1> QED
    BY Invariant, <1>1, PTL

\* An event that a socket has heard of is in the storage of its thing, until this has
\* taken as many newer events as it holds.
THEOREM HeardIsStored == Spec => []HeardEventIsStored
  <1>1. ASSUME IInv
        PROVE  HeardEventIsStored
    <2> SUFFICES ASSUME NEW s \in Socket, NEW i \in DOMAIN heard[s],
                        NEW e, e = heard[s][i].about, e \in Event
                 PROVE  \/ e \in Range(events[open[s]])
                        \/ \E k \in DOMAIN emitted :
                              /\ emitted[k] = e
                              /\ Cardinality({l \in k + 1 .. Len(emitted) :
                                                 NameOf[emitted[l]][1] = open[s]}) >= MaxSize
      BY DEF HeardEventIsStored
    <2>1. NameOf[e][1] = open[s]
      <3>1. heard[s][i] = Error \/ (/\ Proper(heard[s][i], uuids)
                                    /\ heard[s][i].topic[1] = open[s])
        BY <1>1 DEF IInv, TopicInv
      <3>2. heard[s][i] # Error
        BY NoneAssumption DEF Error, Notice
      <3> QED
        BY <3>1, <3>2, DisjointAssumption DEF Proper, EventTopic
    <2>2. Announced(e)
      BY <1>1 DEF IInv, EventInv, InOrder
    <2>3. PICK k \in DOMAIN emitted : emitted[k] = e
      BY <1>1, <2>2 DEF IInv, EventInv, Announced, Range
    <2>4. \/ Cardinality(Newer(open[s], k)) >= MaxSize
          \/ \E n \in DOMAIN events[open[s]] : events[open[s]][n] = e
      BY <1>1, <2>1, <2>3 DEF IInv, ListedInv
    <2>5. ASSUME NEW n \in DOMAIN events[open[s]], events[open[s]][n] = e
          PROVE  e \in Range(events[open[s]])
      BY <2>5 DEF Range
    <2> QED
      BY <2>3, <2>4, <2>5 DEF Newer
  <1> QED
    BY Invariant, <1>1, PTL

---------------------------------------------------------------------------------
(* The events of a thing are a bounded log *)

EventLog(t) == INSTANCE BoundedLog WITH Element <- Event, log <- events[t]

\* Storing an event adds it to the log of its thing, once in its life, and no other
\* step touches a log: no request, message, subscription or notice.
EventsRefineBoundedLog ==
    /\ \A t \in Thing : EventLog(t)!Init
    /\ [][\A t \in Thing : \/ \E e \in Event : emitter[e] = None /\ EventLog(t)!Add(e)
                           \/ UNCHANGED events[t]]_vars

\* Only AddEvent changes what is stored, and its thread.
LEMMA EventsKept ==
    ASSUME Parts, [Next]_vars
    PROVE  \/ UNCHANGED events
           \/ \E t \in Emitter, e \in Event : AddEvent(t, e)
  <1>1. CASE HandlerStep
    BY <1>1 DEF HandlerStep, eventVars
  <1>2. ASSUME \/ \E s \in Socket, t \in Thing : Open(s, t)
               \/ \E s \in Socket : Close(s)
               \/ \E t \in Emitter : EventNotify(t)
               \/ Publish
        PROVE  UNCHANGED events
    BY <1>2 DEF Open, Close, EventNotify, Publish, eventVars
  <1> QED
    BY <1>1, <1>2, StepKinds

\* SimpleRingBuffer::add as Thing::add_event uses it: the storage of every thing
\* implements BoundedLog, which SimpleRingBuffer implements too.
THEOREM EventsAreBoundedLogs == Spec => EventsRefineBoundedLog
  <1>1. Init => \A t \in Thing : EventLog(t)!Init
    BY DEF Init, EventLog!Init
  <1>2. ASSUME IInv, [Next]_vars
        PROVE  [\A t \in Thing : \/ \E e \in Event : emitter[e] = None /\ EventLog(t)!Add(e)
                                 \/ UNCHANGED events[t]]_vars
    <2>1. Parts
      BY <1>2 DEF IInv, Parts
    <2>2. CASE UNCHANGED events
      BY <2>2
    <2>3. ASSUME NEW u \in Emitter, NEW e \in Event, AddEvent(u, e)
          PROVE  \A t \in Thing : \/ emitter[e] = None /\ EventLog(t)!Add(e)
                                  \/ UNCHANGED events[t]
      <3>1. /\ emitter[e] = None /\ NameOf[e][1] \in Thing
            /\ events' = [events EXCEPT ![NameOf[e][1]] =
                             LatestEvents(Append(events[NameOf[e][1]], e))]
            /\ events \in [Thing -> Seq(Event)]
        BY <2>1, <2>3, ThingAssumption DEF AddEvent, Parts, TypeOK
      <3>2. \A t \in Thing : t # NameOf[e][1] => UNCHANGED events[t]
        BY <3>1
      <3>3. events'[NameOf[e][1]] = LatestEvents(Append(events[NameOf[e][1]], e))
        BY <3>1
      <3>4. EventLog(NameOf[e][1])!Add(e)
        BY <3>3 DEF EventLog!Add, EventLog!Latest, LatestEvents
      <3> QED
        BY <3>1, <3>2, <3>4
    <2> QED
      BY <1>2, <2>1, <2>2, <2>3, EventsKept
  <1> QED
    BY <1>1, <1>2, Invariant, PTL DEF Spec, EventsRefineBoundedLog

---------------------------------------------------------------------------------
(* Integers *)

\* An integer that fits into an int is kept.
LEMMA WrapKeepsInts ==
    ASSUME NEW n \in -HalfRange .. HalfRange - 1
    PROVE  Wrap(n) = n
  <1>1. HalfRange \in Nat \ {0}
    BY NumberAssumption
  <1>2. \A a \in Nat, b \in Nat \ {0} : a < b => a % b = a
    OBVIOUS
  <1>3. n + HalfRange \in Nat /\ 2 * HalfRange \in Nat \ {0} /\ n + HalfRange < 2 * HalfRange
    BY <1>1
  <1>4. (n + HalfRange) % (2 * HalfRange) = n + HalfRange
    BY <1>2, <1>3
  <1> QED
    BY <1>1, <1>4 DEF Wrap

\* handle_property_put: wide integers are all that is accepted otherwise than it was
\* requested. A PUT whose integers fit into an int is answered with 200 only for a
\* value that the metadata allows.
THEOREM IntsAreAcceptedAsRequested ==
    ASSUME \A v \in Json : v.kind = "int" => v.n \in -HalfRange .. HalfRange - 1
    PROVE  Spec => AcceptedAsRequested
  <1>1. ASSUME IInv
        PROVE  [\A c \in Client, v \in Json :
                   PutBody(c, v) /\ reply' = 200 => v.n \in Allowed[body[c].target]]_vars
    <2> SUFFICES ASSUME NEW c \in Client, NEW v \in Json, PutBody(c, v), reply' = 200
                 PROVE  v.n \in Allowed[body[c].target]
      OBVIOUS
    <2> DEFINE p == body[c].target
    <2>1. p \in Property
      BY <1>1 DEF IInv, TypeOK, PutBody, BodyEnds, Upload
    <2>2. ~Refused(p, v)
      BY DEF PutBody, Reply
    <2>3. PICK n \in Converted(TypeOf[p], v) : n \in Allowed[p]
      BY <2>1, <2>2 DEF Refused, Accepted
    <2>4. n = v.n
      <3>1. v.kind = "int" => Wrap(v.n) = v.n
        BY WrapKeepsInts
      <3> QED
        BY <2>3, <3>1 DEF Converted
    <2> QED
      BY <2>3, <2>4
  <1> QED
    BY <1>1, Invariant, PTL DEF AcceptedAsRequested, Spec

---------------------------------------------------------------------------------
(* Links *)

\* Thing::as_thing_description, PropertyBase::as_property_description, Action::get_href:
\* every link of a description is served, on this server and on the others, whatever
\* their base path and the number of their things.
THEOREM LinksAreServedAlways == Spec => []LinksAreServed
  <1>1. DescriptionsAreServed
    <2> SUFFICES ASSUME NEW server \in AllServers, NEW i \in DOMAIN server.things,
                        NEW link \in DescriptionLinks(server, i, PartsOf(server.things[i]))
                 PROVE  IsServed(server, link)
      BY Zenon DEF DescriptionsAreServed
    <2> DEFINE has == PartsOf(server.things[i])
    <2>1. \A name \in has.properties \cup has.actions \cup has.events :
              \E part \in Property \cup Action \cup Available : name = part[2]
      BY DEF PartsOf
    <2>2. \A name \in has.properties \cup has.actions \cup has.events : name # ""
      <3> HIDE DEF has
      <3> QED
        BY <2>1, SegmentAssumption, Zenon
    <2>3. WellFormed(server)
      BY ServerAssumption
    <2> QED
      BY <2>2, <2>3, DescriptionIsServed, Zenon
  <1>2. ActionsAreServed
    <2> SUFFICES ASSUME NEW server \in AllServers, NEW i \in DOMAIN server.things,
                        NEW name \in PartsOf(server.things[i]).actions, NEW id \in Id
                 PROVE  IsServed(server, ActionLink(server, i, name, id))
      BY DEF ActionsAreServed, ActionLinks
    <2>1. \E action \in Action : name = action[2]
      BY DEF PartsOf
    <2>2. name # "" /\ id # ""
      BY <2>1, SegmentAssumption, Zenon
    <2> QED
      BY <2>2, ServerAssumption, ActionLinkServed, Zenon
  <1>3. LinksAreServed
    BY <1>1, <1>2 DEF LinksAreServed
  <1> QED
    BY <1>3, PTL

\* handle_invalid_requests: a slash at the end of a path that a client asks for, or of
\* the link of an action, makes no difference, on this server and on the others.
THEOREM TrailingSlashesAreHarmless == Spec => []TrailingSlashIsHarmless
  <1>1. SlashesAreHarmless
    <2> SUFFICES ASSUME NEW server \in AllServers, NEW r \in Request
                 PROVE  SlashIsHarmless(server, r.path)
      BY Zenon DEF SlashesAreHarmless
    <2>1. r.path \in Seq(Range(r.path)) /\ r.path # <<>>
      BY RequestAssumption
    <2> QED
      BY <2>1, ServerAssumption, SlashHarmless, Zenon
  <1>2. ActionSlashesAreHarmless
    <2> SUFFICES ASSUME NEW server \in AllServers, NEW i \in DOMAIN server.things,
                        NEW name \in PartsOf(server.things[i]).actions, NEW id \in Id
                 PROVE  SlashIsHarmless(server, ActionLink(server, i, name, id).href)
      BY DEF ActionSlashesAreHarmless, ActionLinks
    <2> DEFINE S == {ToString(i - 1), name, id}
               P == Segment(server, S)
               tail == <<"actions", name, id>>
               href == HrefPrefix(server, i) \o tail
    <2>1. WellFormed(server)
      BY ServerAssumption
    <2>2. HrefPrefix(server, i) \in Seq(P)
      BY <2>1, HrefTypes, Zenon
    <2>3. tail \in Seq(P) /\ Len(tail) = 3
      <3>1. "actions" \in P /\ name \in P /\ id \in P
        BY Zenon DEF Segment, Literal
      <3> HIDE DEF P
      <3> QED
        BY <3>1
    <2> HIDE DEF P, tail
    <2>4. /\ href \in Seq(P) /\ Len(href) = Len(HrefPrefix(server, i)) + Len(tail)
          /\ Len(HrefPrefix(server, i)) \in Nat
      BY <2>2, <2>3, ConcatProperties, LenProperties, Zenon
    <2> HIDE DEF href
    <2>5. Len(href) # 0
      BY <2>3, <2>4
    <2>6. Len(<<>>) = 0
      OBVIOUS
    <2>7. SlashIsHarmless(server, href)
      BY <2>1, <2>4, <2>5, <2>6, SlashHarmless, Zenon
    <2>8. ActionLink(server, i, name, id).href = href
      BY DEF ActionLink, Link, href, tail
    <2> QED
      BY <2>7, <2>8, Zenon
  <1>3. TrailingSlashIsHarmless
    BY <1>1, <1>2 DEF TrailingSlashIsHarmless
  <1> QED
    BY <1>3, PTL
=================================================================================
