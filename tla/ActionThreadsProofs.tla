-------------------------- MODULE ActionThreadsProofs ---------------------------
(***************************************************************************)
(* Proofs about ActionThreads, for every number of actions, names and      *)
(* threads of the application, and every max_size.                         *)
(***************************************************************************)
EXTENDS ActionThreads, SequenceTheorems, TLAPS

---------------------------------------------------------------------------------
(* The inductive invariant *)

\* Where a caller is about an action that it has constructed and not yet started.
Requesting == {"notify", "push", "pop", "describe", "spawn"}

\* The status that start() has given the action by the time it is where it is.
StatusInv ==
    \A a \in Action :
        /\ runner[a] = "none" => status[a] \in {None, "created"}
        /\ runner[a] = "start" => status[a] = "created"
        /\ runner[a] \in {"pendingNotice", "perform", "finish"} => status[a] = "pending"
        /\ runner[a] \in {"stamp", "completedNotice", "done"} => status[a] = "completed"
        /\ timed[a] <=> runner[a] \in {"completedNotice", "done"}

\* A requested action belongs to one caller until its thread is started.
CallerInv ==
    /\ \A c \in Caller : at[c] \in Requesting =>
          status[about[c]] = "created" /\ runner[about[c]] = "none"
    /\ \A c, d \in Caller : at[c] \in Requesting /\ at[d] \in Requesting
                            /\ about[c] = about[d] => c = d
    /\ at[Loop] \in {"readTime", "cancel", "remove"} => about[Loop] \in Entered
    /\ at[Loop] = "remove" => cancelled[about[Loop]]

\* An action that was pushed is in the store or has left it for good.
EnteredInv ==
    /\ \A a \in Action : Stored(a) => a \in Entered
    /\ removed \cup evicted \subseteq Entered
    /\ \A a \in Entered : Stored(a) \/ a \in removed \cup evicted
    /\ \A a \in removed : cancelled[a] /\ ~Stored(a)
    /\ \A a \in evicted : ~Stored(a)

\* A store holds actions of its name, each once, and too many only while add() is
\* between its push and its pop.
StoreInv ==
    \A n \in Name :
        /\ \A i \in DOMAIN store[n] : NameOf[store[n][i]] = n
        /\ IsInjective(store[n])
        /\ Len(store[n]) <= MaxSize + 1
        /\ ~Locked(n) => Len(store[n]) <= MaxSize

\* What listeners are to hear of an action, in this order.
Progress == <<"created", "pending", "completed">>

\* The action is not there, or its caller is just about to announce it.
Unannounced(a) == \/ status[a] = None
                  \/ \E c \in Caller : at[c] = "notify" /\ about[c] = a

\* How many notices of each action have been given to the loop, and how many of
\* them have been published.
Sent == [a \in Action |-> IF Unannounced(a) THEN 0
                          ELSE IF runner[a] \in {"none", "start", "pendingNotice"} THEN 1
                          ELSE IF runner[a] = "done" THEN 3 ELSE 2]
Heard == [a \in Action |-> Len(published[a])]

\* The position of a status in Progress.
Place(st) == IF st = "created" THEN 1 ELSE IF st = "pending" THEN 2 ELSE 3

\* The queue holds of each action the notices that were sent and not yet heard,
\* all of them and each once, in the order of Progress.
Waits(queue, heard, sent) ==
    /\ \A i \in DOMAIN queue :
          /\ heard[queue[i].action] < Place(queue[i].status)
          /\ Place(queue[i].status) <= sent[queue[i].action]
    /\ \A i, j \in DOMAIN queue :
          i < j /\ queue[i].action = queue[j].action =>
              Place(queue[i].status) < Place(queue[j].status)
    /\ \A a \in Action : \A k \in heard[a] + 1 .. sent[a] :
          \E i \in DOMAIN queue : queue[i].action = a /\ Place(queue[i].status) = k

\* The notices of an action that are published and those that wait are together
\* what has been sent. While the loop adds an action none of its notices is out.
NoticeInv ==
    /\ Waits(deferred, Heard, Sent)
    /\ \A a \in Action : /\ Heard[a] <= Sent[a]
                         /\ \A k \in 1 .. Heard[a] : published[a][k] = Progress[k]
    /\ at[Loop] = "push" => Heard[about[Loop]] = 0

\* The inductive invariant, together with the property that needs no other strengthening.
IInv == /\ TypeOK /\ StatusInv /\ CallerInv /\ EnteredInv /\ StoreInv
        /\ NoticeInv /\ CompletedNoticeHasTime
---------------------------------------------------------------------------------
(* The operators on a store *)

\* What RemoveAt returns: one element less, the others in their order.
LEMMA RemoveAtIndex ==
    ASSUME NEW s \in Seq(Action), NEW k \in 1 .. Len(s)
    PROVE  /\ RemoveAt(s, k) \in Seq(Action)
           /\ Len(RemoveAt(s, k)) = Len(s) - 1
           /\ \A j \in 1 .. Len(s) - 1 :
                 RemoveAt(s, k)[j] = IF j < k THEN s[j] ELSE s[j + 1]
  <1> DEFINE front == SubSeq(s, 1, k - 1)
             back == SubSeq(s, k + 1, Len(s))
  <1>1. /\ front \in Seq(Action) /\ Len(front) = k - 1
        /\ \A j \in 1 .. k - 1 : front[j] = s[j]
    OBVIOUS
  <1>2. /\ back \in Seq(Action) /\ Len(back) = Len(s) - k
        /\ \A j \in 1 .. Len(s) - k : back[j] = s[j + k]
    OBVIOUS
  <1> HIDE DEF front, back
  <1>3. /\ front \o back \in Seq(Action)
        /\ Len(front \o back) = Len(s) - 1
        /\ \A j \in 1 .. Len(s) - 1 :
              (front \o back)[j] = IF j < k THEN s[j] ELSE s[j + 1]
    <2> DEFINE n == Len(front) + Len(back)
    <2>a. /\ front \o back \in Seq(Action)
          /\ Len(front \o back) = n
          /\ \A j \in 1 .. n : (front \o back)[j] =
                IF j <= Len(front) THEN front[j] ELSE back[j - Len(front)]
      BY <1>1, <1>2, ConcatProperties
    <2>b. n = Len(s) - 1
      BY <1>1, <1>2
    <2>1. /\ front \o back \in Seq(Action)
          /\ Len(front \o back) = Len(s) - 1
          /\ \A j \in 1 .. Len(s) - 1 :
                (front \o back)[j] = IF j <= k - 1 THEN front[j] ELSE back[j - (k - 1)]
      <3> HIDE DEF n
      <3> QED
        BY <2>a, <2>b, <1>1
    <2>2. \A j \in 1 .. Len(s) - 1 : j < k => (front \o back)[j] = s[j]
      BY <1>1, <2>1
    <2>3. \A j \in 1 .. Len(s) - 1 : ~(j < k) => (front \o back)[j] = s[j + 1]
      <3> SUFFICES ASSUME NEW j \in 1 .. Len(s) - 1, ~(j < k)
                   PROVE  back[j - (k - 1)] = s[j + 1]
        BY <2>1
      <3>1. j - (k - 1) \in 1 .. Len(s) - k /\ j - (k - 1) + k = j + 1
        OBVIOUS
      <3> QED
        BY <3>1, <1>2
    <2> QED
      BY <2>1, <2>2, <2>3
  <1> USE DEF front, back
  <1>4. RemoveAt(s, k) = front \o back
    BY DEF RemoveAt
  <1> QED
    BY <1>3, <1>4

\* remove_if on a store that holds an action at most once: the action is gone, every
\* other one is still there and there once, and the store has not grown.
LEMMA WithoutProperties ==
    ASSUME NEW s \in Seq(Action), NEW a \in Action, IsInjective(s)
    PROVE  /\ Without(s, a) \in Seq(Action)
           /\ Len(Without(s, a)) <= Len(s)
           /\ IsInjective(Without(s, a))
           /\ \A i \in DOMAIN Without(s, a) : Without(s, a)[i] # a
           /\ \A i \in DOMAIN Without(s, a) :
                 \E j \in DOMAIN s : Without(s, a)[i] = s[j]
           /\ \A j \in DOMAIN s : s[j] # a =>
                 \E i \in DOMAIN Without(s, a) : Without(s, a)[i] = s[j]
  <1>1. CASE ~ \E i \in DOMAIN s : s[i] = a
    BY <1>1 DEF Without
  <1>2. CASE \E i \in DOMAIN s : s[i] = a
    <2> DEFINE k == CHOOSE i \in DOMAIN s : s[i] = a
               t == RemoveAt(s, k)
    <2>1. k \in 1 .. Len(s) /\ s[k] = a
      BY <1>2
    <2>2. Without(s, a) = t
      BY <1>2 DEF Without
    <2> HIDE DEF k
    <2>3. /\ t \in Seq(Action) /\ Len(t) = Len(s) - 1
          /\ \A j \in 1 .. Len(s) - 1 : t[j] = IF j < k THEN s[j] ELSE s[j + 1]
      BY <2>1, RemoveAtIndex
    <2> HIDE DEF t
    <2>4. \A i, j \in DOMAIN s : s[i] = s[j] => i = j
      BY DEF IsInjective
    <2>5. \A i, j \in DOMAIN t : t[i] = t[j] => i = j
      <3> DEFINE from(i) == IF i < k THEN i ELSE i + 1
      <3>1. DOMAIN t = 1 .. Len(s) - 1 /\ DOMAIN s = 1 .. Len(s) /\ Len(s) \in Nat /\ k \in Nat
        BY <2>1, <2>3
      <3>2. \A i \in DOMAIN t : from(i) \in DOMAIN s /\ t[i] = s[from(i)]
        BY <2>3, <3>1
      <3>3. \A i, j \in DOMAIN t : from(i) = from(j) => i = j
        BY <3>1
      <3> HIDE DEF from
      <3> QED
        BY <2>4, <3>2, <3>3
    <2>6. \A i \in DOMAIN t : t[i] # a
      BY <2>1, <2>3, <2>4
    <2>7. \A j \in DOMAIN s : s[j] # a => \E i \in DOMAIN t : t[i] = s[j]
      <3> SUFFICES ASSUME NEW j \in DOMAIN s, s[j] # a
                   PROVE  \E i \in DOMAIN t : t[i] = s[j]
        OBVIOUS
      <3>1. CASE j < k
        BY <2>1, <2>3, <3>1
      <3>2. CASE j > k
        <4>1. j - 1 \in DOMAIN t /\ t[j - 1] = s[j]
          BY <2>1, <2>3, <3>2
        <4> QED
          BY <4>1
      <3> QED
        BY <2>1, <3>1, <3>2
    <2> QED
      BY <2>2, <2>3, <2>5, <2>6, <2>7 DEF IsInjective
  <1> QED
    BY <1>1, <1>2

\* Whatever the store holds, what remove_if leaves is a store.
LEMMA WithoutTyped ==
    ASSUME NEW s \in Seq(Action), NEW a \in Action
    PROVE  Without(s, a) \in Seq(Action)
  <1>1. CASE ~ \E i \in DOMAIN s : s[i] = a
    BY <1>1 DEF Without
  <1>2. CASE \E i \in DOMAIN s : s[i] = a
    BY <1>2, RemoveAtIndex DEF Without
  <1> QED
    BY <1>1, <1>2

\* What pop_front leaves is a store that has lost its first element.
LEMMA TailOfStore ==
    ASSUME NEW s \in Seq(Action), s # <<>>
    PROVE  /\ Tail(s) \in Seq(Action)
           /\ Len(Tail(s)) = Len(s) - 1
           /\ \A i \in 1 .. Len(s) - 1 : Tail(s)[i] = s[i + 1]
           /\ Head(s) = s[1]
           /\ IsInjective(s) => IsInjective(Tail(s))
  <1>1. /\ Tail(s) \in Seq(Action)
        /\ Len(Tail(s)) = Len(s) - 1
        /\ \A i \in 1 .. Len(s) - 1 : Tail(s)[i] = s[i + 1]
        /\ Head(s) = s[1]
    OBVIOUS
  <1>2. ASSUME \A i, j \in 1 .. Len(s) : s[i] = s[j] => i = j,
               NEW i \in 1 .. Len(s) - 1, NEW j \in 1 .. Len(s) - 1,
               Tail(s)[i] = Tail(s)[j]
        PROVE  i = j
    <2>1. s[i + 1] = s[j + 1] /\ i + 1 \in 1 .. Len(s) /\ j + 1 \in 1 .. Len(s)
      BY <1>1, <1>2
    <2>2. i + 1 = j + 1
      BY <1>2, <2>1
    <2> QED
      BY <2>2
  <1>3. DOMAIN s = 1 .. Len(s) /\ DOMAIN Tail(s) = 1 .. Len(s) - 1
    BY <1>1
  <1> QED
    BY <1>1, <1>2, <1>3 DEF IsInjective

---------------------------------------------------------------------------------
(* Typing *)

\* What waits in the loop.
Waiting == [action : Action, status : Status, timed : BOOLEAN]

\* One more notice, or one less, in the loop.
LEMMA LoopQueue ==
    ASSUME NEW s \in Seq(Waiting)
    PROVE  /\ \A e \in Waiting : Append(s, e) \in Seq(Waiting)
           /\ s # <<>> => /\ Tail(s) \in Seq(Waiting)
                          /\ Head(s) \in Waiting
                          /\ Head(s).action \in Action
                          /\ Head(s).status \in Status
  <1>1. \A e \in Waiting : Append(s, e) \in Seq(Waiting)
    BY AppendProperties
  <1>2. s # <<>> => Tail(s) \in Seq(Waiting) /\ Head(s) \in Waiting
    BY HeadTailProperties
  <1>3. \A e \in Waiting : e.action \in Action /\ e.status \in Status
    BY DEF Waiting
  <1> QED
    BY <1>1, <1>2, <1>3

\* The types are kept: that a notice carries a status needs to know where the
\* threads that send it are.
LEMMA TypeStep == TypeOK /\ StatusInv /\ CallerInv /\ [Next]_vars => TypeOK'
  <1> SUFFICES ASSUME TypeOK, StatusInv, CallerInv, [Next]_vars
               PROVE  TypeOK'
    OBVIOUS
  <1> USE ThreadAssumption, NameAssumption, NoneAssumption
      DEF TypeOK, Caller, Goto, objectVars, threadVars, historyVars
  <1>1. ASSUME NEW c \in Caller, NEW a \in Action, Construct(c, a)
        PROVE  TypeOK'
    BY <1>1 DEF Construct, Status, CallerAt
  <1>2. ASSUME NEW a \in Action, NotFound(a) \/ GetStatus(a) \/ FindToRemove(a)
        PROVE  TypeOK'
    <2>1. CASE NotFound(a)
      BY <2>1 DEF NotFound, vars
    <2>2. CASE GetStatus(a)
      BY <2>2 DEF GetStatus, CallerAt
    <2>3. CASE FindToRemove(a)
      BY <2>3 DEF FindToRemove, CallerAt
    <2> QED
      BY <1>2, <2>1, <2>2, <2>3
  <1>3. ASSUME NEW c \in Caller, NotifyCreated(c)
        PROVE  TypeOK'
    <2>1. about[c] \in Action /\ status[about[c]] \in Status
      BY <1>3 DEF NotifyCreated, CallerInv, Requesting, Status
    <2>2. Notice(about[c]) \in [action : Action, status : Status, timed : BOOLEAN]
      BY <2>1 DEF Notice
    <2>3. deferred' \in Seq([action : Action, status : Status, timed : BOOLEAN])
      BY <1>3, <2>2, LoopQueue DEF NotifyCreated, Waiting
    <2> QED
      BY <1>3, <2>3 DEF NotifyCreated, CallerAt
  <1>4. ASSUME NEW c \in Caller, PushBack(c)
        PROVE  TypeOK'
    <2>1. about[c] \in Action /\ NameOf[about[c]] \in Name
      BY <1>4 DEF PushBack
    <2>2. store' \in [Name -> Seq(Action)]
      BY <1>4, <2>1 DEF PushBack
    <2> QED
      BY <1>4, <2>2 DEF PushBack, CallerAt
  <1>5. ASSUME NEW c \in Caller, PopFront(c)
        PROVE  TypeOK'
    <2> DEFINE s == store[NameOf[about[c]]]
    <2>1. about[c] \in Action /\ s \in Seq(Action)
      BY <1>5 DEF PopFront
    <2>2. store' \in [Name -> Seq(Action)] /\ evicted' \subseteq Action
      <3>1. CASE Len(s) > MaxSize
        <4>1. s # <<>> /\ Tail(s) \in Seq(Action) /\ Head(s) \in Action
          BY <2>1, <3>1, SizeAssumption
        <4>2. /\ store' = [store EXCEPT ![NameOf[about[c]]] = Tail(s)]
              /\ evicted' = evicted \cup {Head(s)}
          BY <1>5, <3>1 DEF PopFront
        <4>3. NameOf[about[c]] \in Name
          BY <2>1
        <4> QED
          BY <4>1, <4>2, <4>3
      <3>2. CASE ~(Len(s) > MaxSize)
        <4>1. store' = store /\ evicted' = evicted
          BY <1>5, <3>2 DEF PopFront
        <4> QED
          BY <4>1
      <3> QED
        BY <3>1, <3>2
    <2> QED
      BY ZenonT(60), <1>5, <2>2 DEF PopFront, CallerAt
  <1>6. ASSUME NEW c \in Caller, Spawn(c)
        PROVE  TypeOK'
    BY <1>6 DEF Spawn, CallerAt, RunnerAt
  <1>7. CASE DescribeCreated
    BY <1>7 DEF DescribeCreated, CallerAt
  <1>8. CASE GetTimeCompleted
    BY <1>8 DEF GetTimeCompleted, CallerAt
  <1>9. CASE Cancel
    BY <1>9 DEF Cancel, CallerAt
  <1>10. CASE RemoveStored
    <2>1. about[Loop] \in Action
      BY <1>10 DEF RemoveStored
    <2>2. Without(store[NameOf[about[Loop]]], about[Loop]) \in Seq(Action)
      BY <2>1, WithoutTyped
    <2> QED
      BY <1>10, <2>1, <2>2 DEF RemoveStored, CallerAt
  <1>11. CASE Publish
    <2>1. /\ Head(deferred).action \in Action /\ Head(deferred).status \in Status
          /\ deferred' \in Seq([action : Action, status : Status, timed : BOOLEAN])
      BY <1>11, LoopQueue DEF Publish, Waiting
    <2> QED
      BY <1>11, <2>1 DEF Publish
  <1>12. ASSUME NEW a \in Action, RunnerStep(a)
         PROVE  TypeOK'
    <2> USE DEF Run, runnerKeeps, Status, RunnerAt
    <2>1. CASE SetPending(a)
      BY <2>1 DEF SetPending
    <2>2. CASE NotifyPending(a) \/ NotifyCompleted(a)
      <3>1. status[a] \in Status
        BY <2>2 DEF NotifyPending, NotifyCompleted, Notify, StatusInv
      <3>2. Notice(a) \in [action : Action, status : Status, timed : BOOLEAN]
        BY <3>1 DEF Notice
      <3>3. deferred' \in Seq([action : Action, status : Status, timed : BOOLEAN])
        <4>1. deferred \in Seq(Waiting) /\ Notice(a) \in Waiting
          BY <3>2 DEF Waiting
        <4>2. Append(deferred, Notice(a)) \in Seq(Waiting)
          BY <4>1, LoopQueue
        <4>3. deferred' = Append(deferred, Notice(a))
          BY <2>2 DEF NotifyPending, NotifyCompleted, Notify
        <4> QED
          BY <4>2, <4>3 DEF Waiting
      <3> QED
        BY <2>2, <3>3 DEF NotifyPending, NotifyCompleted, Notify
    <2>3. CASE Perform(a)
      BY <2>3 DEF Perform
    <2>4. CASE SetCompleted(a)
      BY <2>4 DEF SetCompleted
    <2>5. CASE SetTimeCompleted(a)
      BY <2>5 DEF SetTimeCompleted
    <2> QED
      BY <1>12, <2>1, <2>2, <2>3, <2>4, <2>5 DEF RunnerStep
  <1>13. CASE UNCHANGED vars
    BY <1>13 DEF vars
  <1> QED
    BY <1>1, <1>2, <1>3, <1>4, <1>5, <1>6, <1>7, <1>8, <1>9, <1>10, <1>11, <1>12, <1>13
    DEF Next, Request, HandlerStep, CallStep

\* Who the callers are.
LEMMA ThreadsAreCallers == Loop \in Caller /\ \A c \in AppThread : c \in Caller
  BY DEF Caller

---------------------------------------------------------------------------------
(* Where the threads are *)

\* The thread of an action takes its status and its time through their stages.
LEMMA StatusStep == TypeOK /\ StatusInv /\ CallerInv /\ [Next]_vars => StatusInv'
  <1> SUFFICES ASSUME TypeOK, StatusInv, CallerInv, [Next]_vars
               PROVE  StatusInv'
    OBVIOUS
  <1> USE DEF TypeOK, StatusInv, objectVars
  <1>1. ASSUME NEW c \in Caller, NEW a \in Action, Construct(c, a)
        PROVE  StatusInv'
    BY <1>1, NoneAssumption DEF Construct, Status
  <1>2. ASSUME NEW c \in Caller, Spawn(c)
        PROVE  StatusInv'
    <2>1. runner[about[c]] = "none" /\ status[about[c]] = "created"
      BY <1>2 DEF Spawn, Goto, CallerInv, Requesting
    <2>2. about[c] \in Action
      BY <1>2 DEF Spawn, Goto
    <2> QED
      BY <1>2, <2>1, <2>2 DEF Spawn
  <1>3. ASSUME NEW a \in Action, RunnerStep(a)
        PROVE  StatusInv'
    <2> USE DEF Run
    <2>1. CASE SetPending(a)
      BY <2>1 DEF SetPending
    <2>2. CASE NotifyPending(a) \/ NotifyCompleted(a)
      BY <2>2 DEF NotifyPending, NotifyCompleted, Notify
    <2>3. CASE Perform(a)
      BY <2>3 DEF Perform
    <2>4. CASE SetCompleted(a)
      BY <2>4 DEF SetCompleted
    <2>5. CASE SetTimeCompleted(a)
      BY <2>5 DEF SetTimeCompleted
    <2> QED
      BY <1>3, <2>1, <2>2, <2>3, <2>4, <2>5 DEF RunnerStep
  <1>4. CASE UNCHANGED <<status, timed, runner>>
    BY <1>4
  <1>5. ASSUME NEW c \in Caller, NotifyCreated(c) \/ PushBack(c) \/ PopFront(c)
        PROVE  UNCHANGED <<status, timed, runner>>
    BY <1>5 DEF NotifyCreated, PushBack, PopFront
  <1>6. ASSUME NEW a \in Action, NotFound(a) \/ GetStatus(a) \/ FindToRemove(a)
        PROVE  UNCHANGED <<status, timed, runner>>
    BY <1>6 DEF NotFound, GetStatus, FindToRemove, vars
  <1>7. CASE DescribeCreated \/ GetTimeCompleted \/ Cancel \/ RemoveStored \/ Publish
    <2>1. UNCHANGED <<status, timed, runner>>
      BY <1>7 DEF DescribeCreated, GetTimeCompleted, Cancel, RemoveStored, Publish
    <2> QED
      BY <1>4, <2>1
  <1>8. CASE UNCHANGED vars
    BY <1>8 DEF vars
  <1> QED
    BY <1>1, <1>2, <1>3, <1>4, <1>5, <1>6, <1>7, <1>8, ThreadsAreCallers
    DEF Next, Request, HandlerStep, CallStep

\* What has been pushed stays pushed.
LEMMA EnteredGrows == TypeOK /\ [Next]_vars => Entered \subseteq Entered'
  <1> SUFFICES ASSUME TypeOK, [Next]_vars, NEW b \in Entered
               PROVE  b \in Entered'
    OBVIOUS
  <1>0. /\ b \in Action /\ status[b] # None
        /\ \A c \in Caller : about[c] = b => at[c] \notin {"notify", "push"}
    BY DEF Entered
  <1> SUFFICES /\ status'[b] # None
               /\ \A c \in Caller : about'[c] = b => at'[c] \notin {"notify", "push"}
    BY <1>0 DEF Entered
  <1> USE DEF TypeOK, Goto
  <1>1. ASSUME NEW c \in Caller, NEW a \in Action, Construct(c, a)
        PROVE  /\ status'[b] # None
               /\ \A d \in Caller : about'[d] = b => at'[d] \notin {"notify", "push"}
    BY <1>0, <1>1 DEF Construct
  <1>2. ASSUME NEW c \in Caller, CallStep(c)
        PROVE  /\ status'[b] # None
               /\ \A d \in Caller : about'[d] = b => at'[d] \notin {"notify", "push"}
    <2>1. CASE NotifyCreated(c)
      BY <1>0, <2>1 DEF NotifyCreated, objectVars
    <2>2. CASE PushBack(c)
      BY <1>0, <2>2 DEF PushBack, objectVars
    <2>3. CASE PopFront(c)
      BY <1>0, <2>3 DEF PopFront, objectVars
    <2>4. CASE Spawn(c)
      BY <1>0, <2>4, NoneAssumption DEF Spawn, objectVars
    <2> QED
      BY <1>2, <2>1, <2>2, <2>3, <2>4 DEF CallStep
  <1>3. ASSUME NEW a \in Action, GetStatus(a) \/ FindToRemove(a)
        PROVE  /\ status'[b] # None
               /\ \A d \in Caller : about'[d] = b => at'[d] \notin {"notify", "push"}
    BY <1>0, <1>3, ThreadsAreCallers DEF GetStatus, FindToRemove, objectVars
  <1>4. CASE DescribeCreated \/ GetTimeCompleted \/ Cancel \/ RemoveStored
    BY <1>0, <1>4, ThreadsAreCallers, NoneAssumption
    DEF DescribeCreated, GetTimeCompleted, Cancel, RemoveStored, objectVars
  <1>5. CASE Publish \/ UNCHANGED vars \/ \E a \in Action : NotFound(a)
    BY <1>0, <1>5 DEF Publish, NotFound, vars, objectVars, threadVars
  <1>6. ASSUME NEW a \in Action, RunnerStep(a)
        PROVE  /\ status'[b] # None
               /\ \A d \in Caller : about'[d] = b => at'[d] \notin {"notify", "push"}
    <2>1. UNCHANGED threadVars
      BY <1>6 DEF RunnerStep, SetPending, NotifyPending, NotifyCompleted, Notify,
                  Perform, SetCompleted, SetTimeCompleted, runnerKeeps
    <2>2. status' = status \/ status' = [status EXCEPT ![a] = "pending"]
                          \/ status' = [status EXCEPT ![a] = "completed"]
      BY <1>6 DEF RunnerStep, SetPending, NotifyPending, NotifyCompleted, Notify,
                  Perform, SetCompleted, SetTimeCompleted, objectVars
    <2> QED
      BY <1>0, <2>1, <2>2, NoneAssumption DEF threadVars
  <1> QED
    BY <1>1, <1>2, <1>3, <1>4, <1>5, <1>6, ThreadsAreCallers
    DEF Next, Request, HandlerStep

\* Nobody else is about the action of a request, from its construction until its
\* thread starts; what a GET or a DELETE is about has been pushed.
LEMMA CallerStep ==
    TypeOK /\ StatusInv /\ CallerInv /\ EnteredInv /\ [Next]_vars => CallerInv'
  <1> SUFFICES ASSUME TypeOK, StatusInv, CallerInv, EnteredInv, [Next]_vars
               PROVE  CallerInv'
    OBVIOUS
  <1> DEFINE Owned == \A c \in Caller : at[c] \in Requesting =>
                          status[about[c]] = "created" /\ runner[about[c]] = "none"
             Apart == \A c, d \in Caller :
                          at[c] \in Requesting /\ at[d] \in Requesting
                          /\ about[c] = about[d] => c = d
             Served == at[Loop] \in {"readTime", "cancel", "remove"} =>
                          about[Loop] \in Entered
             Told == at[Loop] = "remove" => cancelled[about[Loop]]
  <1>0. Entered \subseteq Entered' /\ (\A a \in Action : Stored(a) => a \in Entered)
    BY EnteredGrows DEF EnteredInv
  <1> USE NoneAssumption, ThreadsAreCallers
      DEF TypeOK, Goto, CallerInv, Requesting, objectVars, threadVars
  <1>k. ASSUME UNCHANGED <<status, runner>>,
               \A d \in Caller : at'[d] \in Requesting =>
                                   at[d] \in Requesting /\ about'[d] = about[d]
        PROVE  Owned' /\ Apart'
    BY <1>k
  <1>1. ASSUME NEW c \in Caller, NEW a \in Action, Construct(c, a)
        PROVE  CallerInv'
    <2>1. runner[a] = "none"
      BY <1>1 DEF Construct, StatusInv, RunnerAt
    <2>2. Owned' /\ Apart'
      BY <1>1, <2>1 DEF Construct
    <2>3. Served' /\ Told'
      BY <1>0, <1>1 DEF Construct
    <2> QED
      BY <2>2, <2>3
  <1>2. ASSUME NEW c \in Caller, CallStep(c)
        PROVE  CallerInv'
    <2>1. CASE NotifyCreated(c)
      BY <1>0, <2>1 DEF NotifyCreated
    <2>2. CASE PushBack(c)
      BY <1>0, <2>2 DEF PushBack
    <2>3. CASE PopFront(c)
      <3>1. Owned' /\ Apart'
        BY <1>k, <2>3 DEF PopFront
      <3>2. Served' /\ Told'
        BY <1>0, <2>3 DEF PopFront
      <3> QED
        BY <3>1, <3>2
    <2>4. CASE Spawn(c)
      <3>1. Owned' /\ Apart'
        BY <2>4 DEF Spawn
      <3>2. Served' /\ Told'
        BY <1>0, <2>4 DEF Spawn
      <3> QED
        BY <3>1, <3>2
    <2> QED
      BY <1>2, <2>1, <2>2, <2>3, <2>4 DEF CallStep
  <1>3. ASSUME NEW a \in Action, GetStatus(a) \/ FindToRemove(a)
        PROVE  CallerInv'
    <2>1. a \in Entered'
      BY <1>0, <1>3 DEF GetStatus, FindToRemove
    <2>2. Owned' /\ Apart'
      BY <1>k, <1>3 DEF GetStatus, FindToRemove
    <2>3. Served' /\ Told'
      BY <1>3, <2>1 DEF GetStatus, FindToRemove
    <2> QED
      BY <2>2, <2>3
  <1>4. CASE DescribeCreated \/ GetTimeCompleted \/ Cancel \/ RemoveStored
    <2>1. Owned' /\ Apart'
      BY <1>k, <1>4 DEF DescribeCreated, GetTimeCompleted, Cancel, RemoveStored
    <2>2. Served'
      BY <1>0, <1>4 DEF DescribeCreated, GetTimeCompleted, Cancel, RemoveStored
    <2>3. Told'
      BY <1>4 DEF DescribeCreated, GetTimeCompleted, Cancel, RemoveStored
    <2> QED
      BY <2>1, <2>2, <2>3
  <1>5. CASE Publish \/ UNCHANGED vars \/ \E a \in Action : NotFound(a)
    BY <1>0, <1>5 DEF Publish, NotFound, vars
  <1>6. ASSUME NEW a \in Action, RunnerStep(a)
        PROVE  CallerInv'
    <2>1. UNCHANGED <<threadVars, cancelled>>
      BY <1>6 DEF RunnerStep, SetPending, NotifyPending, NotifyCompleted, Notify,
                  Perform, SetCompleted, SetTimeCompleted, runnerKeeps
    <2>2. runner[a] # "none" /\ \A b \in Action \ {a} : /\ status'[b] = status[b]
                                                         /\ runner'[b] = runner[b]
      BY <1>6 DEF RunnerStep, SetPending, NotifyPending, NotifyCompleted, Notify,
                  Perform, SetCompleted, SetTimeCompleted, Run
    <2>3. Owned' /\ Apart'
      BY ZenonT(60), <2>1, <2>2
    <2>4. Served' /\ Told'
      BY <1>0, <2>1
    <2> QED
      BY <2>3, <2>4
  <1> QED
    BY <1>1, <1>2, <1>3, <1>4, <1>5, <1>6 DEF Next, Request, HandlerStep

---------------------------------------------------------------------------------
(* The stores *)

\* A store holds each action once, of its own name, and one too many only under
\* the mutex of add().
LEMMA StoreStep ==
    TypeOK /\ CallerInv /\ EnteredInv /\ StoreInv /\ [Next]_vars => StoreInv'
  <1> SUFFICES ASSUME TypeOK, CallerInv, EnteredInv, StoreInv, [Next]_vars,
                      NEW n \in Name
               PROVE  /\ \A i \in DOMAIN store'[n] : NameOf[store'[n][i]] = n
                      /\ IsInjective(store'[n])
                      /\ Len(store'[n]) <= MaxSize + 1
                      /\ ~Locked(n)' => Len(store'[n]) <= MaxSize
    BY DEF StoreInv
  <1> DEFINE Good == /\ \A i \in DOMAIN store'[n] : NameOf[store'[n][i]] = n
                     /\ IsInjective(store'[n])
                     /\ Len(store'[n]) <= MaxSize + 1
                     /\ ~Locked(n)' => Len(store'[n]) <= MaxSize
  <1>0. /\ store[n] \in Seq(Action)
        /\ \A i \in DOMAIN store[n] : NameOf[store[n][i]] = n
        /\ IsInjective(store[n])
        /\ Len(store[n]) <= MaxSize + 1
        /\ ~Locked(n) => Len(store[n]) <= MaxSize
        /\ MaxSize \in Nat \ {0}
    BY SizeAssumption DEF TypeOK, StoreInv
  <1>1. ASSUME store'[n] = store[n], Locked(n) => Locked(n)'
        PROVE  Good
    BY <1>0, <1>1
  <1>2. ASSUME NEW c \in Caller, PushBack(c)
        PROVE  Good
    <2>1. /\ about[c] \in Action /\ at[c] = "push" /\ ~Locked(NameOf[about[c]])
          /\ NameOf[about[c]] \in Name
          /\ store' = [store EXCEPT ![NameOf[about[c]]] = Append(@, about[c])]
          /\ at' = [at EXCEPT ![c] = "pop"] /\ about' = about
      BY <1>2, NameAssumption DEF PushBack, Goto, TypeOK
    <2>2. CASE NameOf[about[c]] # n
      <3>1. store'[n] = store[n]
        BY <2>1, <2>2 DEF TypeOK
      <3>2. Locked(n) => Locked(n)'
        BY <2>1 DEF Locked, TypeOK
      <3> QED
        BY <1>1, <3>1, <3>2
    <2>3. CASE NameOf[about[c]] = n
      <3>1. store'[n] = Append(store[n], about[c])
        BY <2>1, <2>3 DEF TypeOK
      <3>2. \A i \in DOMAIN store[n] : store[n][i] # about[c]
        <4>1. about[c] \notin Entered
          BY <2>1 DEF Entered
        <4>2. ~Stored(about[c])
          BY <2>1, <4>1 DEF EnteredInv
        <4> QED
          BY <2>3, <4>2 DEF Stored
      <3>3. Len(store'[n]) = Len(store[n]) + 1 /\ Len(store[n]) <= MaxSize
        BY <1>0, <2>1, <2>3, <3>1
      <3>4. \A i \in DOMAIN store'[n] : NameOf[store'[n][i]] = n
        BY <1>0, <2>1, <2>3, <3>1
      <3>5. IsInjective(store'[n])
        BY <1>0, <2>1, <3>1, <3>2 DEF IsInjective
      <3>6. Locked(n)'
        BY <2>1, <2>3 DEF Locked, TypeOK
      <3> QED
        BY <1>0, <3>3, <3>4, <3>5, <3>6
    <2> QED
      BY <2>2, <2>3
  <1>3. ASSUME NEW c \in Caller, PopFront(c)
        PROVE  Good
    <2> DEFINE s == store[NameOf[about[c]]]
    <2>1. /\ about[c] \in Action /\ NameOf[about[c]] \in Name /\ at[c] = "pop"
          /\ (at' = [at EXCEPT ![c] = "describe"] \/ at' = [at EXCEPT ![c] = "spawn"])
          /\ about' = about
          /\ store' = IF Len(s) > MaxSize
                      THEN [store EXCEPT ![NameOf[about[c]]] = Tail(s)] ELSE store
      BY <1>3, NameAssumption DEF PopFront, Goto, TypeOK
    <2>2. CASE NameOf[about[c]] # n
      <3>1. store'[n] = store[n]
        BY <2>1, <2>2 DEF TypeOK
      <3>2. Locked(n) => Locked(n)'
        BY <2>1, <2>2 DEF Locked, TypeOK
      <3> QED
        BY <1>1, <3>1, <3>2
    <2>3. CASE NameOf[about[c]] = n /\ ~(Len(s) > MaxSize)
      <3>1. store'[n] = store[n] /\ Len(store[n]) <= MaxSize
        BY <1>0, <2>1, <2>3
      <3> QED
        BY <1>0, <3>1
    <2>4. CASE NameOf[about[c]] = n /\ Len(s) > MaxSize
      <3>1. store'[n] = Tail(store[n]) /\ store[n] # <<>>
        BY <1>0, <2>1, <2>4 DEF TypeOK
      <3>2. /\ store'[n] \in Seq(Action) /\ Len(store'[n]) = Len(store[n]) - 1
            /\ \A i \in 1 .. Len(store[n]) - 1 : store'[n][i] = store[n][i + 1]
            /\ IsInjective(store'[n])
        BY <1>0, <3>1, TailOfStore
      <3>3. Len(store'[n]) <= MaxSize
        BY <1>0, <3>2
      <3>4. \A i \in DOMAIN store'[n] : NameOf[store'[n][i]] = n
        BY <1>0, <3>2
      <3> QED
        BY <1>0, <3>2, <3>3, <3>4
    <2> QED
      BY <2>2, <2>3, <2>4
  <1>4. CASE RemoveStored
    <2> DEFINE a == about[Loop]
    <2>1. /\ a \in Action /\ NameOf[a] \in Name /\ at[Loop] = "remove"
          /\ at' = [at EXCEPT ![Loop] = "idle"]
          /\ about' = [about EXCEPT ![Loop] = None]
          /\ store' = [store EXCEPT ![NameOf[a]] = Without(@, a)]
          /\ ~Locked(NameOf[a])
      BY <1>4, NameAssumption, ThreadsAreCallers DEF RemoveStored, Goto, TypeOK
    <2>2. Locked(n) => Locked(n)'
      BY <2>1, ThreadsAreCallers DEF Locked, TypeOK
    <2>3. CASE NameOf[a] # n
      <3>1. store'[n] = store[n]
        BY <2>1, <2>3 DEF TypeOK
      <3> QED
        BY <1>1, <2>2, <3>1
    <2>4. CASE NameOf[a] = n
      <3>1. store'[n] = Without(store[n], a)
        BY <2>1, <2>4 DEF TypeOK
      <3>2. /\ store'[n] \in Seq(Action) /\ Len(store'[n]) <= Len(store[n])
            /\ IsInjective(store'[n])
            /\ \A i \in DOMAIN store'[n] : \E j \in DOMAIN store[n] :
                  store'[n][i] = store[n][j]
        BY <1>0, <2>1, <3>1, WithoutProperties
      <3>3. Len(store'[n]) <= MaxSize
        BY <1>0, <2>1, <2>4, <3>2
      <3> QED
        BY <1>0, <3>2, <3>3
    <2> QED
      BY <2>3, <2>4
  <1>5. ASSUME store' = store, \A c \in Caller : at[c] = "pop" => at'[c] = "pop",
               \A c \in Caller : at[c] = "pop" => about'[c] = about[c]
        PROVE  Good
    <2>1. Locked(n) => Locked(n)'
      BY <1>5 DEF Locked
    <2> QED
      BY <1>1, <1>5, <2>1
  <1> USE DEF Goto, TypeOK
  <1>6. ASSUME NEW c \in Caller, NEW a \in Action, Construct(c, a)
        PROVE  Good
    BY <1>5, <1>6 DEF Construct
  <1>7. ASSUME NEW c \in Caller, NotifyCreated(c) \/ Spawn(c)
        PROVE  Good
    BY <1>5, <1>7 DEF NotifyCreated, Spawn
  <1>8. ASSUME NEW a \in Action, GetStatus(a) \/ FindToRemove(a)
        PROVE  Good
    BY <1>5, <1>8 DEF GetStatus, FindToRemove
  <1>9. CASE DescribeCreated \/ GetTimeCompleted \/ Cancel
    BY <1>5, <1>9 DEF DescribeCreated, GetTimeCompleted, Cancel
  <1>10. CASE Publish \/ UNCHANGED vars \/ \E a \in Action : NotFound(a)
    BY <1>5, <1>10 DEF Publish, NotFound, vars, threadVars
  <1>11. ASSUME NEW a \in Action, RunnerStep(a)
         PROVE  Good
    <2>1. UNCHANGED <<threadVars, store>>
      BY <1>11 DEF RunnerStep, SetPending, NotifyPending, NotifyCompleted, Notify,
                   Perform, SetCompleted, SetTimeCompleted, runnerKeeps
    <2> QED
      BY <1>5, <2>1 DEF threadVars
  <1> QED
    BY <1>2, <1>3, <1>4, <1>6, <1>7, <1>8, <1>9, <1>10, <1>11, ThreadsAreCallers
    DEF Next, Request, HandlerStep, CallStep

\* Nothing but push_back adds to what has been pushed.
LEMMA EnteredByPush ==
    ASSUME TypeOK, StatusInv, [Next]_vars, \A c \in Caller : ~PushBack(c)
    PROVE  Entered' \subseteq Entered
  <1> SUFFICES ASSUME NEW b \in Action, b \notin Entered, b \in Entered'
               PROVE  FALSE
    BY DEF Entered
  <1>0. /\ status'[b] # None
        /\ \A c \in Caller : about'[c] = b => at'[c] \notin {"notify", "push"}
    BY DEF Entered
  <1>1. status[b] = None \/ \E c \in Caller : about[c] = b /\ at[c] \in {"notify", "push"}
    BY DEF Entered
  <1>2. ASSUME status' = status, \A c \in Caller : at[c] \in {"notify", "push"} =>
                  about'[c] = about[c] /\ at'[c] \in {"notify", "push"}
        PROVE  FALSE
    BY <1>0, <1>1, <1>2
  <1> USE ThreadsAreCallers DEF Goto, TypeOK, objectVars
  <1>3. ASSUME NEW c \in Caller, NEW a \in Action, Construct(c, a)
        PROVE  FALSE
    <2>1. CASE a = b
      BY <1>0, <1>3, <2>1 DEF Construct
    <2>2. CASE a # b
      BY <1>0, <1>1, <1>3, <2>2 DEF Construct
    <2> QED
      BY <2>1, <2>2
  <1>4. ASSUME NEW c \in Caller, NotifyCreated(c) \/ PopFront(c) \/ Spawn(c)
        PROVE  FALSE
    BY <1>2, <1>4 DEF NotifyCreated, PopFront, Spawn
  <1>5. ASSUME NEW a \in Action, NotFound(a) \/ GetStatus(a) \/ FindToRemove(a)
        PROVE  FALSE
    BY <1>2, <1>5 DEF NotFound, GetStatus, FindToRemove, vars, threadVars
  <1>6. CASE DescribeCreated \/ GetTimeCompleted \/ Cancel \/ RemoveStored
    BY <1>2, <1>6 DEF DescribeCreated, GetTimeCompleted, Cancel, RemoveStored
  <1>7. CASE Publish \/ UNCHANGED vars
    BY <1>2, <1>7 DEF Publish, vars, threadVars
  <1>8. ASSUME NEW a \in Action, RunnerStep(a)
        PROVE  FALSE
    <2>1. UNCHANGED threadVars
      BY <1>8 DEF RunnerStep, SetPending, NotifyPending, NotifyCompleted, Notify,
                  Perform, SetCompleted, SetTimeCompleted, runnerKeeps
    <2>2. status[a] # None /\ \A d \in Action \ {a} : status'[d] = status[d]
      BY <1>8, NoneAssumption
      DEF RunnerStep, SetPending, NotifyPending, NotifyCompleted, Notify,
          Perform, SetCompleted, SetTimeCompleted, Run, StatusInv
    <2> QED
      BY <1>0, <1>1, <2>1, <2>2 DEF threadVars
  <1> QED
    BY <1>3, <1>4, <1>5, <1>6, <1>7, <1>8 DEF Next, Request, HandlerStep, CallStep

\* What a push, a pop and a removal do to what a lookup finds.
LEMMA PushStores ==
    ASSUME TypeOK, NEW c \in Caller, PushBack(c)
    PROVE  /\ about[c] \in Action
           /\ \A b \in Action : Stored(b)' <=> Stored(b) \/ b = about[c]
  <1>1. /\ about[c] \in Action /\ NameOf[about[c]] \in Name
        /\ store' = [store EXCEPT ![NameOf[about[c]]] = Append(@, about[c])]
    BY NameAssumption DEF PushBack, Goto, TypeOK
  <1>2. ASSUME NEW b \in Action
        PROVE  Stored(b)' <=> Stored(b) \/ b = about[c]
    <2>1. CASE NameOf[b] # NameOf[about[c]]
      <3>1. store'[NameOf[b]] = store[NameOf[b]]
        BY <1>1, <2>1, NameAssumption DEF TypeOK
      <3> QED
        BY <2>1, <3>1 DEF Stored
    <2>2. CASE NameOf[b] = NameOf[about[c]]
      <3> DEFINE s == store[NameOf[b]]
      <3>1. s \in Seq(Action) /\ store'[NameOf[b]] = Append(s, about[c])
        BY <1>1, <2>2 DEF TypeOK
      <3> HIDE DEF s
      <3>2. /\ Len(Append(s, about[c])) = Len(s) + 1
            /\ \A i \in 1 .. Len(s) : Append(s, about[c])[i] = s[i]
            /\ Append(s, about[c])[Len(s) + 1] = about[c]
            /\ Append(s, about[c]) \in Seq(Action)
        BY <1>1, <3>1, AppendProperties
      <3>3. (\E i \in DOMAIN Append(s, about[c]) : Append(s, about[c])[i] = b)
               <=> (\E i \in DOMAIN s : s[i] = b) \/ b = about[c]
        BY <3>1, <3>2
      <3> QED
        BY <3>1, <3>3 DEF Stored, s
    <2> QED
      BY <2>1, <2>2
  <1> QED
    BY <1>1, <1>2

\* The pop at the end of add() drops the oldest action of a store that is too full,
\* and no other; else it does nothing.
LEMMA PopDrops ==
    ASSUME TypeOK, StoreInv, NEW c \in Caller, PopFront(c)
    PROVE  \/ store' = store /\ evicted' = evicted
           \/ \E h \in Action : /\ Stored(h)
                                /\ evicted' = evicted \cup {h}
                                /\ \A b \in Action : Stored(b)' <=> Stored(b) /\ b # h
  <1> DEFINE n == NameOf[about[c]]
             s == store[n]
             h == Head(s)
  <1>1. /\ about[c] \in Action /\ n \in Name /\ s \in Seq(Action)
        /\ MaxSize \in Nat /\ IsInjective(s)
        /\ \A i \in DOMAIN s : NameOf[s[i]] = n
    BY NameAssumption, SizeAssumption DEF PopFront, Goto, TypeOK, StoreInv
  <1>2. CASE ~(Len(s) > MaxSize)
    BY <1>2 DEF PopFront
  <1>3. CASE Len(s) > MaxSize
    <2>1. store' = [store EXCEPT ![n] = Tail(s)] /\ evicted' = evicted \cup {h}
      BY <1>3 DEF PopFront
    <2>2. s # <<>>
      BY <1>1, <1>3
    <2>3. /\ Tail(s) \in Seq(Action) /\ Len(Tail(s)) = Len(s) - 1
          /\ \A i \in 1 .. Len(s) - 1 : Tail(s)[i] = s[i + 1]
          /\ h = s[1] /\ 1 \in DOMAIN s /\ DOMAIN s = 1 .. Len(s)
          /\ Len(s) \in Nat
      BY <1>1, <2>2, TailOfStore
    <2>4. h \in Action /\ NameOf[h] = n /\ Stored(h)
      <3>1. s[1] \in Action /\ NameOf[s[1]] = n
        <4>1. 1 \in DOMAIN s
          BY <2>3
        <4> HIDE DEF n, s
        <4> QED
          BY <1>1, <4>1
      <3>2. h \in Action /\ NameOf[h] = n
        <4> HIDE DEF n, s, h
        <4> QED
          BY <2>3, <3>1
      <3>3. store[NameOf[h]] = s
        BY <3>2, Zenon
      <3>4. Stored(h)
        <4> HIDE DEF n, s, h
        <4> QED
          BY <2>3, <3>3, Zenon DEF Stored
      <3> QED
        BY <3>2, <3>4, Zenon
    <2>5. ASSUME NEW b \in Action
          PROVE  Stored(b)' <=> Stored(b) /\ b # h
      <3>1. CASE NameOf[b] # n
        <4>1. store'[NameOf[b]] = store[NameOf[b]]
          BY <1>1, <2>1, <3>1, NameAssumption DEF TypeOK
        <4> QED
          BY <2>4, <3>1, <4>1 DEF Stored
      <3>2. CASE NameOf[b] = n
        <4>1. store'[NameOf[b]] = Tail(s)
          BY <1>1, <2>1, <3>2 DEF TypeOK
        <4>2. (\E i \in DOMAIN Tail(s) : Tail(s)[i] = b)
                 <=> (\E i \in DOMAIN s : s[i] = b) /\ b # h
          <5> HIDE DEF s, h
          <5>1. \A i, j \in 1 .. Len(s) : s[i] = s[j] => i = j
            BY <1>1, <2>3 DEF IsInjective
          <5>2. ASSUME NEW i \in DOMAIN Tail(s), Tail(s)[i] = b
                PROVE  (\E j \in DOMAIN s : s[j] = b) /\ b # h
            <6>1. i + 1 \in 1 .. Len(s) /\ s[i + 1] = b /\ i + 1 # 1
              BY <2>3, <5>2
            <6> QED
              BY <2>3, <5>1, <6>1
          <5>3. ASSUME NEW i \in DOMAIN s, s[i] = b, b # h
                PROVE  \E j \in DOMAIN Tail(s) : Tail(s)[j] = b
            <6>1. i - 1 \in 1 .. Len(s) - 1 /\ i = (i - 1) + 1
              BY <2>3, <5>3
            <6>2. i - 1 \in DOMAIN Tail(s) /\ Tail(s)[i - 1] = b
              BY <2>3, <5>3, <6>1
            <6> QED
              BY <6>2
          <5> QED
            BY <5>2, <5>3
        <4> QED
          BY <3>2, <4>1, <4>2 DEF Stored
      <3> QED
        BY <3>1, <3>2
    <2> HIDE DEF h
    <2> QED
      BY <2>1, <2>4, <2>5
  <1> QED
    BY <1>2, <1>3

\* remove_if takes out the action that the DELETE is about, and no other.
LEMMA RemoveUnstores ==
    ASSUME TypeOK, StoreInv, RemoveStored
    PROVE  /\ about[Loop] \in Action
           /\ \A b \in Action : Stored(b)' <=> Stored(b) /\ b # about[Loop]
  <1> DEFINE a == about[Loop]
             n == NameOf[a]
             s == store[n]
             t == Without(s, a)
  <1>1. /\ a \in Action /\ n \in Name /\ s \in Seq(Action) /\ IsInjective(s)
        /\ store' = [store EXCEPT ![n] = t]
    BY NameAssumption, ThreadsAreCallers DEF RemoveStored, Goto, TypeOK, StoreInv
  <1>2. /\ \A i \in DOMAIN t : t[i] # a
        /\ \A i \in DOMAIN t : \E j \in DOMAIN s : t[i] = s[j]
        /\ \A j \in DOMAIN s : s[j] # a => \E i \in DOMAIN t : t[i] = s[j]
    BY <1>1, WithoutProperties
  <1>3. ASSUME NEW b \in Action
        PROVE  Stored(b)' <=> Stored(b) /\ b # a
    <2>1. CASE NameOf[b] # n
      <3>1. store'[NameOf[b]] = store[NameOf[b]]
        BY <1>1, <2>1, NameAssumption DEF TypeOK
      <3> QED
        BY <2>1, <3>1 DEF Stored
    <2>2. CASE NameOf[b] = n
      <3>1. store'[NameOf[b]] = t
        BY <1>1, <2>2 DEF TypeOK
      <3> HIDE DEF t, s
      <3>2. (\E i \in DOMAIN t : t[i] = b) <=> (\E i \in DOMAIN s : s[i] = b) /\ b # a
        BY <1>2
      <3> QED
        BY <2>2, <3>1, <3>2 DEF Stored, s
    <2> QED
      BY <2>1, <2>2
  <1> QED
    BY <1>1, <1>3

\* A pushed action is in its store or has left it, by a DELETE that cancelled it or
\* because the store was full, and does not come back.
LEMMA EnteredStep ==
    TypeOK /\ StatusInv /\ CallerInv /\ EnteredInv /\ StoreInv /\ [Next]_vars => EnteredInv'
  <1> SUFFICES ASSUME TypeOK, StatusInv, CallerInv, EnteredInv, StoreInv, [Next]_vars
               PROVE  EnteredInv'
    OBVIOUS
  <1>0. Entered \subseteq Entered' /\ Entered' \subseteq Action
    BY EnteredGrows DEF Entered
  <1>1. ASSUME NEW c \in Caller, PushBack(c)
        PROVE  EnteredInv'
    <2> DEFINE a == about[c]
    <2>1. /\ a \in Action /\ a \notin Entered
          /\ \A b \in Action : Stored(b)' <=> Stored(b) \/ b = a
      BY <1>1, PushStores DEF PushBack, Goto, Entered
    <2>2. UNCHANGED <<status, about, removed, evicted, cancelled>>
          /\ at' = [at EXCEPT ![c] = "pop"] /\ at[c] = "push"
      BY <1>1 DEF PushBack, Goto, objectVars, historyVars
    <2>3. Entered' = Entered \cup {a}
      <3>1. a \in Entered'
        <4>1. status[a] # None
          BY <2>2, NoneAssumption DEF CallerInv, Requesting
        <4>2. \A d \in Caller : about[d] = a => at'[d] \notin {"notify", "push"}
          BY <2>2 DEF CallerInv, Requesting, TypeOK
        <4> QED
          BY <2>1, <2>2, <4>1, <4>2 DEF Entered
      <3>2. ASSUME NEW b \in Entered', b # a
            PROVE  b \in Entered
        BY <2>2, <3>2 DEF Entered, TypeOK
      <3> QED
        BY <1>0, <3>1, <3>2
    <2> QED
      BY <2>1, <2>2, <2>3, <1>0 DEF EnteredInv, TypeOK
  <1>2. ASSUME \A c \in Caller : ~PushBack(c)
        PROVE  Entered' = Entered
    BY <1>0, <1>2, EnteredByPush
  <1>3. ASSUME NEW c \in Caller, PopFront(c)
        PROVE  EnteredInv'
    <2>1. \A d \in Caller : ~PushBack(d)
      BY <1>3 DEF PopFront, PushBack, Goto, TypeOK, Caller
    <2>2. Entered' = Entered
      BY <1>2, <2>1
    <2>3. UNCHANGED <<removed, cancelled>>
      BY <1>3 DEF PopFront, objectVars
    <2>4. CASE store' = store /\ evicted' = evicted
      BY <2>2, <2>3, <2>4 DEF EnteredInv, Stored
    <2>5. ASSUME NEW h \in Action, Stored(h), evicted' = evicted \cup {h},
                 \A b \in Action : Stored(b)' <=> Stored(b) /\ b # h
          PROVE  EnteredInv'
      BY <1>0, <2>2, <2>3, <2>5 DEF EnteredInv, TypeOK
    <2> QED
      BY <1>3, <2>4, <2>5, PopDrops
  <1>4. CASE RemoveStored
    <2>1. \A d \in Caller : ~PushBack(d)
      BY <1>4 DEF RemoveStored, PushBack, Goto, TypeOK, Caller
    <2>2. Entered' = Entered
      BY <1>2, <2>1
    <2>3. /\ UNCHANGED <<evicted, cancelled>> /\ removed' = removed \cup {about[Loop]}
          /\ cancelled[about[Loop]] /\ about[Loop] \in Entered
      BY <1>4 DEF RemoveStored, Goto, objectVars, CallerInv
    <2> QED
      BY <1>4, <1>0, <2>2, <2>3, RemoveUnstores DEF EnteredInv, TypeOK
  <1>5. ASSUME UNCHANGED <<store, removed, evicted>>,
               \A a \in Action : cancelled[a] => cancelled'[a]
        PROVE  EnteredInv'
    <2>1. \A a \in Action : Stored(a)' <=> Stored(a)
      BY <1>5 DEF Stored
    <2>2. ASSUME NEW c \in Caller, PushBack(c)
          PROVE  FALSE
      <3>1. about[c] \in Action /\ Stored(about[c])
        BY <2>1, <2>2, PushStores
      <3>2. about[c] \notin Entered
        BY <2>2 DEF PushBack, Goto, Entered
      <3> QED
        BY <3>1, <3>2 DEF EnteredInv
    <2>3. Entered' = Entered
      BY <1>2, <2>2
    <2>4. Entered \subseteq Action /\ removed \subseteq Action /\ evicted \subseteq Action
      BY DEF Entered, TypeOK
    <2>5. \A a \in removed' : cancelled'[a]
      BY <1>5, <2>4 DEF EnteredInv
    <2>6. (\A a \in Action : Stored(a) => a \in Entered)'
      BY <2>1, <2>3 DEF EnteredInv
    <2>7. (\A a \in Entered : Stored(a) \/ a \in removed \cup evicted)'
      BY <1>5, <2>1, <2>3, <2>4 DEF EnteredInv
    <2>8. (\A a \in removed \cup evicted : ~Stored(a))'
      BY <1>5, <2>1, <2>4 DEF EnteredInv
    <2>9. (removed \cup evicted \subseteq Entered)'
      BY <1>5, <2>3 DEF EnteredInv
    <2> QED
      BY <2>5, <2>6, <2>7, <2>8, <2>9 DEF EnteredInv
  <1> USE DEF objectVars, historyVars
  <1>6. ASSUME NEW c \in Caller, NEW a \in Action, Construct(c, a)
        PROVE  EnteredInv'
    BY <1>5, <1>6 DEF Construct
  <1>7. ASSUME NEW c \in Caller, NotifyCreated(c) \/ Spawn(c)
        PROVE  EnteredInv'
    BY <1>5, <1>7 DEF NotifyCreated, Spawn
  <1>8. ASSUME NEW a \in Action, NotFound(a) \/ GetStatus(a) \/ FindToRemove(a)
        PROVE  EnteredInv'
    BY <1>5, <1>8 DEF NotFound, GetStatus, FindToRemove, vars
  <1>9. CASE DescribeCreated \/ GetTimeCompleted \/ Publish \/ UNCHANGED vars
    BY <1>5, <1>9 DEF DescribeCreated, GetTimeCompleted, Publish, vars
  <1>10. CASE Cancel
    BY <1>5, <1>10 DEF Cancel, TypeOK
  <1>11. ASSUME NEW a \in Action, RunnerStep(a)
         PROVE  EnteredInv'
    <2>1. UNCHANGED <<store, cancelled, removed, evicted>>
      BY <1>11 DEF RunnerStep, SetPending, NotifyPending, NotifyCompleted, Notify,
                   Perform, SetCompleted, SetTimeCompleted, runnerKeeps
    <2> QED
      BY <1>5, <2>1
  <1> QED
    BY <1>1, <1>3, <1>4, <1>6, <1>7, <1>8, <1>9, <1>10, <1>11, ThreadsAreCallers
    DEF Next, Request, HandlerStep, CallStep

---------------------------------------------------------------------------------
(* The notices *)

\* Each status has its place in the progress of an action.
LEMMA PlaceInProgress ==
    /\ \A st \in Status : Place(st) \in 1 .. 3 /\ Progress[Place(st)] = st
    /\ Progress \in Seq(Status) /\ Len(Progress) = 3
  BY DEF Place, Progress, Status

\* So has the status that a notice carries.
LEMMA NoticePlace ==
    \A e \in Waiting : /\ e.action \in Action /\ e.status \in Status
                      /\ Place(e.status) \in Nat
  <1>1. \A e \in Waiting : e.action \in Action /\ e.status \in Status
    BY DEF Waiting
  <1> QED
    BY <1>1, PlaceInProgress

\* One more notice: the next one of its action.
LEMMA Enqueue ==
    ASSUME NEW queue \in Seq(Waiting), NEW heard \in [Action -> Nat],
           NEW sent \in [Action -> Nat], NEW e \in Waiting,
           Waits(queue, heard, sent), \A a \in Action : heard[a] <= sent[a],
           Place(e.status) = sent[e.action] + 1
    PROVE  Waits(Append(queue, e), heard, [sent EXCEPT ![e.action] = @ + 1])
  <1> DEFINE n == Len(queue)
             q == Append(queue, e)
             more == [sent EXCEPT ![e.action] = @ + 1]
  <1>1. /\ n \in Nat /\ DOMAIN queue = 1 .. n /\ DOMAIN q = 1 .. n + 1
        /\ \A i \in 1 .. n : q[i] = queue[i]
        /\ q[n + 1] = e
    BY AppendProperties
  <1>2. /\ \A i \in 1 .. n : /\ queue[i].action \in Action
                             /\ Place(queue[i].status) \in Nat
        /\ e.action \in Action
    BY <1>1, ElementOfSeq, NoticePlace
  <1>3. /\ \A a \in Action : sent[a] <= more[a] /\ more[a] \in Nat
        /\ more[e.action] = sent[e.action] + 1
        /\ \A a \in Action : a # e.action => more[a] = sent[a]
    BY <1>2
  <1>4. /\ \A i \in 1 .. n : /\ heard[queue[i].action] < Place(queue[i].status)
                             /\ Place(queue[i].status) <= sent[queue[i].action]
        /\ \A i, j \in 1 .. n : i < j /\ queue[i].action = queue[j].action =>
                                 Place(queue[i].status) < Place(queue[j].status)
        /\ \A a \in Action : \A k \in heard[a] + 1 .. sent[a] : \E i \in 1 .. n :
              queue[i].action = a /\ Place(queue[i].status) = k
    BY ZenonT(60), <1>1 DEF Waits
  <1> HIDE DEF n, q, more
  <1>5. ASSUME NEW i \in 1 .. n + 1
        PROVE  /\ heard[q[i].action] < Place(q[i].status)
               /\ Place(q[i].status) <= more[q[i].action]
    <2>1. CASE i \in 1 .. n
      BY <1>1, <1>2, <1>3, <1>4, <2>1
    <2>2. CASE i = n + 1
      BY <1>1, <1>2, <1>3, <2>2
    <2> QED
      BY <1>1, <2>1, <2>2
  <1>6. ASSUME NEW i \in 1 .. n + 1, NEW j \in 1 .. n + 1, i < j,
               q[i].action = q[j].action
        PROVE  Place(q[i].status) < Place(q[j].status)
    <2>1. CASE j \in 1 .. n
      BY <1>1, <1>4, <1>6, <2>1
    <2>2. CASE j = n + 1
      <3>1. i \in 1 .. n /\ q[i] = queue[i] /\ q[j] = e
        BY <1>1, <1>6, <2>2
      <3>2. Place(queue[i].status) <= sent[e.action] /\ sent[e.action] \in Nat
        BY <1>2, <1>4, <1>6, <3>1
      <3> QED
        BY <1>2, <3>1, <3>2
    <2> QED
      BY <1>1, <2>1, <2>2
  <1>7. ASSUME NEW a \in Action, NEW k \in heard[a] + 1 .. more[a]
        PROVE  \E i \in 1 .. n + 1 : q[i].action = a /\ Place(q[i].status) = k
    <2>1. CASE k \in heard[a] + 1 .. sent[a]
      <3>1. PICK i \in 1 .. n : queue[i].action = a /\ Place(queue[i].status) = k
        BY <1>4, <2>1
      <3>2. i \in 1 .. n + 1
        BY <1>1
      <3> QED
        BY <1>1, <3>1, <3>2
    <2>2. CASE a = e.action /\ k = sent[a] + 1
      <3>1. n + 1 \in 1 .. n + 1
        BY <1>1
      <3> QED
        BY <1>1, <2>2, <3>1
    <2> QED
      BY <1>3, <2>1, <2>2
  <1> QED
    BY <1>1, <1>5, <1>6, <1>7 DEF Waits, q, more

\* One notice less: the oldest is the next one of its action to be heard.
LEMMA Dequeue ==
    ASSUME NEW queue \in Seq(Waiting), NEW heard \in [Action -> Nat],
           NEW sent \in [Action -> Nat], queue # <<>>, Waits(queue, heard, sent)
    PROVE  LET h == Head(queue) IN
           /\ Place(h.status) = heard[h.action] + 1
           /\ heard[h.action] + 1 <= sent[h.action]
           /\ Waits(Tail(queue), [heard EXCEPT ![h.action] = @ + 1], sent)
  <1> DEFINE n == Len(queue)
             h == Head(queue)
             q == Tail(queue)
             more == [heard EXCEPT ![h.action] = @ + 1]
  <1>1. /\ n \in Nat \ {0} /\ DOMAIN queue = 1 .. n /\ DOMAIN q = 1 .. n - 1
        /\ \A i \in 1 .. n - 1 : q[i] = queue[i + 1]
        /\ h = queue[1]
    BY HeadTailProperties, EmptySeq
  <1>2. \A i \in 1 .. n : /\ queue[i].action \in Action
                         /\ Place(queue[i].status) \in Nat
    BY <1>1, ElementOfSeq, NoticePlace
  <1> HIDE DEF n, h, q
  <1>3. /\ \A i \in 1 .. n : /\ heard[queue[i].action] < Place(queue[i].status)
                             /\ Place(queue[i].status) <= sent[queue[i].action]
        /\ \A i, j \in 1 .. n : i < j /\ queue[i].action = queue[j].action =>
                                 Place(queue[i].status) < Place(queue[j].status)
        /\ \A a \in Action : \A k \in heard[a] + 1 .. sent[a] : \E i \in 1 .. n :
              queue[i].action = a /\ Place(queue[i].status) = k
    <2>1. DOMAIN queue = 1 .. n
      BY <1>1
    <2> QED
      BY <2>1, Zenon DEF Waits
  <1>4. h.action \in Action /\ Place(h.status) \in Nat /\ 1 \in 1 .. n
    BY <1>1, <1>2
  <1>5. /\ more[h.action] = heard[h.action] + 1
        /\ \A a \in Action : a # h.action => more[a] = heard[a]
        /\ \A a \in Action : heard[a] \in Nat /\ sent[a] \in Nat
    BY <1>4
  <1> HIDE DEF more
  <1>6. Place(h.status) = heard[h.action] + 1 /\ heard[h.action] + 1 <= sent[h.action]
    <2>1. heard[h.action] < Place(h.status) /\ Place(h.status) <= sent[h.action]
      BY <1>1, <1>3, <1>4
    <2>2. PICK i \in 1 .. n : /\ queue[i].action = h.action
                              /\ Place(queue[i].status) = heard[h.action] + 1
      <3>1. heard[h.action] + 1 \in heard[h.action] + 1 .. sent[h.action]
        BY <1>4, <1>5, <2>1
      <3> QED
        BY <1>3, <1>4, <3>1
    <2>3. CASE i = 1
      BY <1>1, <1>4, <1>5, <2>1, <2>2, <2>3
    <2>4. CASE 1 < i
      <3>1. Place(h.status) < heard[h.action] + 1
        BY <1>1, <1>3, <1>4, <2>2, <2>4
      <3> QED
        BY <1>4, <1>5, <2>1, <3>1
    <2> QED
      BY <1>1, <2>3, <2>4
  <1>7. ASSUME NEW i \in 1 .. n - 1
        PROVE  /\ more[q[i].action] < Place(q[i].status)
               /\ Place(q[i].status) <= sent[q[i].action]
    <2>1. i + 1 \in 1 .. n /\ q[i] = queue[i + 1] /\ 1 < i + 1
      BY <1>1
    <2>2. /\ heard[q[i].action] < Place(q[i].status)
          /\ Place(q[i].status) <= sent[q[i].action]
          /\ q[i].action \in Action /\ Place(q[i].status) \in Nat
      BY <1>2, <1>3, <2>1
    <2>3. CASE q[i].action = h.action
      <3>1. Place(h.status) < Place(q[i].status)
        BY <1>1, <1>3, <1>4, <2>1, <2>3
      <3> QED
        BY <1>5, <1>6, <2>2, <2>3, <3>1
    <2>4. CASE q[i].action # h.action
      BY <1>5, <2>2, <2>4
    <2> QED
      BY <2>3, <2>4
  <1>8. ASSUME NEW i \in 1 .. n - 1, NEW j \in 1 .. n - 1, i < j,
               q[i].action = q[j].action
        PROVE  Place(q[i].status) < Place(q[j].status)
    <2>1. /\ i + 1 \in 1 .. n /\ j + 1 \in 1 .. n /\ i + 1 < j + 1
          /\ q[i] = queue[i + 1] /\ q[j] = queue[j + 1]
      BY <1>1, <1>8
    <2> QED
      BY <1>3, <1>8, <2>1
  <1>9. ASSUME NEW a \in Action, NEW k \in more[a] + 1 .. sent[a]
        PROVE  \E i \in 1 .. n - 1 : q[i].action = a /\ Place(q[i].status) = k
    <2>1. k \in heard[a] + 1 .. sent[a] /\ (a = h.action => k # heard[a] + 1)
      BY <1>5
    <2>2. PICK i \in 1 .. n : queue[i].action = a /\ Place(queue[i].status) = k
      BY <1>3, <2>1
    <2>3. i # 1
      BY <1>1, <1>6, <2>1, <2>2
    <2>4. i - 1 \in 1 .. n - 1 /\ q[i - 1] = queue[i]
      BY <1>1, <2>3
    <2> QED
      BY <2>2, <2>4
  <1>10. Waits(q, more, sent)
    <2>1. DOMAIN q = 1 .. n - 1
      BY <1>1
    <2> QED
      <3>1. \A i \in DOMAIN q : /\ more[q[i].action] < Place(q[i].status)
                                /\ Place(q[i].status) <= sent[q[i].action]
        BY <1>7, <2>1
      <3>2. \A i, j \in DOMAIN q : i < j /\ q[i].action = q[j].action =>
                                       Place(q[i].status) < Place(q[j].status)
        BY <1>8, <2>1
      <3>3. \A a \in Action : \A k \in more[a] + 1 .. sent[a] :
               \E i \in DOMAIN q : q[i].action = a /\ Place(q[i].status) = k
        BY <1>9, <2>1
      <3> QED
        BY <3>1, <3>2, <3>3 DEF Waits
  <1> QED
    BY <1>6, <1>10 DEF h, q, more

\* The two counts of an action's notices are numbers.
LEMMA CountTypes == TypeOK => Heard \in [Action -> Nat] /\ Sent \in [Action -> Nat]
  BY DEF TypeOK, Heard, Sent

\* One notice more of one action, and none of the others, as one change of the count.
LEMMA SentOneMore ==
    ASSUME NEW a \in Action, Sent'[a] = Sent[a] + 1,
           \A b \in Action : b # a => Sent'[b] = Sent[b]
    PROVE  Sent' = [Sent EXCEPT ![a] = @ + 1]
  <1>1. Sent' = [b \in Action |-> Sent'[b]] /\ Sent = [b \in Action |-> Sent[b]]
    BY DEF Sent
  <1> QED
    BY <1>1

\* A request that is under way, and a thread that runs, are known to be so.
LEMMA Announced ==
    ASSUME TypeOK, StatusInv, CallerInv, NEW a \in Action, runner[a] # "none"
    PROVE  ~Unannounced(a)
  BY NoneAssumption DEF Unannounced, TypeOK, StatusInv, CallerInv, Requesting, RunnerAt

\* A step that neither sends nor publishes.
LEMMA NoNotice ==
    ASSUME NoticeInv, UNCHANGED <<deferred, published>>, Sent' = Sent,
           (at[Loop] = "push" => Heard[about[Loop]] = 0)'
    PROVE  NoticeInv'
  <1>1. Heard' = Heard
    BY DEF Heard
  <1>2. Waits(deferred, Heard, Sent)'
    BY <1>1 DEF NoticeInv, Waits
  <1> QED
    BY <1>1, <1>2 DEF NoticeInv

\* A step that sends the notice of an action that comes next.
LEMMA SendNotice ==
    ASSUME TypeOK, NoticeInv, NEW a \in Action, Notice(a) \in Waiting,
           deferred' = Append(deferred, Notice(a)), published' = published,
           Place(status[a]) = Sent[a] + 1, Sent' = [Sent EXCEPT ![a] = @ + 1],
           (at[Loop] = "push" => Heard[about[Loop]] = 0)'
    PROVE  NoticeInv'
  <1>1. Heard' = Heard
    BY DEF Heard
  <1>2. /\ deferred \in Seq(Waiting)
        /\ Notice(a).action = a /\ Notice(a).status = status[a]
    BY DEF TypeOK, Waiting, Notice
  <1>3. Waits(deferred, Heard, Sent) /\ \A b \in Action : Heard[b] <= Sent[b]
    BY DEF NoticeInv
  <1>4. Waits(Append(deferred, Notice(a)), Heard, [Sent EXCEPT ![a] = @ + 1])
    BY <1>2, <1>3, CountTypes, Enqueue
  <1>5. Waits(deferred, Heard, Sent)'
    BY <1>1, <1>4 DEF Waits
  <1>6. \A b \in Action : Heard[b] <= Sent'[b]
    BY <1>3, CountTypes
  <1> QED
    BY <1>1, <1>5, <1>6 DEF NoticeInv

\* The loop publishes what was sent first.
LEMMA PublishNext ==
    ASSUME TypeOK, NoticeInv, Publish, Sent' = Sent
    PROVE  NoticeInv'
  <1> DEFINE h == Head(deferred)
             a == h.action
  <1>1. /\ deferred \in Seq(Waiting) /\ deferred # <<>>
        /\ Waits(deferred, Heard, Sent)
    BY DEF TypeOK, Waiting, Publish, NoticeInv
  <1>2. /\ Place(h.status) = Heard[a] + 1
        /\ Heard[a] + 1 <= Sent[a]
        /\ Waits(Tail(deferred), [Heard EXCEPT ![a] = @ + 1], Sent)
    BY <1>1, CountTypes, Dequeue
  <1>3. a \in Action /\ h.status \in Status /\ Progress[Place(h.status)] = h.status
    BY <1>1, LoopQueue, PlaceInProgress
  <1>4. /\ deferred' = Tail(deferred) /\ at'[Loop] = "idle"
        /\ published' = [published EXCEPT ![a] = Append(@, h.status)]
    BY DEF Publish, threadVars
  <1> HIDE DEF h
  <1>5. /\ published[a] \in Seq(Status)
        /\ published'[a] = Append(published[a], h.status)
        /\ \A b \in Action : b # a => published'[b] = published[b]
    BY <1>3, <1>4 DEF TypeOK
  <1>6. /\ Len(published'[a]) = Len(published[a]) + 1
        /\ \A k \in 1 .. Len(published[a]) : published'[a][k] = published[a][k]
        /\ published'[a][Len(published[a]) + 1] = h.status
    BY <1>3, <1>5, AppendProperties
  <1>7. Heard' = [Heard EXCEPT ![a] = @ + 1]
    BY <1>3, <1>5, <1>6 DEF Heard
  <1>8. Waits(deferred, Heard, Sent)'
    BY <1>2, <1>4, <1>7 DEF Waits
  <1>9. ASSUME NEW b \in Action
        PROVE  /\ Heard'[b] <= Sent[b]
               /\ \A k \in 1 .. Heard'[b] : published'[b][k] = Progress[k]
    <2>1. Heard[b] <= Sent[b] /\ \A k \in 1 .. Heard[b] : published[b][k] = Progress[k]
      BY DEF NoticeInv
    <2>2. CASE b = a
      <3>1. Heard'[b] = Heard[a] + 1 /\ Heard[a] \in Nat /\ Heard[a] = Len(published[a])
        BY <1>3, <1>7, <2>2, CountTypes DEF Heard
      <3> QED
        BY <1>2, <1>3, <1>6, <2>1, <2>2, <3>1
    <2>3. CASE b # a
      BY <1>5, <1>7, <2>1, <2>3, CountTypes
    <2> QED
      BY <2>2, <2>3
  <1> QED
    BY <1>4, <1>8, <1>9 DEF NoticeInv

\* Announcements, the two notices of an action's thread and the publication keep the
\* count and the order of the notices; no other step touches either.
LEMMA NoticeStep ==
    TypeOK /\ StatusInv /\ CallerInv /\ NoticeInv /\ [Next]_vars => NoticeInv'
  <1> SUFFICES ASSUME TypeOK, StatusInv, CallerInv, NoticeInv, [Next]_vars
               PROVE  NoticeInv'
    OBVIOUS
  <1>0. \A c \in Caller : at[c] # "idle" => about[c] \in Action
    BY DEF TypeOK
  <1>1. ASSUME UNCHANGED runner,
               \A b \in Action : Unannounced(b)' <=> Unannounced(b)
        PROVE  Sent' = Sent
    BY <1>1 DEF Sent
  <1>2. ASSUME UNCHANGED <<runner, status>>,
               \A c \in Caller : at'[c] = "notify" <=> at[c] = "notify",
               \A c \in Caller : at[c] = "notify" => about'[c] = about[c]
        PROVE  Sent' = Sent
    BY <1>1, <1>2 DEF Unannounced
  <1>3. ASSUME published' = published, at'[Loop] = "push" => at[Loop] = "push",
               at[Loop] = "push" => about'[Loop] = about[Loop]
        PROVE  (at[Loop] = "push" => Heard[about[Loop]] = 0)'
    BY <1>3 DEF NoticeInv, Heard
  <1> USE ThreadsAreCallers DEF TypeOK, Goto, objectVars
  <1>4. ASSUME NEW c \in Caller, NEW a \in Action, Construct(c, a)
        PROVE  NoticeInv'
    <2>1. /\ status[a] = None /\ at'[c] = "notify" /\ about'[c] = a
          /\ about[c] = None /\ at[c] = "idle"
          /\ \A d \in Caller : d # c => at'[d] = at[d] /\ about'[d] = about[d]
          /\ \A b \in Action : b # a => status'[b] = status[b]
      BY <1>4 DEF Construct
    <2>2. \A b \in Action : Unannounced(b)' <=> Unannounced(b)
      BY <2>1 DEF Unannounced
    <2>3. Sent' = Sent
      BY <1>1, <1>4, <2>2 DEF Construct
    <2> QED
      BY <1>3, <1>4, <2>3, NoNotice DEF Construct
  <1>5. ASSUME NEW c \in Caller, NotifyCreated(c)
        PROVE  NoticeInv'
    <2> SUFFICES ASSUME NEW a \in Action, a = about[c]
                 PROVE  NoticeInv'
      BY <1>5 DEF NotifyCreated
    <2>1. /\ a = about[c] /\ at[c] = "notify" /\ at' = [at EXCEPT ![c] = "push"]
          /\ about' = about /\ status' = status /\ runner' = runner
          /\ deferred' = Append(deferred, Notice(a)) /\ published' = published
      BY <1>5 DEF NotifyCreated
    <2>2. status[a] = "created" /\ runner[a] = "none"
      BY <2>1 DEF CallerInv, Requesting
    <2>3. Unannounced(a) /\ ~Unannounced(a)'
          /\ \A b \in Action : b # a => (Unannounced(b)' <=> Unannounced(b))
      <3>1. \A d \in Caller : at[d] = "notify" /\ about[d] = a => d = c
        BY <2>1 DEF CallerInv, Requesting
      <3> QED
        BY <2>1, <2>2, <3>1, NoneAssumption DEF Unannounced
    <2>4. Sent[a] = 0 /\ Sent' = [Sent EXCEPT ![a] = @ + 1]
      <3>1. Sent[a] = 0 /\ Sent'[a] = 1
        BY <2>1, <2>2, <2>3 DEF Sent
      <3>2. \A b \in Action : b # a => Sent'[b] = Sent[b]
        BY <2>1, <2>3 DEF Sent
      <3> QED
        BY <2>1, <3>1, <3>2, SentOneMore
    <2>5. Notice(a) \in Waiting /\ Place(status[a]) = 1
      BY <2>1, <2>2 DEF Notice, Waiting, Status, Place
    <2>6. (at[Loop] = "push" => Heard[about[Loop]] = 0)'
      <3>1. CASE c = Loop
        <4>1. Heard[a] = 0
          BY <2>1, <2>4, CountTypes DEF NoticeInv
        <4> QED
          BY <2>1, <3>1, <4>1 DEF Heard
      <3>2. CASE c # Loop
        BY <1>3, <2>1, <3>2
      <3> QED
        BY <3>1, <3>2
    <2>7. Place(status[a]) = Sent[a] + 1
      BY <2>4, <2>5
    <2> QED
      BY <2>1, <2>4, <2>5, <2>6, <2>7, SendNotice
  <1>6. ASSUME NEW c \in Caller, PushBack(c) \/ PopFront(c)
        PROVE  NoticeInv'
    <2>1. Sent' = Sent
      BY <1>2, <1>6 DEF PushBack, PopFront
    <2> QED
      BY <1>3, <1>6, <2>1, NoNotice DEF PushBack, PopFront
  <1>7. ASSUME NEW c \in Caller, Spawn(c)
        PROVE  NoticeInv'
    <2>1. /\ about[c] \in Action /\ runner[about[c]] = "none" /\ status' = status
          /\ runner' = [runner EXCEPT ![about[c]] = "start"]
          /\ at[c] = "spawn" /\ at' = [at EXCEPT ![c] = "idle"]
          /\ about' = [about EXCEPT ![c] = None]
      BY <1>7 DEF Spawn, CallerInv, Requesting
    <2>2. \A b \in Action : Unannounced(b)' <=> Unannounced(b)
      BY <2>1 DEF Unannounced
    <2>3. Sent' = Sent
      BY <2>1, <2>2 DEF Sent
    <2> QED
      BY <1>3, <1>7, <2>3, NoNotice DEF Spawn
  <1>8. ASSUME NEW a \in Action, NotFound(a) \/ GetStatus(a) \/ FindToRemove(a)
        PROVE  NoticeInv'
    <2>1. Sent' = Sent
      BY <1>2, <1>8 DEF NotFound, GetStatus, FindToRemove, vars, threadVars
    <2> QED
      BY <1>3, <1>8, <2>1, NoNotice DEF NotFound, GetStatus, FindToRemove, vars, threadVars
  <1>9. CASE DescribeCreated \/ GetTimeCompleted \/ Cancel \/ RemoveStored
    <2>1. Sent' = Sent
      BY <1>2, <1>9 DEF DescribeCreated, GetTimeCompleted, Cancel, RemoveStored
    <2> QED
      BY <1>3, <1>9, <2>1, NoNotice DEF DescribeCreated, GetTimeCompleted, Cancel, RemoveStored
  <1>10. CASE Publish
    <2>1. Sent' = Sent
      BY <1>2, <1>10 DEF Publish, threadVars
    <2> QED
      BY <1>10, <2>1, PublishNext
  <1>11. CASE UNCHANGED vars
    <2>1. Sent' = Sent
      BY <1>2, <1>11 DEF vars, threadVars
    <2> QED
      BY <1>3, <1>11, <2>1, NoNotice DEF vars, threadVars
  <1>12. ASSUME NEW a \in Action, RunnerStep(a)
         PROVE  NoticeInv'
    <2> USE DEF RunnerStep, SetPending, NotifyPending, NotifyCompleted, Notify,
                Perform, SetCompleted, SetTimeCompleted, Run, runnerKeeps
    <2>1. /\ UNCHANGED <<at, about, published>>
          /\ runner[a] # "none" /\ runner'[a] # "none"
          /\ \A b \in Action : b # a => /\ runner'[b] = runner[b]
                                        /\ status'[b] = status[b]
      BY <1>12 DEF threadVars
    <2>2. \A b \in Action : b # a => (Unannounced(b)' <=> Unannounced(b))
      BY <2>1 DEF Unannounced
    <2>3. ~Unannounced(a) /\ ~Unannounced(a)'
      <3>1. ~Unannounced(a) /\ \A c \in Caller : about[c] = a => at[c] # "notify"
        BY <2>1, Announced DEF Unannounced
      <3>2. status'[a] # None
        BY <1>12, <3>1, NoneAssumption DEF Unannounced
      <3> QED
        BY <2>1, <3>1, <3>2 DEF Unannounced
    <2>4. (at[Loop] = "push" => Heard[about[Loop]] = 0)'
      BY <1>3, <2>1
    <2>5. CASE SetPending(a) \/ Perform(a) \/ SetCompleted(a) \/ SetTimeCompleted(a)
      <3>1. Sent' = Sent
        BY <2>1, <2>2, <2>3, <2>5 DEF Sent
      <3> QED
        BY <2>1, <2>4, <2>5, <3>1, NoNotice
    <2>6. CASE NotifyPending(a) \/ NotifyCompleted(a)
      <3>1. Place(status[a]) = Sent[a] + 1 /\ status[a] \in Status
        BY <2>3, <2>6 DEF Sent, StatusInv, Place, Status
      <3>2. Sent' = [Sent EXCEPT ![a] = @ + 1]
        <4>1. Sent'[a] = Sent[a] + 1
          BY <2>3, <2>6 DEF Sent
        <4>2. \A b \in Action : b # a => Sent'[b] = Sent[b]
          BY <2>1, <2>2 DEF Sent
        <4> QED
          BY <4>1, <4>2, SentOneMore
      <3>3. Notice(a) \in Waiting /\ deferred' = Append(deferred, Notice(a))
        BY <2>6, <3>1 DEF Notice, Waiting
      <3> QED
        BY <2>1, <2>4, <3>1, <3>2, <3>3, SendNotice
    <2> QED
      BY <1>12, <2>5, <2>6
  <1> QED
    BY <1>4, <1>5, <1>6, <1>7, <1>8, <1>9, <1>10, <1>11, <1>12
    DEF Next, Request, HandlerStep, CallStep

\* A notice of completion is made after the time was taken.
LEMMA TimeStep ==
    TypeOK /\ StatusInv /\ CallerInv /\ CompletedNoticeHasTime /\ [Next]_vars
        => CompletedNoticeHasTime'
  <1> SUFFICES ASSUME TypeOK, StatusInv, CallerInv, CompletedNoticeHasTime, [Next]_vars
               PROVE  CompletedNoticeHasTime'
    OBVIOUS
  <1>0. deferred \in Seq(Waiting)
    BY DEF TypeOK, Waiting
  <1>1. CASE deferred' = deferred
    BY <1>1 DEF CompletedNoticeHasTime
  <1>2. ASSUME NEW a \in Action, deferred' = Append(deferred, Notice(a)),
               status[a] \in Status, status[a] = "completed" <=> timed[a]
        PROVE  CompletedNoticeHasTime'
    <2>1. Notice(a) \in Waiting
      BY <1>2 DEF Notice, Waiting, TypeOK
    <2>2. /\ DOMAIN deferred' = 1 .. Len(deferred) + 1 /\ Len(deferred) \in Nat
          /\ DOMAIN deferred = 1 .. Len(deferred)
          /\ \A i \in 1 .. Len(deferred) : deferred'[i] = deferred[i]
          /\ deferred'[Len(deferred) + 1] = Notice(a)
      BY <1>0, <1>2, <2>1, AppendProperties
    <2>3. Notice(a).status = "completed" <=> Notice(a).timed
      BY <1>2, Zenon DEF Notice
    <2>4. ASSUME NEW i \in 1 .. Len(deferred) + 1
          PROVE  deferred'[i].status = "completed" <=> deferred'[i].timed
      <3>1. CASE i \in 1 .. Len(deferred)
        BY <2>2, <3>1 DEF CompletedNoticeHasTime
      <3>2. CASE i = Len(deferred) + 1
        BY <2>2, <2>3, <3>2
      <3> QED
        BY <2>2, <3>1, <3>2
    <2> QED
      BY <2>2, <2>4 DEF CompletedNoticeHasTime
  <1>3. ASSUME NEW c \in Caller, NotifyCreated(c)
        PROVE  CompletedNoticeHasTime'
    <2>1. /\ about[c] \in Action /\ status[about[c]] = "created"
          /\ runner[about[c]] = "none"
      BY <1>3 DEF NotifyCreated, Goto, TypeOK, CallerInv, Requesting
    <2>2. ~timed[about[c]]
      BY <2>1 DEF StatusInv
    <2>3. deferred' = Append(deferred, Notice(about[c]))
      BY <1>3 DEF NotifyCreated
    <2> QED
      BY <1>2, <2>1, <2>2, <2>3 DEF Status
  <1>4. ASSUME NEW a \in Action, NotifyPending(a) \/ NotifyCompleted(a)
        PROVE  CompletedNoticeHasTime'
    <2>1. deferred' = Append(deferred, Notice(a)) /\ runner[a] \in {"pendingNotice", "completedNotice"}
      BY <1>4 DEF NotifyPending, NotifyCompleted, Notify, Run
    <2>2. status[a] \in Status /\ (status[a] = "completed" <=> timed[a])
      BY <2>1 DEF StatusInv, Status
    <2> QED
      BY <1>2, <2>1, <2>2
  <1>5. CASE Publish
    <2>1. /\ DOMAIN deferred = 1 .. Len(deferred) /\ Len(deferred) \in Nat
          /\ DOMAIN deferred' = 1 .. Len(deferred) - 1
          /\ \A i \in 1 .. Len(deferred) - 1 : deferred'[i] = deferred[i + 1]
      BY <1>0, <1>5, HeadTailProperties DEF Publish
    <2>2. ASSUME NEW i \in 1 .. Len(deferred) - 1
          PROVE  deferred'[i].status = "completed" <=> deferred'[i].timed
      <3>1. i + 1 \in DOMAIN deferred /\ deferred'[i] = deferred[i + 1]
        BY <2>1
      <3> QED
        BY <3>1 DEF CompletedNoticeHasTime
    <2> QED
      BY <2>1, <2>2 DEF CompletedNoticeHasTime
  <1>6. ASSUME NEW a \in Action,
               SetPending(a) \/ Perform(a) \/ SetCompleted(a) \/ SetTimeCompleted(a)
        PROVE  CompletedNoticeHasTime'
    BY <1>1, <1>6 DEF SetPending, Perform, SetCompleted, SetTimeCompleted
  <1>7. ASSUME NEW c \in Caller, PushBack(c) \/ PopFront(c) \/ Spawn(c)
        PROVE  CompletedNoticeHasTime'
    BY <1>1, <1>7 DEF PushBack, PopFront, Spawn
  <1>8. CASE Request \/ DescribeCreated \/ GetTimeCompleted \/ Cancel \/ RemoveStored
             \/ UNCHANGED vars
    BY <1>1, <1>8 DEF Request, Construct, NotFound, GetStatus, FindToRemove, vars,
                      DescribeCreated, GetTimeCompleted, Cancel, RemoveStored
  <1> QED
    BY <1>3, <1>4, <1>5, <1>6, <1>7, <1>8, ThreadsAreCallers
    DEF Next, HandlerStep, CallStep, RunnerStep

---------------------------------------------------------------------------------
(* The invariant *)

\* Nothing was requested, stored or announced yet.
LEMMA Initially == Init => IInv
  <1> SUFFICES ASSUME Init
               PROVE  IInv
    OBVIOUS
  <1> USE DEF Init
  <1>1. TypeOK
    <2>1. \A S : <<>> \in Seq(S)
      BY EmptySeq
    <2>2. /\ status \in [Action -> Status \cup {None}]
          /\ timed \in [Action -> BOOLEAN] /\ cancelled \in [Action -> BOOLEAN]
          /\ runner \in [Action -> RunnerAt] /\ seen \in Status \cup {None}
          /\ at \in [Caller -> CallerAt] /\ about \in [Caller -> Action \cup {None}]
          /\ removed \subseteq Action /\ evicted \subseteq Action
      BY DEF RunnerAt, CallerAt
    <2>3. /\ \A c \in Caller : about[c] = None <=> at[c] = "idle"
          /\ \A c \in AppThread : at[c] \in {"idle", "notify", "push", "pop", "spawn"}
      BY ThreadsAreCallers
    <2>4. store \in [Name -> Seq(Action)] /\ published \in [Action -> Seq(Status)]
      BY <2>1
    <2>5. deferred \in Seq([action : Action, status : Status, timed : BOOLEAN])
      BY <2>1
    <2> QED
      BY <2>2, <2>3, <2>4, <2>5 DEF TypeOK
  <1>2. StatusInv /\ CallerInv
    BY ThreadsAreCallers DEF StatusInv, CallerInv, Requesting
  <1>3. EnteredInv
    BY NameAssumption DEF EnteredInv, Entered, Stored
  <1>4. StoreInv
    BY SizeAssumption DEF StoreInv, IsInjective
  <1>5. Heard = [a \in Action |-> 0] /\ Sent = [a \in Action |-> 0]
    BY DEF Heard, Sent, Unannounced
  <1>6. NoticeInv /\ CompletedNoticeHasTime
    BY <1>5, ThreadsAreCallers DEF NoticeInv, Waits, CompletedNoticeHasTime
  <1> QED
    BY <1>1, <1>2, <1>3, <1>4, <1>6 DEF IInv

\* The invariant on which all of the theorems rest.
THEOREM Invariant == Spec => []IInv
  <1>1. IInv /\ [Next]_vars => IInv'
    BY TypeStep, StatusStep, CallerStep, EnteredStep, StoreStep, NoticeStep, TimeStep DEF IInv
  <1> QED
    BY Initially, <1>1, PTL DEF Spec

\* The types of the state hold in every reachable state.
THEOREM Typing == Spec => []TypeOK
  <1>1. IInv => TypeOK
    BY DEF IInv
  <1> QED
    BY <1>1, Invariant, PTL

\* However many threads send notices and however they interleave, a subscriber hears
\* of an action "created", "pending" and "completed", each once and in this order.
THEOREM NoticesStayInOrder == Spec => []NoticesInOrder
  <1>1. ASSUME IInv, NEW a \in Action
        PROVE  IsPrefix(published[a], <<"created", "pending", "completed">>)
    <2> DEFINE s == published[a]
    <2>1. /\ s \in Seq(Status) /\ Len(s) <= 3
          /\ \A k \in 1 .. Len(s) : s[k] = Progress[k]
      <3>1. Heard[a] <= Sent[a] /\ Heard[a] = Len(s) /\ Sent[a] \in 0 .. 3
        BY <1>1 DEF IInv, NoticeInv, Heard, Sent
      <3>2. s \in Seq(Status) /\ Len(s) \in Nat
        BY <1>1 DEF IInv, TypeOK
      <3> QED
        BY <1>1, <3>1, <3>2 DEF IInv, NoticeInv
    <2>2. SubSeq(s, 1, Len(s)) = s
      BY <2>1
    <2>3. SubSeq(Progress, 1, Len(s)) = s
      <3>1. Progress \in Seq(Status) /\ Len(Progress) = 3
        BY PlaceInProgress
      <3>2. /\ SubSeq(Progress, 1, Len(s)) \in Seq(Status)
            /\ Len(SubSeq(Progress, 1, Len(s))) = Len(s)
            /\ \A k \in 1 .. Len(s) : SubSeq(Progress, 1, Len(s))[k] = Progress[k]
        BY <2>1, <3>1
      <3> QED
        BY <2>1, <3>2, SeqEqual
    <2> QED
      BY <2>1, <2>2, <2>3, PlaceInProgress DEF IsPrefix, Progress
  <1>2. IInv => NoticesInOrder
    BY <1>1 DEF NoticesInOrder
  <1> QED
    BY <1>2, Invariant, PTL

\* No notice says that an action is completed without the time of its completion.
THEOREM CompletedNoticesAreTimed == Spec => []CompletedNoticeHasTime
  <1>1. IInv => CompletedNoticeHasTime
    BY DEF IInv
  <1> QED
    BY <1>1, Invariant, PTL

\* An action that subscribers have heard of is found by a lookup until it is removed
\* or evicted, but for the window of a request from a thread of the application.
THEOREM AnnouncedIsFound == Spec => []AnnouncedCanBeFound
  <1>1. ASSUME IInv, NEW a \in Action, published[a] # <<>>
        PROVE  \/ Stored(a) \/ a \in removed \cup evicted
               \/ \E c \in AppThread : at[c] = "push" /\ about[c] = a
    <2>1. Heard[a] # 0 /\ Heard[a] <= Sent[a] /\ Heard[a] \in Nat
      <3>1. published[a] \in Seq(Status) /\ Heard[a] = Len(published[a])
        BY <1>1 DEF IInv, TypeOK, Heard
      <3> QED
        BY <1>1, <3>1, EmptySeq DEF IInv, NoticeInv
    <2>2. ~Unannounced(a)
      BY <2>1 DEF Sent
    <2>3. CASE \E c \in Caller : at[c] = "push" /\ about[c] = a
      BY <1>1, <2>1, <2>3 DEF IInv, NoticeInv, Caller
    <2>4. CASE ~ \E c \in Caller : at[c] = "push" /\ about[c] = a
      <3>1. a \in Entered
        BY <2>2, <2>4 DEF Entered, Unannounced
      <3> QED
        BY <1>1, <3>1 DEF IInv, EnteredInv
    <2> QED
      BY <2>3, <2>4
  <1>2. IInv => AnnouncedCanBeFound
    BY <1>1 DEF AnnouncedCanBeFound
  <1> QED
    BY <1>2, Invariant, PTL

\* An action whose DELETE was answered has been told to cancel, and no later
\* request, push or lookup brings it back.
THEOREM RemovedStaysGone == Spec => []RemovedIsCancelledAndGone
  <1>1. IInv => RemovedIsCancelledAndGone
    BY DEF IInv, EnteredInv, RemovedIsCancelledAndGone
  <1> QED
    BY <1>1, Invariant, PTL

\* What the answer to a POST describes is created and not begun.
THEOREM PostDescribesCreated == Spec => PostAnswersCreated
  <1>1. ASSUME IInv, DescribeCreated
        PROVE  status[about[Loop]] = "created" /\ ~timed[about[Loop]]
    <2>1. about[Loop] \in Action /\ at[Loop] = "describe"
      BY <1>1, ThreadsAreCallers DEF IInv, TypeOK, DescribeCreated, Goto
    <2>2. status[about[Loop]] = "created" /\ runner[about[Loop]] = "none"
      BY <1>1, <2>1, ThreadsAreCallers DEF IInv, CallerInv, Requesting
    <2> QED
      BY <1>1, <2>1, <2>2 DEF IInv, StatusInv
  <1>2. IInv => [DescribeCreated => status[about[Loop]] = "created" /\ ~timed[about[Loop]]]_vars
    BY <1>1
  <1> QED
    BY <1>2, Invariant, PTL DEF PostAnswersCreated

---------------------------------------------------------------------------------
(* The store is a bounded log *)

\* While nobody holds the mutex, the log of a name is its store.
LEMMA LogOfUnlocked ==
    ASSUME IInv, NEW n \in Name, ~Locked(n)
    PROVE  LogOf(n) = store[n]
  <1>1. Len(store[n]) <= MaxSize /\ Len(store[n]) \in Nat /\ MaxSize \in Nat
    BY SizeAssumption DEF IInv, TypeOK, StoreInv
  <1> QED
    BY <1>1 DEF LogOf

\* Each step is one addition to the log of a name, one removal, or leaves it alone.
LEMMA LogStep ==
    ASSUME IInv, IInv', [Next]_vars, NEW n \in Name
    PROVE  \/ \E a \in Action \ Entered : Log(n)!Add(a)
           \/ \E a \in Action : Log(n)!Remove(a)
           \/ UNCHANGED LogOf(n)
  <1>1. CASE store' = store
    BY <1>1 DEF LogOf
  <1>2. ASSUME NEW c \in Caller, PushBack(c)
        PROVE  \/ \E a \in Action \ Entered : Log(n)!Add(a)
               \/ UNCHANGED LogOf(n)
    <2>1. /\ about[c] \in Action /\ at[c] = "push"
          /\ store' = [store EXCEPT ![NameOf[about[c]]] = Append(@, about[c])]
          /\ ~Locked(NameOf[about[c]]) /\ store \in [Name -> Seq(Action)]
      BY <1>2 DEF PushBack, Goto, IInv, TypeOK
    <2>2. CASE NameOf[about[c]] # n
      BY <2>1, <2>2 DEF LogOf
    <2>3. CASE NameOf[about[c]] = n
      <3>1. about[c] \in Action \ Entered
        BY <2>1 DEF Entered
      <3>2. LogOf(n) = store[n] /\ store'[n] = Append(store[n], about[c])
        BY <2>1, <2>3, LogOfUnlocked
      <3>3. Len(store'[n]) \in Nat
        BY <3>2, <2>1
      <3>4. Log(n)!Add(about[c])
        BY <3>2, <3>3, SizeAssumption DEF Log!Add, Log!Latest, LogOf
      <3> QED
        BY <3>1, <3>4
    <2> QED
      BY <2>2, <2>3
  <1>3. ASSUME NEW c \in Caller, PopFront(c)
        PROVE  UNCHANGED LogOf(n)
    <2> DEFINE s == store[NameOf[about[c]]]
    <2>1. /\ NameOf[about[c]] \in Name /\ store \in [Name -> Seq(Action)]
          /\ Len(s) > MaxSize => store' = [store EXCEPT ![NameOf[about[c]]] = Tail(s)]
          /\ ~(Len(s) > MaxSize) => store' = store
      BY <1>3, NameAssumption DEF PopFront, Goto, IInv, TypeOK
    <2>2. CASE ~(Len(s) > MaxSize)
      BY <1>1, <2>1, <2>2 DEF LogOf
    <2>3. CASE NameOf[about[c]] # n
      BY <2>1, <2>3 DEF LogOf
    <2>4. CASE NameOf[about[c]] = n /\ Len(s) > MaxSize
      <3>1. LogOf(n) = Tail(store[n]) /\ store'[n] = Tail(store[n])
        BY <2>1, <2>4 DEF LogOf
      <3>2. ~(Len(store'[n]) > MaxSize)
        <4>1. /\ store[n] \in Seq(Action) /\ MaxSize \in Nat
              /\ Len(store[n]) <= MaxSize + 1 /\ Len(store[n]) > MaxSize
          BY <2>4, SizeAssumption DEF IInv, TypeOK, StoreInv
        <4>2. store[n] # <<>>
          BY <4>1
        <4> QED
          BY <3>1, <4>1, <4>2, TailOfStore
      <3> QED
        BY <3>1, <3>2 DEF LogOf
    <2> QED
      BY <2>2, <2>3, <2>4
  <1>4. CASE RemoveStored
    <2>1. /\ about[Loop] \in Action /\ store \in [Name -> Seq(Action)]
          /\ store' = [store EXCEPT ![NameOf[about[Loop]]] = Without(@, about[Loop])]
          /\ ~Locked(NameOf[about[Loop]])
      BY <1>4, ThreadsAreCallers DEF RemoveStored, Goto, IInv, TypeOK
    <2>2. CASE NameOf[about[Loop]] # n
      BY <2>1, <2>2 DEF LogOf
    <2>3. CASE NameOf[about[Loop]] = n
      <3> DEFINE s == store[n]
                 a == about[Loop]
      <3>1. LogOf(n) = s /\ store'[n] = Without(s, a) /\ s \in Seq(Action)
        BY <2>1, <2>3, LogOfUnlocked
      <3>2. LogOf(n)' = Without(s, a)
        <4>1. IsInjective(s) /\ Len(s) <= MaxSize /\ MaxSize \in Nat
          BY <2>1, <2>3, SizeAssumption DEF IInv, StoreInv
        <4>2. ~(Len(Without(s, a)) > MaxSize)
          BY <2>1, <3>1, <4>1, WithoutProperties
        <4> QED
          BY <3>1, <4>2 DEF LogOf
      <3> HIDE DEF s, a
      <3>3. CASE \E i \in DOMAIN s : s[i] = a
        <4>1. PICK i \in DOMAIN s : /\ s[i] = a
                                    /\ Without(s, a) = RemoveAt(s, i)
          BY <3>3 DEF Without
        <4>2. Log(n)!Remove(a)
          BY <3>1, <3>2, <4>1 DEF Log!Remove, RemoveAt
        <4> QED
          BY <2>1, <4>2 DEF a
      <3>4. CASE ~ \E i \in DOMAIN s : s[i] = a
        BY <3>1, <3>2, <3>4 DEF Without
      <3> QED
        BY <3>3, <3>4
    <2> QED
      BY <2>2, <2>3
  <1>5. ASSUME NEW c \in Caller, NotifyCreated(c) \/ Spawn(c)
        PROVE  UNCHANGED LogOf(n)
    BY <1>5 DEF NotifyCreated, Spawn, LogOf
  <1>6. CASE Request \/ DescribeCreated \/ GetTimeCompleted \/ Cancel \/ Publish
             \/ UNCHANGED vars
    <2>1. store' = store
      BY <1>6 DEF Request, Construct, NotFound, GetStatus, FindToRemove, vars,
                  DescribeCreated, GetTimeCompleted, Cancel, Publish
    <2> QED
      BY <2>1 DEF LogOf
  <1>7. ASSUME NEW a \in Action, RunnerStep(a)
        PROVE  UNCHANGED LogOf(n)
    <2>1. store' = store
      BY <1>7 DEF RunnerStep, SetPending, NotifyPending, NotifyCompleted, Notify,
                  Perform, SetCompleted, SetTimeCompleted, runnerKeeps
    <2> QED
      BY <2>1 DEF LogOf
  <1> QED
    BY <1>2, <1>3, <1>4, <1>5, <1>6, <1>7, ThreadsAreCallers
    DEF Next, HandlerStep, CallStep

\* Every store is a bounded log to which only what was never in it is added: the
\* step from the push to the pop under the mutex is one addition, and what a DELETE
\* erases leaves the order of the others.
THEOREM StoreIsBoundedLog == Spec => StoreRefinesBoundedLog
  <1>1. Init => \A n \in Name : Log(n)!Init
    BY SizeAssumption DEF Init, Log!Init, LogOf
  <1>2. IInv /\ IInv' /\ [Next]_vars =>
            [\A n \in Name : \/ \E a \in Action \ Entered : Log(n)!Add(a)
                             \/ \E a \in Action : Log(n)!Remove(a)
                             \/ UNCHANGED LogOf(n)]_vars
    <2> SUFFICES ASSUME IInv, IInv', [Next]_vars
                 PROVE  \A n \in Name : \/ \E a \in Action \ Entered : Log(n)!Add(a)
                                        \/ \E a \in Action : Log(n)!Remove(a)
                                        \/ UNCHANGED LogOf(n)
      OBVIOUS
    <2> QED
      BY LogStep
  <1> QED
    BY <1>1, <1>2, Invariant, PTL DEF Spec, StoreRefinesBoundedLog

---------------------------------------------------------------------------------
(* Replies *)

\* as_action_description beside finish(): a reply contradicts itself only when the
\* action's thread has set the status since it was read, or is between setting it and
\* taking the time.
THEOREM TornRepliesRunBesideFinish ==
    Spec => [][GetTimeCompleted =>
                  \/ seen # status[about[Loop]]
                  \/ runner[about[Loop]] = "stamp"
                  \/ seen = "completed" <=> timed[about[Loop]]]_vars
  <1>1. ASSUME IInv, GetTimeCompleted
        PROVE  \/ seen # status[about[Loop]]
               \/ runner[about[Loop]] = "stamp"
               \/ seen = "completed" <=> timed[about[Loop]]
    <2> DEFINE a == about[Loop]
    <2>1. a \in Action
      BY <1>1 DEF IInv, CallerInv, GetTimeCompleted, Goto, Entered
    <2>2. runner[a] \in RunnerAt
      BY <1>1, <2>1 DEF IInv, TypeOK
    <2> HIDE DEF a
    <2>3. status[a] = "completed" <=> runner[a] \in {"stamp", "completedNotice", "done"}
      BY <1>1, <2>1, <2>2, NoneAssumption DEF IInv, StatusInv, RunnerAt
    <2>4. timed[a] <=> runner[a] \in {"completedNotice", "done"}
      BY <1>1, <2>1 DEF IInv, StatusInv
    <2> QED
      BY <2>3, <2>4, <2>2 DEF a
  <1> QED
    BY <1>1, Invariant, PTL DEF Spec
=================================================================================
