----------------------------- MODULE ActionThreads -----------------------------
(***************************************************************************)
(* The life of the actions of one thing (thing.hpp, action.hpp) between    *)
(* the threads that touch them:                                            *)
(*   - the event loop's thread, which runs the HTTP and WebSocket handlers *)
(*     and the callbacks given to Loop::defer, one at a time;              *)
(*   - threads of the application that call Thing::perform_action;         *)
(*   - one detached thread per action that runs Action::start.             *)
(* A handler is a sequence of steps, each one access to state that another *)
(* thread reads or writes. actions[name] is a FlexibleRingBuffer with the  *)
(* write protection that StorageConfig turns on by default: writers lock,  *)
(* lookups do not. An operator commented "Mutant" is a plausible bug in    *)
(* the operator that follows it; Next uses none of them.                   *)
(***************************************************************************)
EXTENDS Naturals, Sequences, SequencesExt

CONSTANTS Action,      \* every action object that is ever constructed
          Name,        \* names of the available actions
          NameOf,      \* [Action -> Name]
          AppThread,   \* application threads that request actions
          Loop,        \* the event loop's thread
          MaxSize,     \* StorageConfig::max_size of the action storage
          None

ASSUME SizeAssumption == MaxSize \in Nat \ {0}
ASSUME NameAssumption == NameOf \in [Action -> Name]
ASSUME ThreadAssumption == Loop \notin AppThread
ASSUME NoneAssumption == None \notin Action \cup {"created", "pending", "completed"}

VARIABLES status,      \* Action::status, None before the construction
          timed,       \* has Action::time_completed a value
          cancelled,   \* has Action::cancel run the action's cancel_action
          runner,      \* where the thread that runs start() is
          store,       \* Thing::actions
          at,          \* where each requesting thread is in its handler or call
          about,       \* the action its handler or call is about
          seen,        \* the status that the GET in progress has read
          deferred,    \* callbacks waiting in the loop: one notice each
          published,   \* the notices published to "<thing>/actions" so far
          removed,     \* history: actions whose DELETE was answered with 204
          evicted      \* history: actions popped from a full store

threadVars == <<at, about>>
objectVars == <<status, timed, cancelled>>
historyVars == <<removed, evicted>>
vars == <<objectVars, threadVars, historyVars, runner, store, seen, deferred, published>>

Caller == AppThread \cup {Loop}
Status == {"created", "pending", "completed"}
CallerAt == {"idle", "notify", "push", "pop", "describe", "spawn",
             "readTime", "cancel", "remove"}
RunnerAt == {"none", "start", "pendingNotice", "perform", "finish", "stamp",
             "completedNotice", "done"}

Notice(a) == [action |-> a, status |-> status[a], timed |-> timed[a]]
Stored(a) == \E i \in DOMAIN store[NameOf[a]] : store[NameOf[a]][i] = a

Init == /\ status = [a \in Action |-> None]
        /\ timed = [a \in Action |-> FALSE]
        /\ cancelled = [a \in Action |-> FALSE]
        /\ runner = [a \in Action |-> "none"]
        /\ store = [n \in Name |-> <<>>]
        /\ at = [c \in Caller |-> "idle"]
        /\ about = [c \in Caller |-> None]
        /\ seen = None
        /\ deferred = <<>>
        /\ published = [a \in Action |-> <<>>]
        /\ removed = {}
        /\ evicted = {}

Goto(c, from, to) == at[c] = from /\ at' = [at EXCEPT ![c] = to]

\* Another thread is inside FlexibleRingBuffer::add for this name, and holds its
\* mutex: add() pushes first and pops what is too much afterwards.
Locked(n) == \E c \in Caller : at[c] = "pop" /\ NameOf[about[c]] = n

---------------------------------------------------------------------------------
(* Thing::perform_action, called by POST .../actions, by the WebSocket message *)
(* "requestAction" and by the application. An unknown name, an invalid input   *)
(* and a throwing class_supplier return nullptr and change nothing.            *)

\* Mutant: the constructor leaves the status alone.
ConstructWithoutStatus(c, a) ==
    /\ Goto(c, "idle", "notify")
    /\ status[a] = None
    /\ about' = [about EXCEPT ![c] = a]
    /\ UNCHANGED <<objectVars, runner, store, seen, deferred, published, historyVars>>

\* class_supplier(input): the action object exists, with a fresh uuid.
Construct(c, a) ==
    /\ Goto(c, "idle", "notify")
    /\ status[a] = None
    /\ status' = [status EXCEPT ![a] = "created"]
    /\ about' = [about EXCEPT ![c] = a]
    /\ UNCHANGED <<timed, cancelled, runner, store, seen, deferred, published, historyVars>>

\* Mutant: handle_thing_message publishes at once when it is on the loop's thread.
NotifyCreatedAtOnce(c) ==
    /\ Goto(c, "notify", "push")
    /\ IF c = Loop
       THEN /\ published' = [published EXCEPT ![about[c]] = Append(@, status[about[c]])]
            /\ UNCHANGED deferred
       ELSE /\ deferred' = Append(deferred, Notice(about[c]))
            /\ UNCHANGED published
    /\ UNCHANGED <<objectVars, runner, store, about, seen, historyVars>>

\* action_notify(action_status_message(action)), down to webserver_loop->defer.
NotifyCreated(c) ==
    /\ Goto(c, "notify", "push")
    /\ deferred' = Append(deferred, Notice(about[c]))
    /\ UNCHANGED <<objectVars, runner, store, about, seen, published, historyVars>>

\* actions[name].add(action): take the mutex, push_back.
PushBack(c) ==
    /\ Goto(c, "push", "pop")
    /\ ~Locked(NameOf[about[c]])
    /\ store' = [store EXCEPT ![NameOf[about[c]]] = Append(@, about[c])]
    /\ UNCHANGED <<objectVars, runner, about, seen, deferred, published, historyVars>>

\* Mutant: pop_back() for pop_front().
PopBack(c) ==
    LET s == store[NameOf[about[c]]] IN
    /\ Goto(c, "pop", "spawn")
    /\ IF Len(s) > MaxSize
       THEN /\ store' = [store EXCEPT ![NameOf[about[c]]] = Front(s)]
            /\ evicted' = evicted \cup {Last(s)}
       ELSE UNCHANGED <<store, evicted>>
    /\ UNCHANGED <<objectVars, runner, about, seen, deferred, published, removed>>

\* Mutant: the thread is started before the response is written.
PopFrontAndSpawn(c) ==
    /\ c = Loop /\ Goto(c, "pop", "describe")
    /\ runner' = [runner EXCEPT ![about[c]] = "start"]
    /\ UNCHANGED <<objectVars, store, about, seen, deferred, published, historyVars>>

\* if (size() > max_size) pop_front(), and the end of the lock's scope. A POST
\* then describes the action in its response; the other callers start it.
PopFront(c) ==
    LET s == store[NameOf[about[c]]] IN
    /\ \/ c = Loop /\ Goto(c, "pop", "describe")
       \/ Goto(c, "pop", "spawn")
    /\ IF Len(s) > MaxSize
       THEN /\ store' = [store EXCEPT ![NameOf[about[c]]] = Tail(s)]
            /\ evicted' = evicted \cup {Head(s)}
       ELSE UNCHANGED <<store, evicted>>
    /\ UNCHANGED <<objectVars, runner, about, seen, deferred, published, removed>>

\* response_body = action->as_action_description(), what the 201 will carry.
DescribeCreated ==
    /\ Goto(Loop, "describe", "spawn")
    /\ UNCHANGED <<objectVars, runner, store, about, seen, deferred, published, historyVars>>

\* std::thread action_runner([action]{ action->start(); }), detached.
Spawn(c) ==
    /\ Goto(c, "spawn", "idle")
    /\ runner' = [runner EXCEPT ![about[c]] = "start"]
    /\ about' = [about EXCEPT ![c] = None]
    /\ UNCHANGED <<objectVars, store, seen, deferred, published, historyVars>>

---------------------------------------------------------------------------------
(* Action::start, in a thread of its own *)

Run(a, from, to) == runner[a] = from /\ runner' = [runner EXCEPT ![a] = to]

runnerKeeps == <<cancelled, store, threadVars, seen, published, historyVars>>

\* status = "pending"
SetPending(a) ==
    /\ Run(a, "start", "pendingNotice")
    /\ status' = [status EXCEPT ![a] = "pending"]
    /\ UNCHANGED <<timed, deferred, runnerKeeps>>

\* notify_thing(): the notice goes to the loop even if the action has left the
\* store, because the notifying object keeps itself alive.
Notify(a, from, to) ==
    /\ Run(a, from, to)
    /\ deferred' = Append(deferred, Notice(a))
    /\ UNCHANGED <<status, timed, runnerKeeps>>

NotifyPending(a) == Notify(a, "pendingNotice", "perform")

\* perform_action(): the application's code. Whatever it does, cancel() included,
\* it is assumed to return.
Perform(a) ==
    /\ Run(a, "perform", "finish")
    /\ UNCHANGED <<status, timed, deferred, runnerKeeps>>

\* Mutant: finish() notifies before it takes the time.
SetCompletedUntimed(a) ==
    /\ Run(a, "finish", "completedNotice")
    /\ status' = [status EXCEPT ![a] = "completed"]
    /\ UNCHANGED <<timed, deferred, runnerKeeps>>

\* finish(): status = "completed"
SetCompleted(a) ==
    /\ Run(a, "finish", "stamp")
    /\ status' = [status EXCEPT ![a] = "completed"]
    /\ UNCHANGED <<timed, deferred, runnerKeeps>>

\* finish(): time_completed = timestamp()
SetTimeCompleted(a) ==
    /\ Run(a, "stamp", "completedNotice")
    /\ timed' = [timed EXCEPT ![a] = TRUE]
    /\ UNCHANGED <<status, deferred, runnerKeeps>>

\* Mutant: a finished action is only announced while the thing still knows it.
NotifyCompletedIfStored(a) ==
    /\ Stored(a)
    /\ Notify(a, "completedNotice", "done")

NotifyCompleted(a) == Notify(a, "completedNotice", "done")

RunnerStep(a) == \/ SetPending(a)
                 \/ NotifyPending(a)
                 \/ Perform(a)
                 \/ SetCompleted(a)
                 \/ SetTimeCompleted(a)
                 \/ NotifyCompleted(a)

---------------------------------------------------------------------------------
(* Handlers of the event loop *)

\* Mutant: the newest callback runs first.
PublishNewest ==
    /\ at[Loop] = "idle"
    /\ deferred # <<>>
    /\ deferred' = Front(deferred)
    /\ published' = [published EXCEPT ![Last(deferred).action] =
                                          Append(@, Last(deferred).status)]
    /\ UNCHANGED <<objectVars, runner, store, threadVars, seen, historyVars>>

\* A deferred callback: web_server->publish(topic, message).
Publish ==
    /\ at[Loop] = "idle"
    /\ deferred # <<>>
    /\ deferred' = Tail(deferred)
    /\ published' = [published EXCEPT ![Head(deferred).action] =
                                          Append(@, Head(deferred).status)]
    /\ UNCHANGED <<objectVars, runner, store, threadVars, seen, historyVars>>

\* GET or DELETE .../actions/<name>/<id> when get_action finds nothing: 404.
NotFound(a) ==
    /\ at[Loop] = "idle"
    /\ ~Stored(a)
    /\ UNCHANGED vars

\* GET .../actions/<name>/<id>: as_action_description() reads the status ...
GetStatus(a) ==
    /\ Goto(Loop, "idle", "readTime")
    /\ Stored(a)
    /\ about' = [about EXCEPT ![Loop] = a]
    /\ seen' = status[a]
    /\ UNCHANGED <<objectVars, runner, store, deferred, published, historyVars>>

\* ... and then whether there is a time of completion, and is sent with 200.
GetTimeCompleted ==
    /\ Goto(Loop, "readTime", "idle")
    /\ seen' = None
    /\ about' = [about EXCEPT ![Loop] = None]
    /\ UNCHANGED <<objectVars, runner, store, deferred, published, historyVars>>

\* DELETE .../actions/<name>/<id>: get_action finds the action.
FindToRemove(a) ==
    /\ Goto(Loop, "idle", "cancel")
    /\ Stored(a)
    /\ about' = [about EXCEPT ![Loop] = a]
    /\ UNCHANGED <<objectVars, runner, store, seen, deferred, published, historyVars>>

\* Mutant: the action is looked up a second time to be cancelled.
CancelIfStored ==
    /\ Goto(Loop, "cancel", "remove")
    /\ cancelled' = [cancelled EXCEPT ![about[Loop]] = Stored(about[Loop])]
    /\ UNCHANGED <<status, timed, runner, store, about, seen, deferred, published, historyVars>>

\* action->cancel()
Cancel ==
    /\ Goto(Loop, "cancel", "remove")
    /\ cancelled' = [cancelled EXCEPT ![about[Loop]] = TRUE]
    /\ UNCHANGED <<status, timed, runner, store, about, seen, deferred, published, historyVars>>

\* buffer.erase(std::remove_if(..., id == action_id), end()). The ids of actions
\* differ and an action is stored once, so there is at most one element to erase.
Without(s, a) == IF \E i \in DOMAIN s : s[i] = a
                 THEN RemoveAt(s, CHOOSE i \in DOMAIN s : s[i] = a)
                 ELSE s

\* Mutant: remove_if forgets conditional_lock().
RemoveUnlocked ==
    LET a == about[Loop] IN
    /\ Goto(Loop, "remove", "idle")
    /\ store' = [store EXCEPT ![NameOf[a]] = Without(@, a)]
    /\ removed' = removed \cup {a}
    /\ about' = [about EXCEPT ![Loop] = None]
    /\ UNCHANGED <<objectVars, runner, seen, deferred, published, evicted>>

\* remove_if(id == action_id) under the mutex, answered as 204. An action that
\* was evicted since it was found is answered in the same way.
RemoveStored ==
    LET a == about[Loop] IN
    /\ Goto(Loop, "remove", "idle")
    /\ ~Locked(NameOf[a])
    /\ store' = [store EXCEPT ![NameOf[a]] = Without(@, a)]
    /\ removed' = removed \cup {a}
    /\ about' = [about EXCEPT ![Loop] = None]
    /\ UNCHANGED <<objectVars, runner, seen, deferred, published, evicted>>

CallStep(c) == \/ NotifyCreated(c)
               \/ PushBack(c)
               \/ PopFront(c)
               \/ Spawn(c)

HandlerStep == \/ CallStep(Loop)
               \/ DescribeCreated
               \/ GetTimeCompleted
               \/ Cancel
               \/ RemoveStored

Request == \/ \E c \in Caller, a \in Action : Construct(c, a)
           \/ \E a \in Action : NotFound(a) \/ GetStatus(a) \/ FindToRemove(a)

Next == \/ Request
        \/ \E c \in AppThread : CallStep(c)
        \/ HandlerStep
        \/ Publish
        \/ \E a \in Action : RunnerStep(a)

Spec == Init /\ [][Next]_vars

\* A handler runs to its end once it has begun and the operating system schedules
\* every thread. The loop drains the callbacks of Loop::defer in each of its
\* iterations, so it gets to them although GETs keep arriving. Requests themselves
\* may never come.
Fairness == /\ SF_vars(Publish)
            /\ WF_vars(HandlerStep)
            /\ \A c \in AppThread : WF_vars(CallStep(c))
            /\ \A a \in Action : WF_vars(RunnerStep(a))

FairSpec == Spec /\ Fairness

---------------------------------------------------------------------------------
(* Properties *)

TypeOK == /\ status \in [Action -> Status \cup {None}]
          /\ timed \in [Action -> BOOLEAN]
          /\ cancelled \in [Action -> BOOLEAN]
          /\ runner \in [Action -> RunnerAt]
          /\ store \in [Name -> Seq(Action)]
          /\ at \in [Caller -> CallerAt]
          /\ about \in [Caller -> Action \cup {None}]
          /\ \A c \in Caller : about[c] = None <=> at[c] = "idle"
          /\ \A c \in AppThread : at[c] \in {"idle", "notify", "push", "pop", "spawn"}
          /\ seen \in Status \cup {None}
          /\ deferred \in Seq([action : Action, status : Status, timed : BOOLEAN])
          /\ published \in [Action -> Seq(Status)]
          /\ removed \subseteq Action
          /\ evicted \subseteq Action

\* What a subscriber of "<thing>/actions" hears of an action is "created",
\* "pending", "completed", each once and in this order, although the notices
\* come from two threads and cross the loop's queue (server_ws_tests.cpp:366).
NoticesInOrder ==
    \A a \in Action : IsPrefix(published[a], <<"created", "pending", "completed">>)

\* A notice that an action is completed carries the time of its completion.
CompletedNoticeHasTime ==
    \A i \in DOMAIN deferred : deferred[i].status = "completed" <=> deferred[i].timed

\* An action that subscribers have heard of can be looked up until it is removed
\* or evicted. perform_action announces before it stores; what makes this true
\* for a client's request is that the notice waits for the handler to end. A
\* request from an application thread has a window before its push_back.
AnnouncedCanBeFound ==
    \A a \in Action :
        published[a] # <<>> => \/ Stored(a) \/ a \in removed \cup evicted
                               \/ \E c \in AppThread : at[c] = "push" /\ about[c] = a

\* The 201 answer to a POST describes an action that was requested and has not
\* begun: its thread is started after the description was taken.
PostAnswersCreated ==
    [][DescribeCreated => status[about[Loop]] = "created" /\ ~timed[about[Loop]]]_vars

\* After the 204 to a DELETE the action has been told to cancel, even if it was evicted
\* between the lookup and the removal, and no lookup and no later addition to the full
\* store brings it back.
RemovedIsCancelledAndGone ==
    \A a \in removed : cancelled[a] /\ ~Stored(a)

\* With a time of completion comes the status "completed", and the other way round
\* (action_tests.cpp:102-106, 122-124): what a GET answers says so, too.
CompletedReplyHasTime ==
    [][GetTimeCompleted => (seen = "completed" <=> timed[about[Loop]])]_vars

\* The store of one name, the element that add() is about to drop left out.
LogOf(n) == IF Len(store[n]) > MaxSize THEN Tail(store[n]) ELSE store[n]

Log(n) == INSTANCE BoundedLog WITH Element <- Action, log <- LogOf(n)

\* The actions that have been pushed to a store.
Entered == {a \in Action : /\ status[a] # None
                           /\ \A c \in Caller : about[c] = a => at[c] \notin {"notify", "push"}}

\* For every name the FlexibleRingBuffer is a bounded log: additions at the end,
\* the oldest element dropped when it is full, removals that keep the order. What
\* is added has never been there before: nothing that was dropped comes back.
StoreRefinesBoundedLog ==
    /\ \A n \in Name : Log(n)!Init
    /\ [][\A n \in Name : \/ \E a \in Action \ Entered : Log(n)!Add(a)
                          \/ \E a \in Action : Log(n)!Remove(a)
                          \/ UNCHANGED LogOf(n)]_vars

\* An action that was requested runs to its end and all of it is announced, even
\* if it is removed, cancelled or evicted while it runs.
EveryActionIsAnnouncedToTheEnd ==
    \A a \in Action : status[a] = "created" ~> Len(published[a]) = 3
=================================================================================
