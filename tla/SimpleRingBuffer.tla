---------------------------- MODULE SimpleRingBuffer ----------------------------
(***************************************************************************)
(* bw::webthing::SimpleRingBuffer (storage.hpp): the store of a thing's    *)
(* events. add() runs under an optional mutex. The iterators behind        *)
(* "for(const auto& evt : events)" take no lock, so a listing reads        *)
(* current_size, start_pos and the slots while an add() is between two of  *)
(* its assignments. One action is one access to the shared fields.         *)
(* An operator commented "Mutant" is a plausible bug in the operator that  *)
(* follows it; Next uses none of them.                                     *)
(***************************************************************************)
EXTENDS Integers, Sequences

CONSTANTS Element,          \* the shared pointers ever passed to add()
          Writer,           \* threads that call add()
          Reader,           \* threads that iterate from begin() to end()
          MaxSize,          \* max_size
          WriteProtected,   \* write_protected: is there a mutex at all
          Nothing           \* a free mutex; the argument outside of a call

ASSUME SizeAssumption == MaxSize \in Nat \ {0}
ASSUME ThreadAssumption == /\ Nothing \notin Writer \cup Element
                           /\ Writer \cap Reader = {}
\* Without the mutex the buffer is meant for a single writing thread.
ASSUME ProtectionAssumption == /\ WriteProtected \in BOOLEAN
                               /\ \A v, w \in Writer : WriteProtected \/ v = w

VARIABLES buffer,         \* the vector; slot i of the code is buffer[i + 1]
          current_size,
          start_pos,
          mutex,          \* the thread that holds it, or Nothing
          pc,             \* where each thread is
          element,        \* the argument of each writer's call
          position,       \* Iterator::position of each reader
          last,           \* position of the end() iterator of each reader
          slot,           \* what resolve_index returned to each reader
          listing,        \* what each reader has read since begin()
          added,          \* history: all elements in the order they entered
          firstOf         \* history: index in added of the element that was
                          \* at position 0 when each reader called begin()

writerVars == <<buffer, current_size, start_pos, mutex, element, added>>
readerVars == <<position, last, slot, listing, firstOf>>
vars == <<writerVars, readerVars, pc>>

Thread == Writer \cup Reader

WriterPc == {"idle", "locked", "append", "grow", "overwrite", "advance"}
ReaderPc == {"idle", "iterating", "deref", "done", "threw"}

Goto(t, from, to) == pc[t] = from /\ pc' = [pc EXCEPT ![t] = to]

Init == /\ buffer = <<>>
        /\ current_size = 0
        /\ start_pos = 0
        /\ mutex = Nothing
        /\ pc = [t \in Thread |-> "idle"]
        /\ element = [w \in Writer |-> Nothing]
        /\ position = [r \in Reader |-> 0]
        /\ last = [r \in Reader |-> 0]
        /\ slot = [r \in Reader |-> 0]
        /\ listing = [r \in Reader |-> <<>>]
        /\ added = <<>>
        /\ firstOf = [r \in Reader |-> 1]

---------------------------------------------------------------------------------
(* add(element) *)

InUse(e) == \/ \E i \in DOMAIN added : added[i] = e
            \/ \E w \in Writer : element[w] = e

\* Mutant: add() forgets conditional_lock().
LockIgnored(w, e) ==
    /\ Goto(w, "idle", "locked")
    /\ ~InUse(e)
    /\ element' = [element EXCEPT ![w] = e]
    /\ UNCHANGED <<buffer, current_size, start_pos, mutex, added, readerVars>>

\* conditional_lock(): wait for the mutex, if there is one.
Lock(w, e) ==
    /\ Goto(w, "idle", "locked")
    /\ WriteProtected => mutex = Nothing
    /\ ~InUse(e)                    \* every event object is stored once
    /\ mutex' = IF WriteProtected THEN w ELSE mutex
    /\ element' = [element EXCEPT ![w] = e]
    /\ UNCHANGED <<buffer, current_size, start_pos, added, readerVars>>

\* Mutant: <= instead of <.
CompareOffByOne(w) ==
    /\ Goto(w, "locked", IF current_size <= MaxSize THEN "append" ELSE "overwrite")
    /\ UNCHANGED <<writerVars, readerVars>>

\* if (current_size < max_size)
Compare(w) ==
    /\ Goto(w, "locked", IF current_size < MaxSize THEN "append" ELSE "overwrite")
    /\ UNCHANGED <<writerVars, readerVars>>

\* buffer.push_back(element): the storage was reserved, no slot moves.
PushBack(w) ==
    /\ Goto(w, "append", "grow")
    /\ buffer' = Append(buffer, element[w])
    /\ added' = Append(added, element[w])
    /\ UNCHANGED <<current_size, start_pos, mutex, element, readerVars>>

\* The end of the scope of the lock and of the argument.
Return(w) == /\ mutex' = Nothing
             /\ element' = [element EXCEPT ![w] = Nothing]

\* ++current_size
Grow(w) ==
    /\ Goto(w, "grow", "idle")
    /\ current_size' = current_size + 1
    /\ Return(w)
    /\ UNCHANGED <<buffer, start_pos, added, readerVars>>

\* buffer[start_pos] = element
Overwrite(w) ==
    /\ Goto(w, "overwrite", "advance")
    /\ buffer' = [buffer EXCEPT ![start_pos + 1] = element[w]]
    /\ added' = Append(added, element[w])
    /\ UNCHANGED <<current_size, start_pos, mutex, element, readerVars>>

\* Mutant: the oldest position is not wrapped.
AdvanceUnwrapped(w) ==
    /\ Goto(w, "advance", "idle")
    /\ start_pos' = start_pos + 1
    /\ Return(w)
    /\ UNCHANGED <<buffer, current_size, added, readerVars>>

\* start_pos = (start_pos + 1) % max_size
Advance(w) ==
    /\ Goto(w, "advance", "idle")
    /\ start_pos' = (start_pos + 1) % MaxSize
    /\ Return(w)
    /\ UNCHANGED <<buffer, current_size, added, readerVars>>

WriterStep(w) == \/ \E e \in Element : Lock(w, e)
                 \/ Compare(w)
                 \/ PushBack(w)
                 \/ Grow(w)
                 \/ Overwrite(w)
                 \/ Advance(w)

---------------------------------------------------------------------------------
(* for(const auto& e : ring) *)

\* The writer whose overwriting add has not moved start_pos yet.
Overwriting == \E w \in Writer : pc[w] = "advance"

\* How often start_pos has been moved.
Evicted == Len(added) - Len(buffer) - (IF Overwriting THEN 1 ELSE 0)

\* Mutants: an end() one past the last element, a begin() past the first one.
EndOffByOne(r) ==
    /\ pc[r] \in {"idle", "done", "threw"}
    /\ pc' = [pc EXCEPT ![r] = "iterating"]
    /\ position' = [position EXCEPT ![r] = 0]
    /\ last' = [last EXCEPT ![r] = current_size + 1]
    /\ listing' = [listing EXCEPT ![r] = <<>>]
    /\ firstOf' = [firstOf EXCEPT ![r] = Evicted + 1]
    /\ UNCHANGED <<writerVars, slot>>

BeginOffByOne(r) ==
    /\ pc[r] \in {"idle", "done", "threw"}
    /\ pc' = [pc EXCEPT ![r] = "iterating"]
    /\ position' = [position EXCEPT ![r] = 1]
    /\ last' = [last EXCEPT ![r] = current_size]
    /\ listing' = [listing EXCEPT ![r] = <<>>]
    /\ firstOf' = [firstOf EXCEPT ![r] = Evicted + 1]
    /\ UNCHANGED <<writerVars, slot>>

\* begin() and end(): both positions are fixed before the first element.
Begin(r) ==
    /\ pc[r] \in {"idle", "done", "threw"}
    /\ pc' = [pc EXCEPT ![r] = "iterating"]
    /\ position' = [position EXCEPT ![r] = 0]
    /\ last' = [last EXCEPT ![r] = current_size]
    /\ listing' = [listing EXCEPT ![r] = <<>>]
    /\ firstOf' = [firstOf EXCEPT ![r] = Evicted + 1]
    /\ UNCHANGED <<writerVars, slot>>

\* Mutant: the index is not rotated by start_pos.
ResolveUnrotated(r) ==
    /\ position[r] # last[r]
    /\ Goto(r, "iterating", IF position[r] < current_size THEN "deref" ELSE "threw")
    /\ slot' = [slot EXCEPT ![r] = position[r] % MaxSize]
    /\ UNCHANGED <<writerVars, position, last, listing, firstOf>>

\* resolve_index(position), which throws std::out_of_range past current_size.
Resolve(r) ==
    /\ position[r] # last[r]
    /\ Goto(r, "iterating", IF position[r] < current_size THEN "deref" ELSE "threw")
    /\ slot' = [slot EXCEPT ![r] = (start_pos + position[r]) % MaxSize]
    /\ UNCHANGED <<writerVars, position, last, listing, firstOf>>

\* buffer[slot], then ++position. A slot past the vector's end is undefined
\* behaviour; IterationIsSafe says that it is never reached.
Dereference(r) ==
    /\ Goto(r, "deref", "iterating")
    /\ slot[r] < Len(buffer)
    /\ listing' = [listing EXCEPT ![r] = Append(@, buffer[slot[r] + 1])]
    /\ position' = [position EXCEPT ![r] = @ + 1]
    /\ slot' = [slot EXCEPT ![r] = 0]
    /\ UNCHANGED <<writerVars, last, firstOf>>

\* begin != end is false.
Finish(r) ==
    /\ position[r] = last[r]
    /\ Goto(r, "iterating", "done")
    /\ UNCHANGED <<writerVars, readerVars>>

ReaderStep(r) == \/ Begin(r)
                 \/ Resolve(r)
                 \/ Dereference(r)
                 \/ Finish(r)

Next == \/ \E w \in Writer : WriterStep(w)
        \/ \E r \in Reader : ReaderStep(r)

Spec == Init /\ [][Next]_vars

---------------------------------------------------------------------------------
(* Properties *)

TypeOK == /\ buffer \in Seq(Element)
          /\ current_size \in Nat
          /\ start_pos \in 0 .. MaxSize - 1
          /\ mutex \in Writer \cup {Nothing}
          /\ pc \in [Thread -> WriterPc \cup ReaderPc]
          /\ \A w \in Writer : pc[w] \in WriterPc
          /\ \A r \in Reader : pc[r] \in ReaderPc
          /\ element \in [Writer -> Element \cup {Nothing}]
          /\ \A w \in Writer : pc[w] # "idle" => element[w] \in Element
          /\ position \in [Reader -> Nat]
          /\ last \in [Reader -> Nat]
          /\ slot \in [Reader -> 0 .. MaxSize - 1]
          /\ listing \in [Reader -> Seq(Element)]
          /\ added \in Seq(Element)
          /\ firstOf \in [Reader -> Int]

\* Where the logical contents begin: an overwrite counts as soon as the slot
\* is written, although start_pos follows one assignment later.
LogicalStart == IF Overwriting THEN (start_pos + 1) % MaxSize ELSE start_pos

Contents == [k \in 1 .. Len(buffer) |->
                buffer[((LogicalStart + k - 1) % MaxSize) + 1]]

\* "overwrites oldest elements when max_size is reached" (storage.hpp:20): read
\* from start_pos on, the slots are the latest elements added, in the order in
\* which they were added, through any number of wraps and any order of writers.
HoldsTheLatest ==
    \A k \in 1 .. Len(buffer) : Contents[k] = added[Len(added) - Len(buffer) + k]

\* end() is taken once and no reader takes the lock: whatever is added meanwhile,
\* an iteration stays in range (listing the events never ends in an exception)
\* and never reads a slot that push_back has not constructed yet.
IterationIsSafe ==
    \A r \in Reader : /\ pc[r] # "threw"
                      /\ pc[r] = "deref" => slot[r] < Len(buffer)

\* Where in added the elements are that a reader's begin() and end() enclosed.
Enclosed(r) == firstOf[r] .. firstOf[r] + last[r] - 1

\* A listing never shows an element that start_pos had already passed when the
\* listing began: what is read at position k is at least as new as what was at
\* position k at begin(). And the elements that begin() and end() enclosed come in
\* the order of insertion, none twice, however many are lost meanwhile. (One that
\* is added during the listing may come twice: in its slot before start_pos moves,
\* and at the end after.)
NothingStaleIsListed ==
    \A r \in Reader :
        /\ \A k \in DOMAIN listing[r] :
              \E i \in firstOf[r] + k - 1 .. Len(added) : listing[r][k] = added[i]
        /\ \A k, l \in DOMAIN listing[r] : \A i, j \in Enclosed(r) :
              (k < l /\ listing[r][k] = added[i] /\ listing[r][l] = added[j]) => i < j

\* How many elements have been overwritten.
Overwritten == Len(added) - Len(buffer)

\* As long as nothing has been overwritten since begin(), a listing that runs
\* beside add() is a piece of the elements in insertion order, gapless, without
\* repetition and from the oldest one on, wherever the ring starts.
UndisturbedListingIsExact ==
    \A r \in Reader :
        Overwritten = firstOf[r] - 1 =>
            listing[r] = SubSeq(added, firstOf[r], firstOf[r] + Len(listing[r]) - 1)

Log == INSTANCE BoundedLog WITH log <- Contents

\* The ring implements a bounded log that is appended to.
RefinesBoundedLog == Log!AppendSpec
=================================================================================
