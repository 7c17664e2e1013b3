------------------------------- MODULE BoundedLog -------------------------------
(***************************************************************************)
(* What both ring buffers of storage.hpp promise: a log of at most MaxSize *)
(* elements in insertion order. An addition to a full log drops its oldest *)
(* element; a removal keeps the order of what is left. This module models  *)
(* no code of its own: SimpleRingBuffer, ActionThreads and, for the events *)
(* of its things, WebThingApi refine it.                                   *)
(***************************************************************************)
EXTENDS Naturals, Sequences

CONSTANTS Element,     \* what is stored: shared pointers to events or actions
          MaxSize      \* StorageConfig::max_size, not zero

VARIABLE log

Latest(s) == IF Len(s) <= MaxSize THEN s ELSE Tail(s)

Init == log = <<>>

Add(e) == log' = Latest(Append(log, e))

Remove(e) == \E i \in DOMAIN log :
                /\ log[i] = e
                /\ log' = SubSeq(log, 1, i - 1) \o SubSeq(log, i + 1, Len(log))

AppendNext == \E e \in Element : Add(e)

Next == \/ AppendNext
        \/ \E e \in Element : Remove(e)

\* The promise of a buffer that "can not remove a subset of its elements".
AppendSpec == Init /\ [][AppendNext]_log

\* The promise of a buffer that can.
Spec == Init /\ [][Next]_log
=================================================================================
