------------------------- MODULE SimpleRingBufferProofs -------------------------
(***************************************************************************)
(* Proofs about SimpleRingBuffer, for every max_size, any number of        *)
(* threads and any number of elements.                                     *)
(***************************************************************************)
EXTENDS SimpleRingBuffer, SequenceTheorems, TLAPS

---------------------------------------------------------------------------------
(* Positions modulo max_size *)

\* x % max_size for the sums that the code computes: at most one wrap.
LEMMA Wrap ==
    ASSUME NEW x \in 0 .. 2 * MaxSize - 1
    PROVE  x % MaxSize = IF x < MaxSize THEN x ELSE x - MaxSize
  <1>1. MaxSize \in Nat \ {0}
    BY SizeAssumption
  <1>2. CASE x < MaxSize
    BY <1>1, <1>2, Z3
  <1>3. CASE ~(x < MaxSize)
    BY <1>1, <1>3, Z3
  <1>4. QED
    BY <1>2, <1>3

\* A rotated position is a slot of the vector.
LEMMA WrapRange ==
    ASSUME NEW x \in 0 .. 2 * MaxSize - 1
    PROVE  x % MaxSize \in 0 .. MaxSize - 1
  BY Wrap, SizeAssumption

\* A position below max_size is not wrapped.
LEMMA NoWrap ==
    ASSUME NEW x \in 0 .. MaxSize - 1
    PROVE  x % MaxSize = x
  <1>1. x \in 0 .. 2 * MaxSize - 1
    BY SizeAssumption
  <1>2. QED
    BY <1>1, Wrap, SizeAssumption

\* So is whatever resolve_index computes.
LEMMA ModRange ==
    ASSUME NEW x \in Nat
    PROVE  x % MaxSize \in 0 .. MaxSize - 1
  <1>1. MaxSize \in Nat \ {0}
    BY SizeAssumption
  <1>2. QED
    BY <1>1, Z3

\* Assigning to a slot of a vector, or to none, leaves a vector of its length.
LEMMA AssignSlot ==
    ASSUME NEW b \in Seq(Element), NEW i \in Nat, NEW e \in Element
    PROVE  /\ [b EXCEPT ![i] = e] \in Seq(Element)
           /\ Len([b EXCEPT ![i] = e]) = Len(b)
  <1>1. CASE i \in 1 .. Len(b)
    BY <1>1, ExceptSeq
  <1>2. CASE i \notin 1 .. Len(b)
    <2>1. [b EXCEPT ![i] = e] = b
      BY <1>2
    <2>2. QED
      BY <2>1
  <1>3. QED
    BY <1>1, <1>2

\* Once the start has moved on, what was at position k is at position k - 1.
LEMMA RotateNext ==
    ASSUME NEW s \in 0 .. MaxSize - 1, NEW k \in 1 .. MaxSize - 1
    PROVE  /\ (((s + 1) % MaxSize) + k - 1) % MaxSize = (s + k) % MaxSize
           /\ (s + k) % MaxSize # s
  <1>1. MaxSize \in Nat \ {0}
    BY SizeAssumption
  <1>2. (s + 1) % MaxSize = IF s + 1 < MaxSize THEN s + 1 ELSE 0
    <2>1. s + 1 \in 0 .. 2 * MaxSize - 1
      BY <1>1
    <2>2. QED
      BY <1>1, <2>1, Wrap
  <1>3. (s + k) % MaxSize = IF s + k < MaxSize THEN s + k ELSE s + k - MaxSize
    BY <1>1, Wrap
  <1>4. CASE s + 1 < MaxSize
    BY <1>1, <1>2, <1>3, <1>4
  <1>5. CASE ~(s + 1 < MaxSize)
    <2>1. k - 1 \in 0 .. 2 * MaxSize - 1
      BY <1>1
    <2>2. (k - 1) % MaxSize = k - 1
      BY <1>1, <2>1, Wrap
    <2>3. QED
      BY <1>1, <1>2, <1>3, <1>5, <2>2
  <1>6. QED
    BY <1>4, <1>5

\* Once the start has moved on, the slot it left is the last position.
LEMMA RotateLast ==
    ASSUME NEW s \in 0 .. MaxSize - 1
    PROVE  (((s + 1) % MaxSize) + MaxSize - 1) % MaxSize = s
  <1>1. MaxSize \in Nat \ {0}
    BY SizeAssumption
  <1>2. s + 1 \in 0 .. 2 * MaxSize - 1
    BY <1>1
  <1>3. (s + 1) % MaxSize = IF s + 1 < MaxSize THEN s + 1 ELSE 0
    BY <1>1, <1>2, Wrap
  <1>4. ((s + 1) % MaxSize) + MaxSize - 1 \in 0 .. 2 * MaxSize - 1
    BY <1>1, <1>3
  <1>5. CASE s + 1 < MaxSize
    <2>1. ((s + 1) % MaxSize) + MaxSize - 1 = s + MaxSize
      BY <1>1, <1>3, <1>5
    <2>2. (s + MaxSize) % MaxSize = s
      BY <1>1, Wrap
    <2>3. QED
      BY <2>1, <2>2
  <1>6. CASE ~(s + 1 < MaxSize)
    <2>1. ((s + 1) % MaxSize) + MaxSize - 1 = s
      BY <1>1, <1>3, <1>6
    <2>2. s % MaxSize = s
      BY <1>1, Wrap
    <2>3. QED
      BY <2>1, <2>2
  <1>7. QED
    BY <1>5, <1>6

---------------------------------------------------------------------------------
(* Typing *)

\* TypeOK is inductive: the step behind Typing, for the theorems below.
LEMMA TypeStep == TypeOK /\ [Next]_vars => TypeOK'
  <1> SUFFICES ASSUME TypeOK, [Next]_vars
               PROVE  TypeOK'
    OBVIOUS
  <1> USE SizeAssumption, ThreadAssumption DEF TypeOK, Thread, WriterPc, ReaderPc, Goto
  <1>1. ASSUME NEW w \in Writer, NEW e \in Element, Lock(w, e)
        PROVE  TypeOK'
    BY <1>1 DEF Lock, readerVars
  <1>2. ASSUME NEW w \in Writer, Compare(w)
        PROVE  TypeOK'
    BY <1>2 DEF Compare, writerVars, readerVars
  <1>3. ASSUME NEW w \in Writer, PushBack(w)
        PROVE  TypeOK'
    BY <1>3 DEF PushBack, readerVars
  <1>4. ASSUME NEW w \in Writer, Grow(w)
        PROVE  TypeOK'
    BY <1>4 DEF Grow, Return, readerVars
  <1>5. ASSUME NEW w \in Writer, Overwrite(w)
        PROVE  TypeOK'
    <2>1. buffer' \in Seq(Element)
      <3>1. start_pos + 1 \in Nat /\ element[w] \in Element
        BY <1>5 DEF Overwrite
      <3>2. QED
        BY <1>5, <3>1, AssignSlot DEF Overwrite
    <2>2. QED
      BY <1>5, <2>1 DEF Overwrite, readerVars
  <1>6. ASSUME NEW w \in Writer, Advance(w)
        PROVE  TypeOK'
    <2>1. start_pos' \in 0 .. MaxSize - 1
      BY <1>6, WrapRange DEF Advance
    <2>2. QED
      BY <1>6, <2>1 DEF Advance, Return, readerVars
  <1>7. ASSUME NEW r \in Reader, Begin(r)
        PROVE  TypeOK'
    BY <1>7 DEF Begin, Evicted, writerVars
  <1>8. ASSUME NEW r \in Reader, Resolve(r)
        PROVE  TypeOK'
    <2>1. (start_pos + position[r]) % MaxSize \in 0 .. MaxSize - 1
      <3>1. start_pos + position[r] \in Nat
        OBVIOUS
      <3>2. QED
        BY <3>1, ModRange
    <2>2. QED
      BY <1>8, <2>1 DEF Resolve, writerVars
  <1>9. ASSUME NEW r \in Reader, Dereference(r)
        PROVE  TypeOK'
    BY SMTT(30), <1>9 DEF Dereference, writerVars
  <1>10. ASSUME NEW r \in Reader, Finish(r)
         PROVE  TypeOK'
    BY <1>10 DEF Finish, writerVars, readerVars
  <1>11. CASE UNCHANGED vars
    BY <1>11 DEF vars, writerVars, readerVars
  <1>12. QED
    BY <1>1, <1>2, <1>3, <1>4, <1>5, <1>6, <1>7, <1>8, <1>9, <1>10, <1>11
       DEF Next, WriterStep, ReaderStep

\* Every variable of the ring keeps its type; start_pos stays below max_size.
THEOREM Typing == Spec => []TypeOK
  <1>1. Init => TypeOK
    BY SizeAssumption DEF Init, TypeOK, Thread, WriterPc, ReaderPc
  <1>2. TypeOK /\ [Next]_vars => TypeOK'
    BY TypeStep
  <1>3. QED
    BY <1>1, <1>2, PTL DEF Spec

---------------------------------------------------------------------------------
(* What the ring holds *)

\* At most one call of add() is past its lock: the mutex, or the single writer.
Exclusive ==
    \A v \in Writer : pc[v] # "idle" =>
        /\ WriteProtected => mutex = v
        /\ \A w \in Writer : pc[w] # "idle" => v = w

\* The branch an add() took is still the right one at each of its later steps.
BranchTaken ==
    \A w \in Writer :
        /\ pc[w] \in {"append", "grow"} => current_size < MaxSize
        /\ pc[w] \in {"overwrite", "advance"} => current_size = MaxSize

\* current_size follows the vector, and nothing rotates before the ring is full.
Sizes ==
    /\ current_size <= MaxSize
    /\ Len(buffer) = IF \E w \in Writer : pc[w] = "grow" THEN current_size + 1
                                                        ELSE current_size
    /\ current_size < MaxSize => start_pos = 0 /\ Len(added) = Len(buffer)
    /\ Len(buffer) <= Len(added)

\* The inductive invariant of add().
RingInv == TypeOK /\ Exclusive /\ BranchTaken /\ Sizes /\ HoldsTheLatest

\* What a step does that changes neither the fields nor where any writer is.
LEMMA ReadersDoNotDisturb ==
    ASSUME RingInv, TypeOK', UNCHANGED writerVars,
           \A w \in Writer : pc'[w] = pc[w]
    PROVE  RingInv'
  <1> USE DEF RingInv, writerVars
  <1>1. Exclusive' /\ BranchTaken' /\ Sizes'
    BY DEF Exclusive, BranchTaken, Sizes
  <1>2. LogicalStart' = LogicalStart
    BY DEF LogicalStart, Overwriting
  <1>3. HoldsTheLatest'
    BY <1>2 DEF HoldsTheLatest, Contents
  <1>4. QED
    BY <1>1, <1>3

\* push_back on a ring that is not full: nothing is rotated yet.
LEMMA PushBackKeeps ==
    ASSUME RingInv, TypeOK', NEW w \in Writer, PushBack(w)
    PROVE  RingInv'
  <1> USE SizeAssumption DEF RingInv, PushBack, Goto
  <1>1. /\ pc[w] = "append" /\ pc'[w] = "grow"
        /\ \A v \in Writer \ {w} : pc[v] = "idle" /\ pc'[v] = "idle"
    BY DEF Exclusive, TypeOK, Thread
  <1>2. Exclusive' /\ BranchTaken'
    BY <1>1 DEF Exclusive, BranchTaken, TypeOK, Thread
  <1>3. /\ current_size < MaxSize /\ start_pos = 0
        /\ Len(buffer) = current_size /\ Len(added) = Len(buffer)
    BY <1>1 DEF BranchTaken, Sizes
  <1>4. element[w] \in Element
    BY <1>1 DEF TypeOK
  <1>5. /\ Len(buffer') = Len(buffer) + 1 /\ Len(added') = Len(added) + 1
        /\ buffer'[Len(buffer) + 1] = element[w] /\ added'[Len(added) + 1] = element[w]
        /\ \A k \in 1 .. Len(buffer) : buffer'[k] = buffer[k] /\ added'[k] = added[k]
    <2>1. buffer \in Seq(Element) /\ added \in Seq(Element)
      BY DEF TypeOK
    <2>2. QED
      BY <1>3, <1>4, <2>1, AppendProperties
  <1>6. Sizes'
    BY <1>1, <1>3, <1>5 DEF Sizes, TypeOK
  <1>7. LogicalStart = 0 /\ LogicalStart' = 0
    BY <1>1, <1>3 DEF LogicalStart, Overwriting
  <1>8. \A k \in 1 .. Len(buffer') : (0 + k - 1) % MaxSize = k - 1
    BY <1>3, <1>5, Wrap DEF TypeOK
  <1>9. HoldsTheLatest'
    BY <1>3, <1>5, <1>7, <1>8 DEF HoldsTheLatest, Contents, TypeOK
  <1>10. QED
    BY <1>2, <1>6, <1>9

\* buffer[start_pos] = element: the slot that was first becomes the last one.
LEMMA OverwriteKeeps ==
    ASSUME RingInv, TypeOK', NEW w \in Writer, Overwrite(w)
    PROVE  RingInv'
  <1> USE SizeAssumption DEF RingInv, Overwrite, Goto
  <1>1. /\ pc[w] = "overwrite" /\ pc'[w] = "advance"
        /\ \A v \in Writer \ {w} : pc[v] = "idle" /\ pc'[v] = "idle"
    BY DEF Exclusive, TypeOK, Thread
  <1>2. Exclusive' /\ BranchTaken'
    BY <1>1 DEF Exclusive, BranchTaken, TypeOK, Thread
  <1>3. current_size = MaxSize /\ Len(buffer) = MaxSize /\ Len(buffer) <= Len(added)
    BY <1>1 DEF BranchTaken, Sizes
  <1>4. element[w] \in Element
    BY <1>1 DEF TypeOK
  <1>5. /\ Len(added') = Len(added) + 1 /\ added'[Len(added) + 1] = element[w]
        /\ \A k \in 1 .. Len(added) : added'[k] = added[k]
    BY <1>4, AppendProperties DEF TypeOK
  <1>6. /\ start_pos + 1 \in 1 .. Len(buffer) /\ Len(buffer') = Len(buffer)
        /\ \A j \in 1 .. Len(buffer) :
              buffer'[j] = IF j = start_pos + 1 THEN element[w] ELSE buffer[j]
    BY <1>3, <1>4, ExceptSeq DEF TypeOK
  <1>7. Sizes'
    BY <1>1, <1>3, <1>5, <1>6 DEF Sizes, TypeOK
  <1>8. LogicalStart = start_pos /\ LogicalStart' = (start_pos + 1) % MaxSize
    BY <1>1 DEF LogicalStart, Overwriting
  <1>9. ASSUME NEW k \in 1 .. MaxSize
        PROVE  Contents'[k] = added'[Len(added') - MaxSize + k]
    <2>1. Contents'[k] = buffer'[((((start_pos + 1) % MaxSize) + k - 1) % MaxSize) + 1]
      BY <1>3, <1>6, <1>8 DEF Contents, TypeOK
    <2>2. CASE k = MaxSize
      <3>1. (((start_pos + 1) % MaxSize) + MaxSize - 1) % MaxSize = start_pos
        BY RotateLast DEF TypeOK
      <3>2. Contents'[k] = element[w]
        BY <1>6, <2>1, <2>2, <3>1
      <3>3. QED
        BY <1>5, <2>2, <3>2 DEF TypeOK
    <2>3. CASE k # MaxSize
      <3>1. /\ (((start_pos + 1) % MaxSize) + k - 1) % MaxSize = (start_pos + k) % MaxSize
            /\ (start_pos + k) % MaxSize # start_pos
        <4>1. start_pos \in 0 .. MaxSize - 1 /\ k \in 1 .. MaxSize - 1
          BY <2>3 DEF TypeOK
        <4>2. QED
          BY <4>1, RotateNext
      <3>2. (start_pos + k) % MaxSize \in 0 .. MaxSize - 1
        <4>1. start_pos + k \in 0 .. 2 * MaxSize - 1
          BY <2>3 DEF TypeOK
        <4>2. QED
          BY <4>1, WrapRange
      <3>3. Contents'[k] = buffer[((start_pos + k) % MaxSize) + 1]
        BY <1>3, <1>6, <2>1, <3>1, <3>2 DEF TypeOK
      <3>4. Contents[k + 1] = buffer[((start_pos + k) % MaxSize) + 1]
        <4>1. k + 1 \in 1 .. Len(buffer) /\ start_pos + (k + 1) - 1 = start_pos + k
          BY <1>3, <2>3 DEF TypeOK
        <4>2. QED
          BY <1>8, <4>1 DEF Contents
      <3>5. Contents[k + 1] = added[Len(added) - MaxSize + (k + 1)]
        BY <1>3, <2>3 DEF HoldsTheLatest, TypeOK
      <3>6. QED
        BY <1>3, <1>5, <2>3, <3>3, <3>4, <3>5 DEF TypeOK
    <2>4. QED
      BY <2>2, <2>3
  <1>10. HoldsTheLatest'
    BY <1>3, <1>6, <1>9 DEF HoldsTheLatest
  <1>11. QED
    BY <1>2, <1>7, <1>10

\* An empty ring satisfies the invariant.
LEMMA RingInit == Init => RingInv
  <1> SUFFICES ASSUME Init PROVE RingInv
    OBVIOUS
  <1>1. TypeOK
    BY SizeAssumption DEF Init, TypeOK, Thread, WriterPc, ReaderPc
  <1>2. \A w \in Writer : pc[w] = "idle"
    BY DEF Init, Thread
  <1>3. Exclusive /\ BranchTaken
    BY <1>2 DEF Exclusive, BranchTaken
  <1>4. Len(buffer) = 0 /\ Len(added) = 0
    BY DEF Init
  <1>5. Sizes
    BY <1>2, <1>4, SizeAssumption DEF Init, Sizes
  <1>6. HoldsTheLatest
    BY <1>4 DEF HoldsTheLatest
  <1>7. QED
    BY <1>1, <1>3, <1>5, <1>6 DEF RingInv

\* The inductive invariant holds throughout.
THEOREM RingInvariant == Spec => []RingInv
  <1>1. Init => RingInv
    BY RingInit
  <1>2. RingInv /\ [Next]_vars => RingInv'
    <2> SUFFICES ASSUME RingInv, [Next]_vars
                 PROVE  RingInv'
      OBVIOUS
    <2> USE SizeAssumption, ThreadAssumption
    <2>1. TypeOK /\ TypeOK'
      BY TypeStep DEF RingInv
    <2>2. ASSUME NEW w \in Writer, NEW e \in Element, Lock(w, e)
          PROVE  RingInv'
      <3> USE <2>1, <2>2 DEF RingInv, Lock, Goto, TypeOK, Thread
      <3>1. Exclusive'
        BY ProtectionAssumption DEF Exclusive
      <3>2. BranchTaken' /\ Sizes'
        BY DEF BranchTaken, Sizes
      <3>3. LogicalStart' = LogicalStart
        BY DEF LogicalStart, Overwriting
      <3>4. HoldsTheLatest'
        BY <3>3 DEF HoldsTheLatest, Contents
      <3>5. QED
        BY <3>1, <3>2, <3>4
    <2>3. ASSUME NEW w \in Writer, Compare(w)
          PROVE  RingInv'
      <3> USE <2>1, <2>3 DEF RingInv, Compare, Goto, writerVars, TypeOK, Thread
      <3>1. Exclusive'
        BY DEF Exclusive
      <3>2. BranchTaken' /\ Sizes'
        BY DEF BranchTaken, Sizes
      <3>3. LogicalStart' = LogicalStart
        BY DEF LogicalStart, Overwriting
      <3>4. HoldsTheLatest'
        BY <3>3 DEF HoldsTheLatest, Contents
      <3>5. QED
        BY <3>1, <3>2, <3>4
    <2>4. ASSUME NEW w \in Writer, PushBack(w)
          PROVE  RingInv'
      BY <2>1, <2>4, PushBackKeeps
    <2>5. ASSUME NEW w \in Writer, Grow(w)
          PROVE  RingInv'
      <3> USE <2>1, <2>5 DEF RingInv, Grow, Goto, Return, TypeOK, Thread
      <3>0. /\ pc[w] = "grow" /\ pc'[w] = "idle"
            /\ \A v \in Writer \ {w} : pc[v] = "idle" /\ pc'[v] = "idle"
        BY DEF Exclusive
      <3>1. Exclusive' /\ BranchTaken'
        BY <3>0 DEF Exclusive, BranchTaken
      <3>2. Sizes'
        BY <3>0 DEF Sizes, BranchTaken
      <3>3. LogicalStart' = LogicalStart
        BY <3>0 DEF LogicalStart, Overwriting
      <3>4. HoldsTheLatest'
        BY <3>3 DEF HoldsTheLatest, Contents
      <3>5. QED
        BY <3>1, <3>2, <3>4
    <2>6. ASSUME NEW w \in Writer, Overwrite(w)
          PROVE  RingInv'
      BY <2>1, <2>6, OverwriteKeeps
    <2>7. ASSUME NEW w \in Writer, Advance(w)
          PROVE  RingInv'
      <3> USE <2>1, <2>7 DEF RingInv, Advance, Goto, Return, TypeOK, Thread
      <3>0. /\ pc[w] = "advance" /\ pc'[w] = "idle"
            /\ \A v \in Writer \ {w} : pc[v] = "idle" /\ pc'[v] = "idle"
        BY DEF Exclusive
      <3>1. Exclusive' /\ BranchTaken'
        BY <3>0 DEF Exclusive, BranchTaken
      <3>2. Sizes'
        BY <3>0 DEF Sizes, BranchTaken
      <3>3. LogicalStart' = LogicalStart
        BY <3>0 DEF LogicalStart, Overwriting
      <3>4. HoldsTheLatest'
        BY <3>3 DEF HoldsTheLatest, Contents
      <3>5. QED
        BY <3>1, <3>2, <3>4
    <2>8. ASSUME NEW r \in Reader, ReaderStep(r)
          PROVE  RingInv'
      <3>1. UNCHANGED writerVars
        BY <2>8 DEF ReaderStep, Begin, Resolve, Dereference, Finish
      <3>2. \E to : pc' = [pc EXCEPT ![r] = to]
        BY <2>8 DEF ReaderStep, Begin, Resolve, Dereference, Finish, Goto
      <3>3. ASSUME NEW w \in Writer
            PROVE  pc'[w] = pc[w]
        BY <3>2
      <3>4. QED
        BY <2>1, <3>1, <3>3, ReadersDoNotDisturb
    <2>9. CASE UNCHANGED vars
      <3>1. UNCHANGED writerVars /\ \A w \in Writer : pc'[w] = pc[w]
        BY <2>9 DEF vars
      <3>2. QED
        BY <2>1, <3>1, ReadersDoNotDisturb
    <2>10. QED
      BY <2>2, <2>3, <2>4, <2>5, <2>6, <2>7, <2>8, <2>9 DEF Next, WriterStep
  <1>3. QED
    BY <1>1, <1>2, PTL DEF Spec

\* "overwrites oldest elements when max_size is reached" (storage.hpp:20), for
\* every max_size: from start_pos on, the slots hold the latest elements added,
\* in order, whatever the threads do.
THEOREM RingHoldsTheLatest == Spec => []HoldsTheLatest
  <1>1. RingInv => HoldsTheLatest
    BY DEF RingInv
  <1>2. QED
    BY <1>1, RingInvariant, PTL

---------------------------------------------------------------------------------
(* Iterating without the lock *)

\* A reader between begin() and end(): its positions stay below current_size,
\* and the slot it has resolved is one that the vector has.
InRange(r) ==
    /\ pc[r] # "threw"
    /\ last[r] <= current_size
    /\ position[r] <= last[r]
    /\ pc[r] = "deref" => position[r] < last[r] /\ slot[r] < Len(buffer)

\* Together with that of add(): the readers are in range at every step.
ReadersInv == RingInv /\ \A r \in Reader : InRange(r)

\* add() never shrinks the ring, so it moves no reader out of range.
LEMMA WritersDoNotDisturb ==
    ASSUME ReadersInv, RingInv', UNCHANGED readerVars,
           current_size <= current_size', Len(buffer) <= Len(buffer'),
           NEW r \in Reader, pc'[r] = pc[r]
    PROVE  InRange(r)'
  BY DEF ReadersInv, RingInv, TypeOK, InRange, readerVars

\* Every reader stays in range, whatever the writers do.
THEOREM ReadersInvariant == Spec => []ReadersInv
  <1>1. Init /\ RingInv => ReadersInv
    BY DEF Init, ReadersInv, InRange, Thread
  <1>2. ReadersInv /\ RingInv' /\ [Next]_vars => ReadersInv'
    <2> SUFFICES ASSUME ReadersInv, RingInv', [Next]_vars, NEW r \in Reader
                 PROVE  InRange(r)'
      BY DEF ReadersInv
    <2> USE SizeAssumption, ThreadAssumption
    <2>1. TypeOK /\ TypeOK' /\ Sizes /\ InRange(r)
      BY DEF ReadersInv, RingInv
    <2>2. ASSUME NEW w \in Writer, WriterStep(w)
          PROVE  InRange(r)'
      <3>1. UNCHANGED readerVars /\ pc'[r] = pc[r]
        BY SMTT(30), <2>1, <2>2 DEF WriterStep, Lock, Compare, PushBack, Grow, Overwrite, Advance,
                          Goto, TypeOK, Thread
      <3>2. current_size <= current_size'
        BY <2>1, <2>2 DEF WriterStep, Lock, Compare, PushBack, Grow, Overwrite, Advance,
                          TypeOK, writerVars
      <3>3. Len(buffer) <= Len(buffer')
        <4>1. CASE UNCHANGED buffer
          BY <2>1, <4>1 DEF TypeOK
        <4>2. CASE PushBack(w)
          <5>1. element[w] \in Element /\ buffer \in Seq(Element)
            BY <2>1, <4>2 DEF PushBack, Goto, TypeOK
          <5>2. QED
            BY <4>2, <5>1, AppendProperties DEF PushBack
        <4>3. CASE Overwrite(w)
          <5>1. element[w] \in Element /\ buffer \in Seq(Element) /\ start_pos + 1 \in Nat
            BY <2>1, <4>3 DEF Overwrite, Goto, TypeOK
          <5>2. Len(buffer') = Len(buffer)
            BY <4>3, <5>1, AssignSlot DEF Overwrite
          <5>3. QED
            BY <2>1, <5>2 DEF TypeOK
        <4>4. QED
          BY <2>2, <4>1, <4>2, <4>3
             DEF WriterStep, Lock, Compare, Grow, Advance, writerVars
      <3>4. QED
        BY <3>1, <3>2, <3>3, WritersDoNotDisturb
    <2>3. ASSUME NEW q \in Reader, ReaderStep(q), q # r
          PROVE  InRange(r)'
      BY <2>1, <2>3 DEF ReaderStep, Begin, Resolve, Dereference, Finish, Goto,
                        InRange, TypeOK, Thread, writerVars, readerVars
    <2>4. CASE Begin(r)
      BY <2>1, <2>4 DEF Begin, InRange, TypeOK, Thread, writerVars
    <2>5. CASE Resolve(r)
      <3> USE <2>1, <2>5 DEF Resolve, Goto, InRange, TypeOK, Thread, writerVars
      <3>1. position[r] < last[r] /\ position[r] < current_size
        OBVIOUS
      <3>2. slot'[r] < Len(buffer)
        <4>1. CASE current_size = MaxSize
          BY <4>1 DEF Sizes
        <4>2. CASE current_size < MaxSize
          <5>1. start_pos = 0 /\ current_size <= Len(buffer)
            BY <4>2 DEF Sizes
          <5>2. position[r] \in 0 .. MaxSize - 1
            BY <3>1, <4>2
          <5>3. position[r] % MaxSize = position[r]
            BY ONLY <5>2, NoWrap
          <5>4. start_pos + position[r] = position[r]
            BY <5>1
          <5>5. QED
            BY <3>1, <5>1, <5>3, <5>4
        <4>3. QED
          BY <4>1, <4>2 DEF Sizes
      <3>3. QED
        BY <3>1, <3>2
    <2>6. CASE Dereference(r)
      BY <2>1, <2>6 DEF Dereference, Goto, InRange, TypeOK, Thread, writerVars
    <2>7. CASE Finish(r)
      BY <2>1, <2>7 DEF Finish, Goto, InRange, TypeOK, Thread, writerVars, readerVars
    <2>8. CASE UNCHANGED vars
      BY <2>1, <2>8 DEF vars, InRange, writerVars, readerVars
    <2>9. QED
      BY <2>2, <2>3, <2>4, <2>5, <2>6, <2>7, <2>8 DEF Next, ReaderStep
  <1>3. QED
    BY <1>1, <1>2, RingInvariant, PTL DEF Spec

\* Listing the events beside add() never throws and never reads a slot that was
\* not constructed.
THEOREM RingIterationIsSafe == Spec => []IterationIsSafe
  <1>1. ReadersInv => IterationIsSafe
    BY DEF ReadersInv, InRange, IterationIsSafe
  <1>2. QED
    BY <1>1, ReadersInvariant, PTL

---------------------------------------------------------------------------------
(* Refinement *)

\* Under the invariant Contents is the window of the latest elements added.
Window == /\ Contents \in Seq(Element)
          /\ Len(Contents) = Len(buffer)
          /\ \A k \in 1 .. Len(buffer) :
                Contents[k] = added[Len(added) - Len(buffer) + k]

\* So it is, by HoldsTheLatest.
LEMMA ContentsIsAWindow == RingInv => Window
  <1> SUFFICES ASSUME RingInv
               PROVE  Window
    OBVIOUS
  <1> USE DEF RingInv, Window
  <1>1. \A k \in 1 .. Len(buffer) : Contents[k] = added[Len(added) - Len(buffer) + k]
    BY DEF HoldsTheLatest
  <1>2. ASSUME NEW k \in 1 .. Len(buffer)
        PROVE  Contents[k] \in Element
    <2>1. Len(added) - Len(buffer) + k \in 1 .. Len(added)
      BY DEF Sizes, TypeOK
    <2>2. QED
      BY SMTT(30), <1>1, <2>1 DEF TypeOK
  <1>3. DOMAIN Contents = 1 .. Len(buffer) /\ Len(buffer) \in Nat
    BY DEF Contents, TypeOK
  <1>4. Contents \in [1 .. Len(buffer) -> Element]
    BY <1>2, <1>3 DEF Contents
  <1>5. Contents \in Seq(Element)
    BY <1>3, <1>4, SeqDef
  <1>6. QED
    BY <1>1, <1>3, <1>5

\* The ring implements the bounded log: add() is one append to it, which takes
\* effect when the slot is written; every other step leaves the log alone.
THEOREM RingRefinesBoundedLog == Spec => RefinesBoundedLog
  <1>1. Init => Log!Init
    BY DEF Init, Log!Init, Contents
  <1>2. RingInv' => Window'
    BY ContentsIsAWindow, PTL
  <1>3. RingInv /\ RingInv' /\ [Next]_vars => [Log!AppendNext]_Contents
    <2> SUFFICES ASSUME RingInv, RingInv', [Next]_vars
                 PROVE  [Log!AppendNext]_Contents
      OBVIOUS
    <2> USE SizeAssumption
    <2>1. /\ Contents \in Seq(Element) /\ Len(Contents) = Len(buffer)
          /\ \A k \in 1 .. Len(buffer) :
                Contents[k] = added[Len(added) - Len(buffer) + k]
      BY ContentsIsAWindow DEF Window
    <2>2. /\ Contents' \in Seq(Element) /\ Len(Contents') = Len(buffer')
          /\ \A k \in 1 .. Len(buffer') :
                Contents'[k] = added'[Len(added') - Len(buffer') + k]
      BY <1>2 DEF Window
    <2>3. CASE UNCHANGED <<buffer, added>>
      <3>1. Contents' = Contents
        BY <2>1, <2>2, <2>3, SeqEqual
      <3>2. QED
        BY <3>1
    <2>4. ASSUME NEW w \in Writer, PushBack(w)
          PROVE  Log!AppendNext
      <3>1. element[w] \in Element /\ buffer \in Seq(Element) /\ added \in Seq(Element)
        BY <2>4 DEF PushBack, Goto, RingInv, TypeOK
      <3>2. /\ Len(buffer') = Len(buffer) + 1
            /\ Len(added') = Len(added) + 1 /\ added'[Len(added) + 1] = element[w]
            /\ \A k \in 1 .. Len(added) : added'[k] = added[k]
        BY <2>4, <3>1, AppendProperties DEF PushBack
      <3>3. Len(buffer) < MaxSize /\ Len(buffer) <= Len(added)
        BY <2>4, <3>1, <3>2 DEF PushBack, Goto, RingInv, BranchTaken, Sizes, Exclusive
      <3>4. Contents' = Append(Contents, element[w])
        <4>1. /\ Append(Contents, element[w]) \in Seq(Element)
              /\ Len(Append(Contents, element[w])) = Len(buffer) + 1
              /\ \A k \in 1 .. Len(buffer) : Append(Contents, element[w])[k] = Contents[k]
              /\ Append(Contents, element[w])[Len(buffer) + 1] = element[w]
          BY <2>1, <3>1, AppendProperties
        <4>2. ASSUME NEW k \in 1 .. Len(buffer) + 1
              PROVE  Contents'[k] = Append(Contents, element[w])[k]
          <5>1. Contents'[k] = added'[Len(added) - Len(buffer) + k]
            BY <2>2, <3>1, <3>2
          <5>2. CASE k = Len(buffer) + 1
            BY <3>1, <3>2, <4>1, <5>1, <5>2
          <5>3. CASE k # Len(buffer) + 1
            <6>1. k \in 1 .. Len(buffer) /\ Len(added) - Len(buffer) + k \in 1 .. Len(added)
              BY <3>1, <3>3, <5>3
            <6>2. QED
              BY <2>1, <3>2, <4>1, <5>1, <5>3, <6>1
          <5>4. QED
            BY <5>2, <5>3
        <4>3. QED
          BY <2>2, <3>1, <3>2, <4>1, <4>2, SeqEqual
      <3>5. Len(Append(Contents, element[w])) <= MaxSize
        BY <2>1, <3>1, <3>3, AppendProperties
      <3>6. QED
        BY <3>1, <3>4, <3>5 DEF Log!AppendNext, Log!Add, Log!Latest
    <2>5. ASSUME NEW w \in Writer, Overwrite(w)
          PROVE  Log!AppendNext
      <3>1. /\ element[w] \in Element /\ buffer \in Seq(Element) /\ added \in Seq(Element)
            /\ start_pos + 1 \in Nat
        BY <2>5 DEF Overwrite, Goto, RingInv, TypeOK
      <3>2. /\ Len(buffer') = Len(buffer)
            /\ Len(added') = Len(added) + 1 /\ added'[Len(added) + 1] = element[w]
            /\ \A k \in 1 .. Len(added) : added'[k] = added[k]
        BY <2>5, <3>1, AppendProperties, AssignSlot DEF Overwrite
      <3>3. Len(buffer) = MaxSize /\ Len(buffer) <= Len(added)
        BY <2>5, <3>1 DEF Overwrite, Goto, RingInv, BranchTaken, Sizes, Exclusive
      <3>4. /\ Append(Contents, element[w]) \in Seq(Element)
            /\ Append(Contents, element[w]) # <<>>
            /\ Len(Append(Contents, element[w])) = MaxSize + 1
            /\ \A k \in 1 .. MaxSize : Append(Contents, element[w])[k] = Contents[k]
            /\ Append(Contents, element[w])[MaxSize + 1] = element[w]
        BY <2>1, <3>1, <3>3, AppendProperties
      <3>5. /\ Tail(Append(Contents, element[w])) \in Seq(Element)
            /\ Len(Tail(Append(Contents, element[w]))) = MaxSize
            /\ \A k \in 1 .. MaxSize : Tail(Append(Contents, element[w]))[k]
                                        = Append(Contents, element[w])[k + 1]
        BY <3>4, HeadTailProperties
      <3>6. ASSUME NEW k \in 1 .. MaxSize
            PROVE  Contents'[k] = Tail(Append(Contents, element[w]))[k]
        <4>1. Contents'[k] = added'[Len(added) + 1 - MaxSize + k]
          BY <2>2, <3>2, <3>3
        <4>2. CASE k = MaxSize
          BY <3>1, <3>2, <3>4, <3>5, <4>1, <4>2
        <4>3. CASE k # MaxSize
          <5>1. /\ Len(added) + 1 - MaxSize + k \in 1 .. Len(added)
                /\ Len(added) + 1 - MaxSize + k = Len(added) - MaxSize + (k + 1)
                /\ k + 1 \in 1 .. MaxSize
            BY <3>1, <3>3, <4>3
          <5>2. Contents'[k] = added[Len(added) - MaxSize + (k + 1)]
            BY <3>2, <4>1, <5>1
          <5>3. Contents[k + 1] = added[Len(added) - MaxSize + (k + 1)]
            BY <2>1, <3>3, <5>1
          <5>4. Append(Contents, element[w])[k + 1] = Contents[k + 1]
            BY <3>4, <5>1
          <5>5. QED
            BY <3>5, <5>2, <5>3, <5>4
        <4>4. QED
          BY <4>2, <4>3
      <3>7. Contents' = Tail(Append(Contents, element[w]))
        BY <2>2, <3>2, <3>3, <3>5, <3>6, SeqEqual
      <3>8. ~(Len(Append(Contents, element[w])) <= MaxSize)
        BY <3>4
      <3>9. Log!Add(element[w])
        BY <3>7, <3>8 DEF Log!Add, Log!Latest
      <3>10. QED
        BY <3>1, <3>9 DEF Log!AppendNext
    <2>6. QED
      BY <2>3, <2>4, <2>5
         DEF Next, WriterStep, ReaderStep, Lock, Compare, Grow, Advance, Begin, Resolve,
             Dereference, Finish, writerVars, vars
  <1>4. QED
    BY <1>1, <1>3, RingInvariant, PTL DEF Spec, RefinesBoundedLog, Log!AppendSpec

---------------------------------------------------------------------------------
(* Every element is added once *)

\* No element stands twice in added, and one on its way into the ring not yet.
Unique ==
    /\ \A i, j \in 1 .. Len(added) : added[i] = added[j] => i = j
    /\ \A w \in Writer : pc[w] \in {"locked", "append", "overwrite"} =>
          \A i \in 1 .. Len(added) : added[i] # element[w]

\* What one step of a writer does to it; a reader touches neither.
LEMMA UniqueStep ==
    ASSUME RingInv, Unique, TypeOK', NEW w \in Writer, WriterStep(w)
    PROVE  Unique'
  <1> USE SizeAssumption
  <1>1. /\ TypeOK /\ Exclusive /\ added \in Seq(Element) /\ Len(added) \in Nat
        /\ pc \in [Thread -> WriterPc \cup ReaderPc] /\ w \in Thread
        /\ element \in [Writer -> Element \cup {Nothing}]
    BY DEF RingInv, TypeOK, Thread
  <1>2. ASSUME NEW e \in Element, Lock(w, e)
        PROVE  Unique'
    <2>1. /\ added' = added /\ element' = [element EXCEPT ![w] = e]
          /\ \A i \in 1 .. Len(added) : added[i] # e
          /\ \A v \in Writer : v # w => pc'[v] = pc[v]
      BY <1>1, <1>2 DEF Lock, InUse, Goto, Thread
    <2> QED
      BY <1>1, <2>1 DEF Unique
  <1>3. CASE Compare(w) \/ Grow(w) \/ Advance(w)
    <2>1. /\ added' = added
          /\ \A v \in Writer : pc'[v] \in {"locked", "append", "overwrite"} =>
                pc[v] \in {"locked", "append", "overwrite"} /\ element'[v] = element[v]
      BY SMTT(30), <1>1, <1>3 DEF Compare, Grow, Advance, Return, Goto, Thread, writerVars
    <2> QED
      BY <2>1 DEF Unique
  <1>4. CASE PushBack(w) \/ Overwrite(w)
    <2>1. /\ added' = Append(added, element[w]) /\ pc[w] \in {"append", "overwrite"}
          /\ pc'[w] \in {"grow", "advance"}
      BY <1>1, <1>4 DEF PushBack, Overwrite, Goto
    <2>2. \A v \in Writer : v # w => pc'[v] = "idle"
      BY <1>1, <1>4 DEF PushBack, Overwrite, Goto, Exclusive, Thread
    <2>3. element[w] \in Element
      BY <1>1, <2>1 DEF TypeOK
    <2>4. /\ Len(added') = Len(added) + 1 /\ added'[Len(added) + 1] = element[w]
          /\ \A k \in 1 .. Len(added) : added'[k] = added[k]
      BY <1>1, <2>1, <2>3, AppendProperties
    <2>5. ASSUME NEW i \in 1 .. Len(added'), NEW j \in 1 .. Len(added'), added'[i] = added'[j]
          PROVE  i = j
      <3>1. \A k \in 1 .. Len(added) : added[k] # element[w]
        BY <2>1 DEF Unique
      <3>2. i \in 1 .. Len(added) + 1 /\ j \in 1 .. Len(added) + 1
        BY <2>4
      <3>3. CASE i = Len(added) + 1 /\ j # Len(added) + 1
        BY <1>1, <2>4, <2>5, <3>1, <3>2, <3>3
      <3>4. CASE i # Len(added) + 1 /\ j = Len(added) + 1
        BY <1>1, <2>4, <2>5, <3>1, <3>2, <3>4
      <3>5. CASE i # Len(added) + 1 /\ j # Len(added) + 1
        <4>1. i \in 1 .. Len(added) /\ j \in 1 .. Len(added)
          BY <1>1, <3>2, <3>5
        <4>2. added[i] = added[j]
          BY <2>4, <2>5, <4>1
        <4> QED
          BY <4>1, <4>2 DEF Unique
      <3> QED
        BY <3>3, <3>4, <3>5
    <2>6. \A v \in Writer : pc'[v] \notin {"locked", "append", "overwrite"}
      BY <2>1, <2>2
    <2> QED
      BY <2>5, <2>6 DEF Unique
  <1> QED
    BY <1>2, <1>3, <1>4 DEF WriterStep

---------------------------------------------------------------------------------
(* What a listing shows *)

\* start_pos has been moved once for every element that was overwritten before.
EvictedInv == Evicted \in Nat

\* e is in s at place n or later.
From(s, n, e) == \E i \in n .. Len(s) : s[i] = e

\* A listing since its begin(): what was read at position k, and what stands in the
\* slot that is about to be read, is no older than what was at that position then.
ReadInv(r) ==
    /\ firstOf[r] >= 1 /\ firstOf[r] <= Evicted + 1
    /\ firstOf[r] + last[r] <= Evicted + Len(buffer) + 1
    /\ pc[r] \in {"iterating", "deref"} => position[r] = Len(listing[r])
    /\ \A k \in 1 .. Len(listing[r]) : From(added, firstOf[r] + k - 1, listing[r][k])
    /\ pc[r] = "deref" => From(added, firstOf[r] + position[r], buffer[slot[r] + 1])

\* Of the enclosed elements, those that the listing shows are older than added[m].
Before(r, m) ==
    \A k \in 1 .. Len(listing[r]) : \A i \in Enclosed(r) : listing[r][k] = added[i] => i < m

\* The enclosed elements come in order: what was read at position k, or is about to
\* be, was at that position of the ring then or at an earlier one since.
OrderInv(r) ==
    /\ \A k \in 1 .. Len(listing[r]) : \A i \in Enclosed(r) :
          listing[r][k] = added[i] => i <= Evicted + k
    /\ \A k, l \in 1 .. Len(listing[r]) : \A i, j \in Enclosed(r) :
          (k < l /\ listing[r][k] = added[i] /\ listing[r][l] = added[j]) => i < j
    /\ pc[r] = "deref" => \A m \in Enclosed(r) :
          buffer[slot[r] + 1] = added[m] => m <= Evicted + 1 + position[r] /\ Before(r, m)

\* Until an element is lost, what is read is what was there at begin().
ExactInv(r) ==
    Overwritten = firstOf[r] - 1 =>
        /\ \A k \in 1 .. Len(listing[r]) : /\ firstOf[r] + k - 1 <= Len(added)
                                           /\ listing[r][k] = added[firstOf[r] + k - 1]
        /\ pc[r] = "deref" => /\ firstOf[r] + position[r] <= Len(added)
                              /\ buffer[slot[r] + 1] = added[firstOf[r] + position[r]]

\* The inductive invariant of the listings.
ListingInv == /\ ReadersInv
              /\ Unique
              /\ EvictedInv
              /\ \A r \in Reader : ReadInv(r) /\ OrderInv(r) /\ ExactInv(r)

\* What a step of add() leaves of what a reader relies on: nothing that was added is
\* forgotten, the start only moves on, and a slot changes only to the element that is
\* added last, which counts as overwriting.
AddsOnly ==
    /\ Len(added) <= Len(added')
    /\ \A k \in 1 .. Len(added) : added'[k] = added[k]
    /\ Evicted <= Evicted'
    /\ Overwritten <= Overwritten'
    /\ Len(buffer) <= Len(buffer')
    /\ \A j \in 1 .. Len(buffer) :
          \/ buffer'[j] = buffer[j]
          \/ /\ Len(added') = Len(added) + 1 /\ buffer'[j] = added'[Len(added) + 1]
             /\ Overwritten < Overwritten'

\* Where the writers are, seen from the one that takes a step.
LEMMA OnlyWriter ==
    ASSUME RingInv, TypeOK', NEW w \in Writer, pc[w] # "idle",
           NEW to, pc' = [pc EXCEPT ![w] = to]
    PROVE  /\ Overwriting <=> pc[w] = "advance"
           /\ Overwriting' <=> to = "advance"
  <1>1. \A v \in Writer : v # w => pc[v] = "idle" /\ pc'[v] = "idle"
    BY DEF RingInv, Exclusive, TypeOK, Thread
  <1>2. pc'[w] = to
    BY DEF RingInv, TypeOK, Thread
  <1>3. Overwriting <=> pc[w] = "advance"
    BY <1>1 DEF Overwriting
  <1>4. Overwriting' <=> to = "advance"
    BY <1>1, <1>2 DEF Overwriting
  <1> QED
    BY <1>3, <1>4

\* add() as the readers see it, one case for each of its assignments.
LEMMA AddStep ==
    ASSUME RingInv, EvictedInv, TypeOK', NEW w \in Writer, WriterStep(w)
    PROVE  AddsOnly
  <1> USE SizeAssumption
  <1>0. /\ TypeOK /\ Sizes /\ buffer \in Seq(Element) /\ added \in Seq(Element)
        /\ start_pos \in 0 .. MaxSize - 1
    BY DEF RingInv, TypeOK
  <1>00. Len(added) \in Nat /\ Len(buffer) \in Nat
    BY <1>0
  <1>1. CASE UNCHANGED <<buffer, added, start_pos>> /\ Overwriting' = Overwriting
    <2>1. Evicted' = Evicted
      BY <1>1 DEF Evicted
    <2> QED
      BY <1>0, <1>00, <1>1, <2>1 DEF AddsOnly, EvictedInv, Overwritten
  <1>2. ASSUME NEW e \in Element, Lock(w, e)
        PROVE  AddsOnly
    <2>1. Overwriting' = Overwriting
      BY <1>0, <1>2 DEF Lock, Goto, Overwriting, TypeOK, Thread
    <2> QED
      BY <1>1, <1>2, <2>1 DEF Lock
  <1>3. CASE Compare(w)
    <2>1. Overwriting' = Overwriting
      BY <1>0, <1>3 DEF Compare, Goto, Overwriting, TypeOK, Thread
    <2> QED
      BY <1>1, <1>3, <2>1 DEF Compare, writerVars
  <1>4. CASE Grow(w)
    <2>1. Overwriting' = Overwriting
      BY <1>0, <1>4 DEF Grow, Goto, Overwriting, TypeOK, Thread
    <2> QED
      BY <1>1, <1>4, <2>1 DEF Grow
  <1>5. CASE PushBack(w)
    <2>1. pc[w] = "append" /\ pc[w] # "idle" /\ pc' = [pc EXCEPT ![w] = "grow"] /\ start_pos' = start_pos
      BY <1>5 DEF PushBack, Goto
    <2>2. ~Overwriting /\ ~Overwriting'
      <3>1. /\ Overwriting <=> pc[w] = "advance"
            /\ Overwriting' <=> "grow" = "advance"
        BY <2>1, OnlyWriter
      <3>2. pc[w] # "advance"
        BY <2>1
      <3> QED
        BY <3>1, <3>2
    <2>3. element[w] \in Element
      BY <1>0, <2>1 DEF TypeOK
    <2>4. /\ Len(buffer') = Len(buffer) + 1 /\ Len(added') = Len(added) + 1
          /\ \A k \in 1 .. Len(added) : added'[k] = added[k]
          /\ \A j \in 1 .. Len(buffer) : buffer'[j] = buffer[j]
      BY <1>0, <1>5, <2>3, AppendProperties DEF PushBack
    <2>5. Evicted' = Evicted
      BY <1>00, <2>2, <2>4 DEF Evicted
    <2> QED
      BY <1>0, <1>00, <2>1, <2>4, <2>5 DEF AddsOnly, EvictedInv, Overwritten
  <1>6. CASE Overwrite(w)
    <2>1. pc[w] = "overwrite" /\ pc[w] # "idle" /\ pc' = [pc EXCEPT ![w] = "advance"] /\ start_pos' = start_pos
      BY <1>6 DEF Overwrite, Goto
    <2>2. ~Overwriting /\ Overwriting'
      BY <2>1, OnlyWriter
    <2>3. element[w] \in Element
      BY <1>0, <2>1 DEF TypeOK
    <2>4. /\ Len(added') = Len(added) + 1 /\ added'[Len(added) + 1] = element[w]
          /\ \A k \in 1 .. Len(added) : added'[k] = added[k]
      BY <1>0, <1>6, <2>3, AppendProperties DEF Overwrite
    <2>5. start_pos + 1 \in 1 .. Len(buffer)
      BY <1>0, <2>1 DEF RingInv, BranchTaken, Sizes
    <2>6. /\ Len(buffer') = Len(buffer)
          /\ \A j \in 1 .. Len(buffer) :
                buffer'[j] = IF j = start_pos + 1 THEN element[w] ELSE buffer[j]
      BY <1>0, <1>6, <2>3, <2>5, ExceptSeq DEF Overwrite
    <2>7. Evicted' = Evicted
      BY <1>00, <2>2, <2>4, <2>6 DEF Evicted
    <2> QED
      BY <1>0, <1>00, <2>1, <2>4, <2>6, <2>7 DEF AddsOnly, EvictedInv, Overwritten
  <1>7. CASE Advance(w)
    <2>1. pc[w] = "advance" /\ pc[w] # "idle" /\ pc' = [pc EXCEPT ![w] = "idle"]
      BY <1>7 DEF Advance, Goto
    <2>2. Overwriting /\ ~Overwriting'
      BY <2>1, OnlyWriter
    <2>3. UNCHANGED <<buffer, added>>
      BY <1>7 DEF Advance
    <2>4. Evicted' = Evicted + 1 /\ Evicted \in Nat
      BY <1>00, <2>2, <2>3 DEF Evicted, EvictedInv
    <2> QED
      BY <1>0, <1>00, <2>3, <2>4 DEF AddsOnly, Overwritten
  <1> QED
    BY <1>2, <1>3, <1>4, <1>5, <1>6, <1>7 DEF WriterStep

\* What is in a sequence stays there when elements are appended to it.
LEMMA StillThere ==
    ASSUME NEW s, NEW t, Len(s) \in Nat, Len(t) \in Nat, Len(s) <= Len(t),
           \A k \in 1 .. Len(s) : t[k] = s[k],
           NEW n \in Int, n >= 1, NEW e, From(s, n, e)
    PROVE  From(t, n, e)
  <1>1. PICK i \in n .. Len(s) : s[i] = e
    BY DEF From
  <1>2. i \in 1 .. Len(s) /\ i \in n .. Len(t)
    OBVIOUS
  <1> QED
    BY <1>1, <1>2 DEF From

\* A bound that moves on bounds what it did.
LEMMA StillBelow ==
    ASSUME NEW i \in Int, NEW k \in Int, NEW n \in Int, NEW m \in Int, i <= n + k, n <= m
    PROVE  i <= m + k
  OBVIOUS

\* What a reader has read and is about to read stays as good as it was.
LEMMA AddKeepsListing ==
    ASSUME ListingInv, ReadersInv', Unique', AddsOnly, UNCHANGED readerVars,
           NEW r \in Reader, pc'[r] = pc[r]
    PROVE  ReadInv(r)' /\ OrderInv(r)' /\ ExactInv(r)'
  <1>a. ReadInv(r) /\ OrderInv(r) /\ ExactInv(r) /\ InRange(r) /\ TypeOK /\ Evicted \in Nat
    BY DEF ListingInv, ReadersInv, RingInv, EvictedInv
  <1>b. /\ listing[r] \in Seq(Element) /\ slot[r] \in Nat /\ position[r] \in Nat
        /\ firstOf[r] \in Int /\ last[r] \in Nat
        /\ added \in Seq(Element) /\ buffer \in Seq(Element)
    BY <1>a, SizeAssumption DEF TypeOK
  <1>c. Len(added) \in Nat /\ Len(buffer) \in Nat /\ Len(listing[r]) \in Nat
    BY <1>b
  <1>0. /\ ReadInv(r) /\ OrderInv(r) /\ ExactInv(r) /\ InRange(r) /\ TypeOK /\ Evicted \in Nat
        /\ listing[r] \in Seq(Element) /\ slot[r] \in Nat /\ position[r] \in Nat
        /\ firstOf[r] \in Int /\ last[r] \in Nat /\ Len(added) \in Nat /\ Len(buffer) \in Nat
        /\ Len(listing[r]) \in Nat
    BY <1>a, <1>b, <1>c
  <1>00. Len(added') \in Nat /\ Len(buffer') \in Nat
    BY DEF ReadersInv, RingInv, TypeOK
  <1>1. /\ listing' = listing /\ firstOf' = firstOf /\ position' = position /\ slot' = slot
        /\ last' = last
    BY DEF readerVars
  <1>2. Evicted' \in Int /\ Evicted <= Evicted' /\ Len(buffer) <= Len(buffer')
    BY <1>00 DEF AddsOnly, Evicted
  <1>3. /\ firstOf'[r] >= 1 /\ firstOf'[r] <= Evicted' + 1
        /\ firstOf'[r] + last'[r] <= Evicted' + Len(buffer') + 1
    BY SMTT(30), <1>0, <1>00, <1>1, <1>2 DEF ReadInv
  <1>4. ASSUME NEW k \in 1 .. Len(listing'[r])
        PROVE  From(added', firstOf'[r] + k - 1, listing'[r][k])
    <2>1. k \in 1 .. Len(listing[r])
      BY <1>1
    <2>2. From(added, firstOf[r] + k - 1, listing[r][k])
      BY <1>0, <2>1 DEF ReadInv
    <2>3. firstOf[r] + k - 1 \in Int /\ firstOf[r] + k - 1 >= 1
      BY <1>0, <2>1 DEF ReadInv
    <2>4. From(added', firstOf[r] + k - 1, listing[r][k])
      BY <1>0, <1>00, <2>2, <2>3, StillThere DEF AddsOnly
    <2> QED
      BY <1>1, <2>4
  <1>5. ASSUME pc[r] = "deref"
        PROVE  From(added', firstOf'[r] + position'[r], buffer'[slot'[r] + 1])
    <2>1. From(added, firstOf[r] + position[r], buffer[slot[r] + 1])
      BY <1>0, <1>5 DEF ReadInv
    <2>2. PICK i \in firstOf[r] + position[r] .. Len(added) : added[i] = buffer[slot[r] + 1]
      BY <2>1 DEF From
    <2>3. i \in 1 .. Len(added)
      BY <1>0 DEF ReadInv
    <2>4. slot[r] + 1 \in 1 .. Len(buffer)
      BY <1>0, <1>5 DEF InRange
    <2>5. CASE buffer'[slot[r] + 1] = buffer[slot[r] + 1]
      <3>1. added'[i] = buffer'[slot'[r] + 1]
        BY <1>1, <2>2, <2>3, <2>5 DEF AddsOnly
      <3>2. i \in firstOf'[r] + position'[r] .. Len(added')
        BY <1>0, <1>00, <1>1, <2>3 DEF AddsOnly
      <3> QED
        BY <3>1, <3>2 DEF From
    <2>6. CASE Len(added') = Len(added) + 1 /\ buffer'[slot[r] + 1] = added'[Len(added) + 1]
      <3>1. added'[Len(added) + 1] = buffer'[slot'[r] + 1]
        BY <1>1, <2>6
      <3>2. Len(added) + 1 \in firstOf'[r] + position'[r] .. Len(added')
        BY <1>0, <1>00, <1>1, <2>3, <2>6
      <3> QED
        BY <3>1, <3>2 DEF From
    <2> QED
      BY <2>4, <2>5, <2>6 DEF AddsOnly
  <1>6. ReadInv(r)'
    <2>1. pc[r] = "deref" =>
             From(added', firstOf'[r] + position'[r], buffer'[slot'[r] + 1])
      BY <1>5
    <2>2. pc'[r] \in {"iterating", "deref"} => position'[r] = Len(listing'[r])
      BY <1>0, <1>1 DEF ReadInv
    <2> QED
      BY <1>1, <1>3, <1>4, <2>1, <2>2 DEF ReadInv
  \* The enclosed elements are where they were; a slot that has changed holds none.
  <1>7. /\ Enclosed(r)' = Enclosed(r)
        /\ \A i \in Enclosed(r) : i \in 1 .. Len(added) /\ added'[i] = added[i]
    <2>1. Enclosed(r)' = Enclosed(r)
      BY <1>1 DEF Enclosed
    <2>2. Evicted + Len(buffer) <= Len(added)
      BY <1>0 DEF Evicted
    <2>3. ASSUME NEW i \in Enclosed(r)
          PROVE  i \in 1 .. Len(added)
      BY <1>0, <2>2 DEF Enclosed, ReadInv
    <2> QED
      BY <2>1, <2>3 DEF AddsOnly
  <1>8. ASSUME pc[r] = "deref", NEW m \in Enclosed(r), buffer'[slot[r] + 1] = added[m]
        PROVE  buffer[slot[r] + 1] = added[m]
    <2>1. slot[r] + 1 \in 1 .. Len(buffer)
      BY <1>0, <1>8 DEF InRange
    <2>2. CASE Len(added') = Len(added) + 1 /\ buffer'[slot[r] + 1] = added'[Len(added) + 1]
      <3>1. added'[m] = added'[Len(added) + 1] /\ m \in 1 .. Len(added)
        BY <1>7, <1>8, <2>2
      <3>2. m = Len(added) + 1
        BY <1>0, <2>2, <3>1 DEF Unique
      <3> QED
        BY <1>0, <3>1, <3>2
    <2> QED
      BY <1>8, <2>1, <2>2 DEF AddsOnly
  <1>9. OrderInv(r)'
    <2>1. ASSUME NEW k \in 1 .. Len(listing[r]), NEW i \in Enclosed(r), listing[r][k] = added'[i]
          PROVE  i <= Evicted' + k
      <3>1. i <= Evicted + k
        BY <1>0, <1>7, <2>1 DEF OrderInv
      <3>2. i \in Int /\ k \in Int /\ Evicted \in Int
        BY <1>0, <1>7
      <3> QED
        BY <1>2, <3>1, <3>2, StillBelow
    <2>2. \A k, l \in 1 .. Len(listing[r]) : \A i, j \in Enclosed(r) :
             (k < l /\ listing[r][k] = added'[i] /\ listing[r][l] = added'[j]) => i < j
      BY <1>0, <1>7 DEF OrderInv
    <2>3. ASSUME pc[r] = "deref", NEW m \in Enclosed(r), buffer'[slot[r] + 1] = added'[m]
          PROVE  /\ m <= Evicted' + 1 + position[r]
                 /\ \A k \in 1 .. Len(listing[r]) : \A i \in Enclosed(r) :
                       listing[r][k] = added'[i] => i < m
      <3>1. buffer[slot[r] + 1] = added[m]
        BY <1>7, <1>8, <2>3
      <3>2. m <= Evicted + 1 + position[r] /\ Before(r, m) /\ m \in Int
        BY <1>0, <1>7, <2>3, <3>1 DEF OrderInv
      <3>3. \A k \in 1 .. Len(listing[r]) : \A i \in Enclosed(r) :
                       listing[r][k] = added'[i] => i < m
        BY <1>7, <3>2 DEF Before
      <3>4. m <= Evicted' + 1 + position[r]
        BY <1>0, <1>2, <3>2
      <3> QED
        BY <3>3, <3>4
    <2> QED
      BY <1>1, <1>7, <2>1, <2>2, <2>3 DEF OrderInv, Before
  <1>10. ExactInv(r)'
    <2> SUFFICES ASSUME Overwritten' = firstOf[r] - 1
                 PROVE  /\ \A k \in 1 .. Len(listing[r]) :
                              /\ firstOf[r] + k - 1 <= Len(added')
                              /\ listing[r][k] = added'[firstOf[r] + k - 1]
                        /\ pc[r] = "deref" =>
                              /\ firstOf[r] + position[r] <= Len(added')
                              /\ buffer'[slot[r] + 1] = added'[firstOf[r] + position[r]]
      BY <1>1 DEF ExactInv
    <2>1. Overwritten = firstOf[r] - 1 /\ Overwritten' = Overwritten
      <3>1. Evicted <= Overwritten /\ Overwritten \in Int /\ Overwritten' \in Int
        BY <1>0, <1>00 DEF Evicted, Overwritten
      <3>2. firstOf[r] <= Evicted + 1 /\ Overwritten <= Overwritten'
        BY <1>0 DEF ReadInv, AddsOnly
      <3>3. firstOf[r] \in Int /\ Evicted \in Int
        BY <1>0
      <3> QED
        BY <3>1, <3>2, <3>3
    <2>2. firstOf[r] >= 1
      BY <1>0 DEF ReadInv
    <2>3. ASSUME NEW k \in 1 .. Len(listing[r])
          PROVE  /\ firstOf[r] + k - 1 <= Len(added')
                 /\ listing[r][k] = added'[firstOf[r] + k - 1]
      <3>1. firstOf[r] + k - 1 <= Len(added) /\ listing[r][k] = added[firstOf[r] + k - 1]
        BY <1>0, <2>1 DEF ExactInv
      <3>2. firstOf[r] + k - 1 \in 1 .. Len(added)
        BY <1>0, <2>2, <3>1
      <3> QED
        BY <1>0, <1>00, <3>1, <3>2 DEF AddsOnly
    <2>4. ASSUME pc[r] = "deref"
          PROVE  /\ firstOf[r] + position[r] <= Len(added')
                 /\ buffer'[slot[r] + 1] = added'[firstOf[r] + position[r]]
      <3>1. /\ firstOf[r] + position[r] <= Len(added)
            /\ buffer[slot[r] + 1] = added[firstOf[r] + position[r]]
        BY <1>0, <2>1, <2>4 DEF ExactInv
      <3>2. firstOf[r] + position[r] \in 1 .. Len(added) /\ slot[r] + 1 \in 1 .. Len(buffer)
        BY SMTT(30), <1>0, <2>2, <2>4, <3>1 DEF InRange
      <3>3. buffer'[slot[r] + 1] = buffer[slot[r] + 1]
        <4>1. ~(Overwritten < Overwritten')
          BY <1>0, <2>1
        <4> QED
          BY <3>2, <4>1 DEF AddsOnly
      <3>4. added'[firstOf[r] + position[r]] = added[firstOf[r] + position[r]]
        BY <3>2 DEF AddsOnly
      <3> QED
        BY <1>0, <1>00, <3>1, <3>3, <3>4 DEF AddsOnly
    <2> QED
      BY <2>3, <2>4
  <1> QED
    BY <1>6, <1>9, <1>10

\* resolve_index(p) for a position in range: an element that stands in the ring at
\* that position, or the one that has just been written over the oldest.
LEMMA ResolvedSlot ==
    ASSUME RingInv, EvictedInv, NEW p \in Nat, p < current_size
    PROVE  /\ Evicted + 1 + p <= Len(added)
           /\ \/ buffer[((start_pos + p) % MaxSize) + 1] = added[Evicted + 1 + p]
              \/ /\ Len(added) = Evicted + Len(buffer) + 1
                 /\ buffer[((start_pos + p) % MaxSize) + 1] = added[Len(added)]
  <1> DEFINE s == (start_pos + p) % MaxSize
  <1> USE SizeAssumption
  <1>0. /\ buffer \in Seq(Element) /\ added \in Seq(Element) /\ current_size \in Nat
        /\ start_pos \in 0 .. MaxSize - 1
    BY DEF RingInv, TypeOK
  <1>1. /\ Len(added) \in Nat /\ Len(buffer) \in Nat /\ MaxSize \in Nat \ {0}
        /\ current_size <= MaxSize /\ Len(buffer) <= Len(added)
        /\ p < Len(buffer) /\ p < MaxSize /\ Len(buffer) <= MaxSize
    BY <1>0 DEF RingInv, Sizes, BranchTaken
  <1>2. ASSUME NEW k \in 1 .. Len(buffer)
        PROVE  buffer[((LogicalStart + k - 1) % MaxSize) + 1]
                  = added[Len(added) - Len(buffer) + k]
    BY <1>2 DEF RingInv, HoldsTheLatest, Contents
  <1>3. CASE ~Overwriting
    <2>1. LogicalStart = start_pos /\ Evicted = Len(added) - Len(buffer)
      BY <1>1, <1>3 DEF LogicalStart, Evicted
    <2>2. p + 1 \in 1 .. Len(buffer) /\ start_pos + (p + 1) - 1 = start_pos + p
      BY <1>0, <1>1
    <2>3. buffer[s + 1] = added[Len(added) - Len(buffer) + (p + 1)]
      BY <1>2, <2>1, <2>2
    <2>4. Len(added) - Len(buffer) + (p + 1) = Evicted + 1 + p /\ Evicted + 1 + p <= Len(added)
      BY <1>1, <2>1
    <2> QED
      BY <2>3, <2>4
  <1>4. CASE Overwriting
    <2>1. LogicalStart = (start_pos + 1) % MaxSize /\ Evicted = Len(added) - Len(buffer) - 1
      BY <1>1, <1>4 DEF LogicalStart, Evicted
    <2>2. Evicted >= 0 /\ current_size = MaxSize /\ Len(buffer) = MaxSize
      <3>1. current_size = MaxSize
        BY <1>4 DEF Overwriting, RingInv, BranchTaken
      <3>2. ~\E w \in Writer : pc[w] = "grow"
        BY <3>1 DEF RingInv, BranchTaken, Sizes
      <3>3. Len(buffer) = MaxSize
        BY <3>1, <3>2 DEF RingInv, Sizes
      <3> QED
        BY <3>1, <3>3 DEF EvictedInv
    <2>3. Len(added) = Evicted + Len(buffer) + 1 /\ Evicted + 1 + p <= Len(added)
      BY <1>1, <2>1, <2>2
    <2>4. CASE p = 0
      <3>1. (LogicalStart + MaxSize - 1) % MaxSize = start_pos
        BY <1>0, <2>1, RotateLast
      <3>2. s = start_pos
        BY <1>0, <2>4, NoWrap
      <3>3. buffer[s + 1] = added[Len(added) - Len(buffer) + MaxSize]
        BY <1>1, <1>2, <2>2, <3>1, <3>2
      <3>4. Len(added) - Len(buffer) + MaxSize = Len(added)
        BY <1>1, <2>2
      <3> QED
        BY <2>3, <3>3, <3>4
    <2>5. CASE p # 0
      <3>1. p \in 1 .. MaxSize - 1 /\ p \in 1 .. Len(buffer)
        BY <1>1, <2>5
      <3>2. (LogicalStart + p - 1) % MaxSize = s
        BY <1>0, <2>1, <3>1, RotateNext
      <3>3. buffer[s + 1] = added[Len(added) - Len(buffer) + p]
        BY <1>2, <3>1, <3>2
      <3>4. Len(added) - Len(buffer) + p = Evicted + 1 + p
        BY <1>1, <2>1
      <3> QED
        BY <2>3, <3>3, <3>4
    <2> QED
      BY <2>4, <2>5
  <1> QED
    BY <1>3, <1>4

\* A reader's own step, or that of another one, which leaves the ring alone.
LEMMA ReadStep ==
    ASSUME ListingInv, TypeOK', NEW q \in Reader, ReaderStep(q), NEW r \in Reader
    PROVE  EvictedInv' /\ ReadInv(r)' /\ OrderInv(r)' /\ ExactInv(r)'
  <1> USE SizeAssumption, ThreadAssumption
  <1>1. /\ ReadInv(r) /\ OrderInv(r) /\ ExactInv(r) /\ InRange(r)
        /\ TypeOK /\ EvictedInv /\ RingInv /\ Unique /\ Evicted \in Nat
    BY DEF ListingInv, ReadersInv, RingInv, EvictedInv
  <1>2. /\ listing[r] \in Seq(Element) /\ slot[r] \in Nat /\ position[r] \in Nat
        /\ firstOf[r] \in Int /\ last[r] \in Nat
        /\ added \in Seq(Element) /\ buffer \in Seq(Element)
        /\ Len(added) \in Nat /\ Len(buffer) \in Nat /\ Len(listing[r]) \in Nat
    <2>1. /\ listing[r] \in Seq(Element) /\ slot[r] \in 0 .. MaxSize - 1
          /\ position[r] \in Nat /\ firstOf[r] \in Int /\ last[r] \in Nat
          /\ added \in Seq(Element) /\ buffer \in Seq(Element)
      BY <1>1 DEF TypeOK
    <2>2. Len(added) \in Nat /\ Len(buffer) \in Nat /\ Len(listing[r]) \in Nat
      BY <2>1
    <2> QED
      BY <2>1, <2>2
  <1>3. UNCHANGED <<buffer, added, start_pos, current_size>>
    BY DEF ReaderStep, Begin, Resolve, Dereference, Finish, writerVars
  <1>4. \A w \in Writer : pc'[w] = pc[w]
    <2>1. \E to : pc' = [pc EXCEPT ![q] = to]
      BY DEF ReaderStep, Begin, Resolve, Dereference, Finish, Goto
    <2> QED
      BY <1>1, <2>1 DEF TypeOK, Thread
  <1>5. (Overwriting' <=> Overwriting) /\ Evicted' = Evicted
    <2>1. Overwriting' <=> Overwriting
      BY <1>4 DEF Overwriting
    <2> QED
      BY <1>3, <2>1 DEF Evicted
  <1>50. Overwritten' = Overwritten
    BY <1>3 DEF Overwritten
  <1>6. EvictedInv'
    BY <1>1, <1>3, <1>5 DEF EvictedInv
  <1>7. CASE q # r
    <2>1. /\ pc'[r] = pc[r] /\ listing'[r] = listing[r] /\ firstOf'[r] = firstOf[r]
          /\ position'[r] = position[r] /\ slot'[r] = slot[r] /\ last'[r] = last[r]
      BY <1>1, <1>7 DEF ReaderStep, Begin, Resolve, Dereference, Finish, Goto, TypeOK, Thread,
                        readerVars
    <2> QED
      BY <1>1, <1>3, <1>5, <1>50, <1>6, <2>1 DEF ReadInv, OrderInv, ExactInv, Enclosed, Before
  <1>51. /\ \A i \in Enclosed(r) : i \in 1 .. Len(added) /\ i <= Evicted + Len(buffer)
         /\ Evicted <= Overwritten
    <2>1. Evicted + Len(buffer) <= Len(added)
      BY <1>1, <1>2 DEF Evicted
    <2>2. firstOf[r] >= 1 /\ firstOf[r] + last[r] <= Evicted + Len(buffer) + 1
      BY <1>1 DEF ReadInv
    <2>3. Evicted <= Overwritten
      BY <1>1, <1>2 DEF Evicted, Overwritten
    <2> QED
      BY SMTT(30), <1>1, <1>2, <2>1, <2>2, <2>3 DEF Enclosed
  <1>8. CASE q = r /\ Begin(r)
    <2>1. /\ pc'[r] = "iterating" /\ listing'[r] = <<>> /\ position'[r] = 0
          /\ firstOf'[r] = Evicted + 1 /\ last'[r] = current_size
      BY <1>1, <1>8 DEF Begin, TypeOK, Thread
    <2>2. current_size <= Len(buffer) /\ current_size \in Nat
      BY <1>1 DEF RingInv, Sizes, TypeOK
    <2> QED
      BY <1>1, <1>2, <1>3, <1>5, <1>6, <2>1, <2>2 DEF ReadInv, OrderInv, ExactInv
  <1>9. CASE q = r /\ Resolve(r)
    <2>1. /\ pc[r] = "iterating" /\ position[r] < current_size
          /\ pc'[r] = "deref" /\ slot'[r] = (start_pos + position[r]) % MaxSize
          /\ listing' = listing /\ position' = position /\ firstOf' = firstOf /\ last' = last
      BY SMTT(30), <1>1, <1>9 DEF Resolve, Goto, InRange, TypeOK, Thread
    <2> DEFINE p == position[r]
               e == buffer[slot'[r] + 1]
    <2>2. /\ Evicted + 1 + p <= Len(added)
          /\ \/ e = added[Evicted + 1 + p]
             \/ Len(added) = Evicted + Len(buffer) + 1 /\ e = added[Len(added)]
      BY <1>1, <1>2, <2>1, ResolvedSlot
    <2>3. firstOf[r] >= 1 /\ firstOf[r] <= Evicted + 1 /\ p = Len(listing[r])
      BY <1>1, <2>1 DEF ReadInv
    <2>4. From(added, firstOf[r] + p, e)
      <3>0. Evicted \in Int /\ p \in Int /\ firstOf[r] \in Int /\ Len(added) \in Int
        BY <1>1, <1>2
      <3>00. firstOf[r] <= Evicted + 1 /\ Evicted + 1 + p <= Len(added)
        BY <2>2, <2>3
      <3>1. /\ Evicted + 1 + p \in firstOf[r] + p .. Len(added)
            /\ Len(added) \in firstOf[r] + p .. Len(added)
        BY <3>0, <3>00
      <3> QED
        BY <2>2, <3>1 DEF From
    <2>5. ReadInv(r)'
      BY <1>1, <1>3, <1>5, <2>1, <2>4 DEF ReadInv
    <2>6. ASSUME NEW m \in Enclosed(r), e = added[m]
          PROVE  m <= Evicted + 1 + p /\ Before(r, m)
      <3>1. m = Evicted + 1 + p
        <4>1. m \in 1 .. Len(added) /\ m <= Evicted + Len(buffer)
          BY <1>51
        <4>2. Evicted + 1 + p \in 1 .. Len(added) /\ (Len(added) >= 1 => Len(added) \in 1 .. Len(added))
          BY <1>1, <1>2, <2>2
        <4>3. CASE e = added[Evicted + 1 + p]
          BY <1>1, <2>6, <4>1, <4>2, <4>3 DEF Unique
        <4>4. CASE Len(added) = Evicted + Len(buffer) + 1 /\ e = added[Len(added)]
          <5>0. m \in 1 .. Len(added) /\ Len(added) \in 1 .. Len(added)
            BY <1>2, <4>1
          <5>1. m = Len(added)
            BY <1>1, <2>6, <4>4, <5>0 DEF Unique
          <5> QED
            BY <1>1, <1>2, <4>1, <4>4, <5>1
        <4> QED
          BY <2>2, <4>3, <4>4
      <3>2. ASSUME NEW k \in 1 .. Len(listing[r]), NEW i \in Enclosed(r), listing[r][k] = added[i]
            PROVE  i < m
        <4>1. i <= Evicted + k
          BY <1>1, <3>2 DEF OrderInv
        <4>2. i \in Int /\ k \in Int /\ k <= p
          BY <1>2, <1>51, <2>3
        <4>3. Evicted \in Int /\ p \in Int
          BY <1>1, <1>2
        <4> QED
          BY <3>1, <4>1, <4>2, <4>3
      <3>3. Before(r, m)
        BY <3>2 DEF Before
      <3>4. Evicted + 1 + p \in Int
        BY <1>1, <1>2
      <3>5. m <= Evicted + 1 + p
        BY <3>1, <3>4
      <3> QED
        BY <3>3, <3>5
    <2>7. OrderInv(r)'
      <3>1. Enclosed(r)' = Enclosed(r) /\ \A m : Before(r, m)' <=> Before(r, m)
        BY <1>3, <2>1 DEF Enclosed, Before
      <3>2. \A m \in Enclosed(r) : buffer'[slot'[r] + 1] = added'[m] =>
               m <= Evicted' + 1 + position'[r] /\ Before(r, m)
        BY <1>3, <1>5, <2>1, <2>6
      <3>3. /\ \A k \in 1 .. Len(listing'[r]) : \A i \in Enclosed(r) :
                  listing'[r][k] = added'[i] => i <= Evicted' + k
            /\ \A k, l \in 1 .. Len(listing'[r]) : \A i, j \in Enclosed(r) :
                  (k < l /\ listing'[r][k] = added'[i] /\ listing'[r][l] = added'[j]) => i < j
        BY <1>1, <1>3, <1>5, <2>1 DEF OrderInv
      <3> QED
        BY <1>3, <2>1, <3>1, <3>2, <3>3 DEF OrderInv, Before
    <2>8. ASSUME Overwritten = firstOf[r] - 1
          PROVE  firstOf[r] + p <= Len(added) /\ e = added[firstOf[r] + p]
      <3>1. Evicted = firstOf[r] - 1 /\ Len(added) = Evicted + Len(buffer)
        BY <1>1, <1>2, <1>51, <2>3, <2>8 DEF Overwritten
      <3>2. Evicted + 1 + p = firstOf[r] + p
        BY <1>1, <1>2, <3>1
      <3>3. e = added[Evicted + 1 + p]
        BY <1>1, <1>2, <2>2, <3>1
      <3> QED
        BY <2>2, <3>2, <3>3
    <2>9. ExactInv(r)'
      <3>1. Overwritten = firstOf[r] - 1 =>
               \A k \in 1 .. Len(listing[r]) : /\ firstOf[r] + k - 1 <= Len(added)
                                               /\ listing[r][k] = added[firstOf[r] + k - 1]
        BY <1>1 DEF ExactInv
      <3> QED
        BY <1>3, <1>50, <2>1, <2>8, <3>1 DEF ExactInv
    <2> QED
      BY <1>6, <2>5, <2>7, <2>9
  <1>10. CASE q = r /\ Dereference(r)
    <2> DEFINE p == position[r]
               e == buffer[slot[r] + 1]
    <2>1. /\ pc[r] = "deref" /\ pc'[r] = "iterating" /\ firstOf' = firstOf /\ last' = last
          /\ listing'[r] = Append(listing[r], e)
          /\ position'[r] = p + 1 /\ slot[r] + 1 \in 1 .. Len(buffer)
      BY SMTT(30), <1>1, <1>2, <1>10 DEF Dereference, Goto, TypeOK, Thread
    <2>2. e \in Element
      BY <1>2, <2>1
    <2>3. /\ Len(listing'[r]) = p + 1 /\ p = Len(listing[r])
          /\ \A k \in 1 .. p : listing'[r][k] = listing[r][k]
          /\ listing'[r][p + 1] = e
      <3>1. p = Len(listing[r])
        BY <1>1, <2>1 DEF ReadInv
      <3> QED
        BY <1>2, <2>1, <2>2, <3>1, AppendProperties
    <2>4. \A k \in 1 .. p + 1 : k = p + 1 \/ k \in 1 .. p
      BY <1>2
    <2>5. ReadInv(r)'
      <3>1. From(added, firstOf[r] + p, e) /\ firstOf[r] + (p + 1) - 1 = firstOf[r] + p
        BY <1>1, <1>2, <2>1 DEF ReadInv
      <3>2. ASSUME NEW k \in 1 .. p + 1
            PROVE  From(added, firstOf[r] + k - 1, listing'[r][k])
        <4>1. CASE k = p + 1
          BY <2>3, <3>1, <4>1
        <4>2. CASE k \in 1 .. p
          BY <1>1, <2>3, <4>2 DEF ReadInv
        <4> QED
          BY <2>4, <4>1, <4>2
      <3>3. /\ firstOf'[r] >= 1 /\ firstOf'[r] <= Evicted' + 1
            /\ firstOf'[r] + last'[r] <= Evicted' + Len(buffer') + 1
        BY <1>1, <1>3, <1>5, <2>1 DEF ReadInv
      <3> QED
        BY <1>3, <2>1, <2>3, <3>2, <3>3 DEF ReadInv
    <2>6. Enclosed(r)' = Enclosed(r)
      BY <2>1 DEF Enclosed
    <2>7. ASSUME NEW m \in Enclosed(r), e = added[m]
          PROVE  m <= Evicted + (p + 1) /\ Before(r, m)
      <3>1. m <= Evicted + 1 + p /\ Before(r, m)
        BY <1>1, <2>1, <2>7 DEF OrderInv
      <3>2. m \in Int /\ Evicted \in Int /\ p \in Int
        BY <1>1, <1>2, <1>51
      <3> QED
        BY <3>1, <3>2
    <2>8. ASSUME NEW k \in 1 .. p + 1, NEW i \in Enclosed(r), listing'[r][k] = added[i]
          PROVE  i <= Evicted + k
      <3>1. CASE k = p + 1
        BY <2>3, <2>7, <2>8, <3>1
      <3>2. CASE k \in 1 .. p
        BY <1>1, <2>3, <2>8, <3>2 DEF OrderInv
      <3> QED
        BY <2>4, <3>1, <3>2
    <2>9. ASSUME NEW k \in 1 .. p + 1, NEW l \in 1 .. p + 1,
                 NEW i \in Enclosed(r), NEW j \in Enclosed(r),
                 k < l, listing'[r][k] = added[i], listing'[r][l] = added[j]
          PROVE  i < j
      <3>1. k \in 1 .. p /\ listing[r][k] = added[i]
        BY <1>2, <2>3, <2>9
      <3>2. CASE l = p + 1
        <4>1. Before(r, j)
          BY <2>3, <2>7, <2>9, <3>2
        <4> QED
          BY <2>3, <3>1, <4>1 DEF Before
      <3>3. CASE l \in 1 .. p
        <4>1. listing[r][l] = added[j]
          BY <2>3, <2>9, <3>3
        <4> QED
          BY <1>1, <2>3, <2>9, <3>1, <3>3, <4>1 DEF OrderInv
      <3> QED
        BY <2>4, <3>2, <3>3
    <2>10. OrderInv(r)'
      BY <1>3, <1>5, <2>1, <2>3, <2>6, <2>8, <2>9 DEF OrderInv
    <2>11. ASSUME Overwritten = firstOf[r] - 1, NEW k \in 1 .. p + 1
           PROVE  firstOf[r] + k - 1 <= Len(added) /\ listing'[r][k] = added[firstOf[r] + k - 1]
      <3>1. CASE k = p + 1
        <4>1. firstOf[r] + p <= Len(added) /\ e = added[firstOf[r] + p]
          BY <1>1, <2>1, <2>11 DEF ExactInv
        <4>2. firstOf[r] + k - 1 = firstOf[r] + p
          BY <1>2, <3>1
        <4> QED
          BY <2>3, <3>1, <4>1, <4>2
      <3>2. CASE k \in 1 .. p
        BY <1>1, <2>3, <2>11, <3>2 DEF ExactInv
      <3> QED
        BY <2>4, <3>1, <3>2
    <2>12. ExactInv(r)'
      <3>1. \A k \in 1 .. Len(listing'[r]) : k \in 1 .. p + 1
        BY <2>3
      <3>2. added' = added /\ firstOf'[r] = firstOf[r] /\ pc'[r] # "deref"
        BY <1>3, <2>1
      <3> QED
        BY <1>50, <2>11, <3>1, <3>2 DEF ExactInv
    <2> QED
      BY <1>6, <2>5, <2>10, <2>12
  <1>11. CASE q = r /\ Finish(r)
    <2>1. /\ pc'[r] = "done" /\ listing' = listing /\ firstOf' = firstOf /\ last' = last
      BY <1>1, <1>11 DEF Finish, Goto, TypeOK, Thread, readerVars
    <2>2. ReadInv(r)'
      BY <1>1, <1>3, <1>5, <2>1 DEF ReadInv
    <2>3. OrderInv(r)'
      BY <1>1, <1>3, <1>5, <2>1 DEF OrderInv, Enclosed
    <2>4. ExactInv(r)'
      BY <1>1, <1>3, <1>50, <2>1 DEF ExactInv
    <2> QED
      BY <1>6, <2>2, <2>3, <2>4
  <1> QED
    BY <1>7, <1>8, <1>9, <1>10, <1>11 DEF ReaderStep

\* The listing invariant holds throughout: add() and the readers keep their parts.
THEOREM ListingInvariant == Spec => []ListingInv
  <1>1. Init => ListingInv
    <2> SUFFICES ASSUME Init
                 PROVE  ListingInv
      OBVIOUS
    <2>1. pc = [t \in Thread |-> "idle"]
      BY DEF Init
    <2>2. ~Overwriting /\ Evicted = 0
      <3>1. ~Overwriting
        BY <2>1 DEF Overwriting, Thread
      <3>2. Len(added) = 0 /\ Len(buffer) = 0
        BY DEF Init
      <3>3. Evicted = Len(added) - Len(buffer) - 0
        BY <3>1 DEF Evicted
      <3> QED
        BY <3>1, <3>2, <3>3
    <2>3. EvictedInv
      BY <2>2 DEF EvictedInv, Init
    <2>4. ASSUME NEW r \in Reader
          PROVE  ReadInv(r) /\ OrderInv(r) /\ ExactInv(r)
      BY <2>1, <2>2 DEF Init, ReadInv, OrderInv, ExactInv, Thread
    <2>5. RingInv
      BY RingInit
    <2>6. ReadersInv
      BY <2>5 DEF Init, ReadersInv, InRange, Thread
    <2>7. Unique
      BY <2>1 DEF Init, Unique, Thread
    <2> QED
      BY <2>3, <2>4, <2>6, <2>7 DEF ListingInv
  <1>2. ListingInv /\ ReadersInv' /\ [Next]_vars => ListingInv'
    <2> SUFFICES ASSUME ListingInv, ReadersInv', [Next]_vars
                 PROVE  Unique' /\ EvictedInv' /\ \A r \in Reader : ReadInv(r)' /\ OrderInv(r)' /\ ExactInv(r)'
      BY DEF ListingInv
    <2>1. RingInv /\ EvictedInv /\ TypeOK /\ TypeOK'
      BY DEF ListingInv, ReadersInv, RingInv
    <2>2. ASSUME NEW w \in Writer, WriterStep(w)
          PROVE  Unique' /\ EvictedInv' /\ \A r \in Reader : ReadInv(r)' /\ OrderInv(r)' /\ ExactInv(r)'
      <3>1. AddsOnly
        BY <2>1, <2>2, AddStep
      <3>2. UNCHANGED readerVars /\ \A r \in Reader : pc'[r] = pc[r]
        BY SMTT(30), <2>1, <2>2, ThreadAssumption
           DEF WriterStep, Lock, Compare, PushBack, Grow, Overwrite, Advance, Goto, TypeOK, Thread
      <3>3. EvictedInv'
        <4>1. Len(added') \in Nat /\ Len(buffer') \in Nat
          BY <2>1 DEF TypeOK
        <4>2. Evicted' \in Int
          BY <4>1 DEF Evicted
        <4> QED
          BY <2>1, <3>1, <4>2 DEF EvictedInv, AddsOnly
      <3>4. Unique'
        BY <2>1, <2>2, UniqueStep DEF ListingInv
      <3> QED
        BY <3>1, <3>2, <3>3, <3>4, AddKeepsListing
    <2>3. ASSUME NEW q \in Reader, ReaderStep(q)
          PROVE  Unique' /\ EvictedInv' /\ \A r \in Reader : ReadInv(r)' /\ OrderInv(r)' /\ ExactInv(r)'
      <3>1. ASSUME NEW r \in Reader
            PROVE  EvictedInv' /\ ReadInv(r)' /\ OrderInv(r)' /\ ExactInv(r)'
        BY <2>1, <2>3, ReadStep
      <3>2. EvictedInv'
        BY <2>1, <2>3, ReadStep
      <3>3. Unique'
        <4>1. added' = added /\ element' = element
          BY <2>3 DEF ReaderStep, Begin, Resolve, Dereference, Finish, writerVars
        <4>2. \A w \in Writer : pc'[w] = pc[w]
          <5>1. \E to : pc' = [pc EXCEPT ![q] = to]
            BY <2>3 DEF ReaderStep, Begin, Resolve, Dereference, Finish, Goto
          <5> QED
            BY <2>1, <5>1, ThreadAssumption DEF TypeOK, Thread
        <4> QED
          BY <4>1, <4>2 DEF ListingInv, Unique
      <3> QED
        BY <3>1, <3>2, <3>3
    <2>4. CASE UNCHANGED vars
      <3>1. Overwriting' <=> Overwriting
        BY <2>4 DEF vars, Overwriting
      <3>2. Evicted' = Evicted
        BY <2>4, <3>1 DEF vars, writerVars, Evicted
      <3> QED
        BY <2>4, <3>2 DEF vars, writerVars, readerVars, ListingInv, EvictedInv, Unique, ReadInv,
                          OrderInv, ExactInv, Enclosed, Before, Overwritten
    <2> QED
      BY <2>2, <2>3, <2>4 DEF Next
  <1>3. QED
    BY <1>1, <1>2, ReadersInvariant, PTL DEF Spec

\* Iterating without the lock never shows an element that start_pos had passed
\* before the listing began, whatever is added meanwhile, and the elements that were
\* there then come in the order of insertion, none of them twice.
THEOREM ListingsAreFresh == Spec => []NothingStaleIsListed
  <1>1. ListingInv => NothingStaleIsListed
    <2> SUFFICES ASSUME ListingInv, NEW r \in Reader
                 PROVE  /\ \A k \in DOMAIN listing[r] :
                              \E i \in firstOf[r] + k - 1 .. Len(added) : listing[r][k] = added[i]
                        /\ \A k, l \in DOMAIN listing[r] : \A i, j \in Enclosed(r) :
                              (k < l /\ listing[r][k] = added[i] /\ listing[r][l] = added[j])
                                 => i < j
      BY DEF NothingStaleIsListed
    <2>1. ReadInv(r) /\ OrderInv(r) /\ DOMAIN listing[r] = 1 .. Len(listing[r])
      BY DEF ListingInv, ReadersInv, RingInv, TypeOK
    <2>2. \A k \in DOMAIN listing[r] : From(added, firstOf[r] + k - 1, listing[r][k])
      BY <2>1 DEF ReadInv
    <2> QED
      BY <2>1, <2>2 DEF From, OrderInv
  <1>2. QED
    BY <1>1, ListingInvariant, PTL

\* While nothing is overwritten, what has been listed is a gapless piece of what was
\* added, from the oldest element that the ring held when the listing began.
THEOREM UndisturbedListingsAreExact == Spec => []UndisturbedListingIsExact
  <1>1. ListingInv => UndisturbedListingIsExact
    <2> SUFFICES ASSUME ListingInv, NEW r \in Reader, Overwritten = firstOf[r] - 1
                 PROVE  listing[r] = SubSeq(added, firstOf[r], firstOf[r] + Len(listing[r]) - 1)
      BY DEF UndisturbedListingIsExact
    <2> DEFINE n == Len(listing[r])
               f == firstOf[r]
    <2>1. /\ ExactInv(r) /\ listing[r] \in Seq(Element) /\ added \in Seq(Element)
          /\ f \in Int /\ f >= 1 /\ n \in Nat /\ Len(added) \in Nat
      <3>1. /\ listing[r] \in Seq(Element) /\ added \in Seq(Element) /\ f \in Int
        BY DEF ListingInv, ReadersInv, RingInv, TypeOK
      <3> QED
        BY <3>1 DEF ListingInv, ReadInv
    <2>2. \A k \in 1 .. n : f + k - 1 <= Len(added) /\ listing[r][k] = added[f + k - 1]
      BY <2>1 DEF ExactInv
    <2>3. CASE n = 0
      <3>1. listing[r] = <<>> /\ SubSeq(added, f, f + n - 1) = <<>>
        BY <2>1, <2>3
      <3> QED
        BY <3>1
    <2>4. CASE n # 0
      <3>1. f \in 1 .. Len(added) /\ f + n - 1 \in f .. Len(added)
        BY SMTT(30), <2>1, <2>2, <2>4
      <3>2. /\ SubSeq(added, f, f + n - 1) \in Seq(Element)
            /\ Len(SubSeq(added, f, f + n - 1)) = n
            /\ \A k \in 1 .. n : SubSeq(added, f, f + n - 1)[k] = added[f + k - 1]
        BY SMTT(30), <2>1, <3>1
      <3> QED
        BY <2>1, <2>2, <3>2, SeqEqual
    <2> QED
      BY <2>3, <2>4
  <1>2. QED
    BY <1>1, ListingInvariant, PTL
=================================================================================
