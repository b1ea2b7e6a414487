---------------------------- MODULE EngineProofs -----------------------------
(***************************************************************************)
(* For every set of inputs and queries, every acyclic program of bodies and *)
(* every hash, the invariant of AcyclicEngine holds of the query engine.    *)
(***************************************************************************)
EXTENDS AcyclicEngine, SequenceTheorems, TLAPS

(* Popping a non-empty sequence: its type, its length and its elements. *)
LEMMA PopFacts ==
  ASSUME NEW S, NEW s \in Seq(S), s # <<>>
  PROVE  /\ Pop(s) \in Seq(S)
         /\ Len(Pop(s)) = Len(s) - 1
         /\ \A k \in 1..(Len(s) - 1) : Pop(s)[k] = s[k]
<1>1. Len(s) \in Nat \ {0} /\ \A k \in 1..(Len(s) - 1) : s[k] \in S
  BY EmptySeq, LenProperties
<1> DEFINE n == Len(s) - 1
           t == Pop(s)
<1>2. n \in Nat /\ \A k \in 1..n : s[k] \in S
  BY <1>1
<1>3. /\ t \in Seq(S)
      /\ Len(t) = IF 1 <= n THEN n - 1 + 1 ELSE 0
      /\ \A k \in 1..(n - 1 + 1) : t[k] = s[1 + k - 1]
  BY <1>2, SubSeqProperties DEF Pop
<1> HIDE DEF t
<1>4. Len(t) = n
  <2> HIDE DEF n
  <2>1. CASE n = 0
    BY <1>3, <2>1
  <2>2. CASE n # 0
    <3>1. n \in Int /\ 1 <= n
      BY <1>2, <2>2
    <3>2. n - 1 + 1 = n
      BY <3>1
    <3>3. QED
      BY <1>3, <3>1, <3>2
  <2>3. QED
    BY <2>1, <2>2
<1>5. \A k \in 1..n : t[k] = s[k]
  <2> TAKE k \in 1..n
  <2>1. k \in 1..(n - 1 + 1) /\ 1 + k - 1 = k
    BY <1>2
  <2>2. QED
    BY <1>3, <2>1
<1>6. QED
  BY <1>3, <1>4, <1>5 DEF t

(* Types of the things a step looks at. *)
LEMMA SlotFacts ==
  ASSUME TypeOK, NEW c \in Cell, slots[c] # NoSlot
  PROVE  /\ slots[c] \in Slot
         /\ slots[c].value \in Val
         /\ slots[c].computedAt \in Nat
         /\ slots[c].verifiedAt \in Nat
         /\ slots[c].deps \in Seq(Dep)
         /\ Len(slots[c].deps) \in Nat
         /\ \A k \in 1..Len(slots[c].deps) : slots[c].deps[k] \in Dep
<1>1. slots[c] \in Slot
  BY DEF TypeOK
<1>2. slots[c].deps \in Seq(Dep)
  BY <1>1 DEF Slot
<1>3. QED
  BY <1>1, <1>2 DEF Slot

(* The fields of a recorded dep have their types. *)
LEMMA EdgeFacts ==
  ASSUME NEW d \in Dep
  PROVE  d.cell \in Cell /\ d.changedAt \in Nat /\ d.at \in Point /\ d.seen \in Seen
BY DEF Dep

(* An input cell has a new, later slot or none: edges stay sound. *)
LEMMA EdgeAfterInput ==
  ASSUME TypeOK, NEW i \in Input, NEW s \in Slot \cup {NoSlot},
         rev' = rev + 1, slots' = [slots EXCEPT ![i] = s],
         s # NoSlot => s.computedAt = rev + 1,
         NEW d \in Dep, NEW q \in Query, SoundEdge(d, q)
  PROVE  SoundEdge(d, q)'
<1>1. d.cell \in Cell /\ d.changedAt \in Nat
  BY EdgeFacts
<1>2. rev \in Nat /\ DOMAIN slots = Cell
  BY DEF TypeOK
<1>3. CASE d.cell = i
  BY <1>1, <1>2, <1>3, EngineAssumption DEF SoundEdge, Changed, Current, Cell
<1>4. CASE d.cell # i
  <2>1. slots'[d.cell] = slots[d.cell]
    BY <1>1, <1>2, <1>4
  <2>2. QED
    BY <1>1, <1>2, <2>1 DEF SoundEdge, Changed, Current
<1>5. QED
  BY <1>3, <1>4

(***************************************************************************)
(* The slot of a query that was not verified at this revision is replaced   *)
(* by one that is, its stamp kept if the value is the same to the engine    *)
(* and set to the current revision otherwise: edges stay sound, and those   *)
(* that had not moved have not moved.                                       *)
(***************************************************************************)
LEMMA EdgeAfterQuery ==
  ASSUME TypeOK, NEW c \in Query, ~Verified(c), NEW s \in Slot,
         rev' = rev, slots' = [slots EXCEPT ![c] = s],
         s.verifiedAt = rev,
         slots[c] # NoSlot => \/ /\ s.computedAt = slots[c].computedAt
                                 /\ Same(c, s.value, slots[c].value)
                              \/ s.computedAt = rev /\ slots[c].computedAt < rev,
         NEW d \in Dep, NEW q \in Query, SoundEdge(d, q)
  PROVE  SoundEdge(d, q)' /\ (Unmoved(d) => Unmoved(d)')
<1>1. d.cell \in Cell /\ d.changedAt \in Nat
  BY EdgeFacts
<1>2. rev \in Nat /\ DOMAIN slots = Cell /\ c \in Cell
  BY DEF TypeOK, Cell
<1>3. CASE d.cell = c
  <2>1. slots[c] # NoSlot /\ d.changedAt <= slots[c].computedAt /\ ~Unmoved(d)
    BY <1>3 DEF SoundEdge, Unmoved
  <2>2. slots[c].computedAt \in Nat /\ s.computedAt \in Nat
    BY <1>2, <2>1, SlotFacts DEF Slot
  <2>3. slots'[d.cell] = s /\ s # NoSlot
    BY <1>2, <1>3, NoSlotAssumption
  <2>4. d.changedAt <= s.computedAt
    BY <2>1, <2>2, <1>1, <1>2
  <2>5. ~Changed(slots'[d.cell], d) =>
           ~Changed(slots[d.cell], d) /\ Same(c, s.value, slots[c].value)
    BY <1>1, <1>2, <1>3, <2>1, <2>2, <2>3 DEF Changed
  <2>6. ~Changed(slots'[d.cell], d) => Current(d)'
    BY <1>3, <2>1, <2>3, <2>5 DEF SoundEdge, Current, Same
  <2>7. QED
    BY <1>1, <1>3, <2>1, <2>3, <2>4, <2>6, EngineAssumption DEF SoundEdge
<1>4. CASE d.cell # c
  <2>1. slots'[d.cell] = slots[d.cell]
    BY <1>1, <1>2, <1>4
  <2>2. QED
    BY <1>1, <1>2, <2>1 DEF SoundEdge, Changed, Current, Unmoved, Verified
<1>5. QED
  BY <1>3, <1>4

-----------------------------------------------------------------------------
(* Steps that leave rev and slots alone *)

(* A step that leaves rev and slots alone leaves every slot fact alone. *)
LEMMA SlotsKept ==
  ASSUME UNCHANGED <<rev, slots>>
  PROVE  /\ \A c : Verified(c)' <=> Verified(c)
         /\ \A d, q : SoundEdge(d, q)' <=> SoundEdge(d, q)
         /\ \A d : Unmoved(d)' <=> Unmoved(d)
         /\ \A a, c : Awaits(a, c)' <=> Awaits(a, c)
         /\ \A a : WalkOK(a)' <=> WalkOK(a)
         /\ \A a, f : RunOK(a, f)' <=> RunOK(a, f)
         /\ InputSlots' <=> InputSlots
         /\ QuerySlots' <=> QuerySlots
<1>1. \A c : Verified(c)' <=> Verified(c)
  BY DEF Verified
<1>2. \A d, q : SoundEdge(d, q)' <=> SoundEdge(d, q)
  BY DEF SoundEdge, Changed, Current
<1>3. \A d : Unmoved(d)' <=> Unmoved(d)
  BY <1>1 DEF Unmoved, Changed
<1>4. \A a, c : Awaits(a, c)' <=> Awaits(a, c)
  BY DEF Awaits
<1>5. \A a : WalkOK(a)' <=> WalkOK(a)
  BY <1>3 DEF WalkOK
<1>6. \A a, f : RunOK(a, f)' <=> RunOK(a, f)
  BY <1>1, <1>2, <1>3 DEF RunOK
<1>7. InputSlots' <=> InputSlots
  BY DEF InputSlots
<1>8. QuerySlots' <=> QuerySlots
  BY <1>2, <1>3 DEF QuerySlots
<1>9. QED
  BY <1>1, <1>2, <1>3, <1>4, <1>5, <1>6, <1>7, <1>8

(* The operation ends: nothing is left to hold of the call chain. *)
LEMMA OperationEnds ==
  ASSUME IInv, UNCHANGED <<rev, slots>>, ctl' = <<>>, ret' = None,
         stack' \in Seq(Frame)
  PROVE  IInv'
<1>1. InputSlots' /\ QuerySlots'
  BY SlotsKept DEF IInv
<1>2. TypeOK'
  BY DEF IInv, TypeOK
<1>3. CallChain' /\ Walks' /\ Runs' /\ Returned'
  BY DEF CallChain, Walks, Runs, Returned
<1>4. QED
  BY <1>1, <1>2, <1>3 DEF IInv

(* Recording one more read on a frame keeps the frames and their number. *)
LEMMA RecordedFacts ==
  ASSUME TypeOK, NEW f \in 1..Len(stack), NEW c \in Cell, NEW p \in Point, NEW v \in Seen
  PROVE  /\ Edge(c, p, v) \in Dep
         /\ Recorded(f, c, p, v) \in Seq(Frame)
         /\ Len(Recorded(f, c, p, v)) = Len(stack)
         /\ stack[f].deps \in Seq(Dep)
         /\ Recorded(f, c, p, v)[f].cell = stack[f].cell
         /\ Recorded(f, c, p, v)[f].deps = Append(stack[f].deps, Edge(c, p, v))
         /\ \A k \in 1..Len(stack) : k # f => Recorded(f, c, p, v)[k] = stack[k]
<1> DEFINE d == Edge(c, p, v)
           e == Extended(stack[f], d)
<1>1. ChangedAt(c) \in Nat
  BY SlotFacts DEF ChangedAt
<1>2. d \in Dep
  BY <1>1 DEF Dep, Edge
<1>3. stack \in Seq(Frame) /\ stack[f] \in Frame
  BY DEF TypeOK
<1>4. stack[f].deps \in Seq(Dep)
  BY <1>3 DEF Frame
<1>5. Append(stack[f].deps, d) \in Seq(Dep)
  BY <1>2, <1>4, AppendProperties
<1>6. e \in Frame /\ e.cell = stack[f].cell /\ e.deps = Append(stack[f].deps, d)
  BY <1>3, <1>5 DEF Frame, Extended
<1>7. Recorded(f, c, p, v) = [stack EXCEPT ![f] = e]
  BY DEF Recorded
<1> HIDE DEF e
<1>8. /\ Recorded(f, c, p, v) \in Seq(Frame)
      /\ Len(Recorded(f, c, p, v)) = Len(stack)
      /\ Recorded(f, c, p, v)[f] = e
      /\ \A k \in 1..Len(stack) : k # f => Recorded(f, c, p, v)[k] = stack[k]
  BY <1>3, <1>6, <1>7, ExceptSeq, LenProperties
<1>9. QED
  BY <1>2, <1>4, <1>6, <1>8

(* A panic unwinds the call chain and keeps the slots (Panic). *)
LEMMA PanicPreserves == IInv /\ Panic => IInv'
BY OperationEnds DEF Panic, IInv, TypeOK

(* The return of a Get to its client (getLocked, its tail). *)
LEMMA GetReturnPreserves == IInv /\ GetReturn => IInv'
<1> SUFFICES ASSUME IInv, GetReturn PROVE IInv'
  OBVIOUS
<1>1. TypeOK /\ ctl \in Seq(Activation) /\ ctl # <<>> /\ Top \in Activation
  BY EmptySeq, ElementOfSeq DEF IInv, TypeOK, GetReturn, Top
<1>2. Top.parent \in Nat /\ Top.cell \in Query /\ Top.point \in Point
  BY <1>1 DEF Activation
<1>3. Len(stack) = Top.parent
  BY <1>1, <1>2 DEF IInv, CallChain, GetReturn, FramesOf
<1>4. slots[Top.cell].value \in Seen
  BY <1>1, <1>2, SlotFacts DEF IInv, Returned, GetReturn, Awaits, Verified, Cell, Seen
<1>5. stack' \in Seq(Frame)
  <2>1. CASE Top.parent = 0
    BY <1>1, <2>1 DEF GetReturn, TypeOK
  <2>2. CASE Top.parent # 0
    BY <1>1, <1>2, <1>3, <1>4, <2>2, RecordedFacts DEF GetReturn, Cell
  <2>3. QED
    BY <2>1, <2>2
<1>6. QED
  BY <1>5, OperationEnds DEF GetReturn

(* A read of an input by a client (Input.getLocked). *)
LEMMA GetInputPreserves == ASSUME NEW i \in Input PROVE IInv /\ GetInput(i) => IInv'
<1> SUFFICES ASSUME IInv, GetInput(i) PROVE IInv'
  OBVIOUS
<1>1. TypeOK /\ ctl = <<>> /\ ret = None
  BY DEF IInv, GetInput, Idle, Returned
<1>2. Len(stack) \in 1..Len(stack) /\ stack[Len(stack)] \in Frame
  BY <1>1, EmptySeq, ElementOfSeq, LenProperties DEF TypeOK, GetInput
<1>3. slots[i].value \in Seen /\ Entry[stack[Len(stack)].cell] \in Point /\ i \in Cell
  BY <1>1, <1>2, SlotFacts, EngineAssumption DEF GetInput, Cell, Seen, Frame
<1>4. stack' \in Seq(Frame)
  BY <1>1, <1>2, <1>3, RecordedFacts DEF GetInput
<1>5. QED
  BY <1>1, <1>4, OperationEnds DEF GetInput

-----------------------------------------------------------------------------
(* Input.Set and Input.Clear *)

(* A new revision with another slot, or none, for one input. *)
LEMMA InputChanges ==
  ASSUME IInv, NEW i \in Input, NEW s \in Slot \cup {NoSlot}, ctl = <<>>,
         rev' = rev + 1, slots' = [slots EXCEPT ![i] = s],
         UNCHANGED <<stack, ctl, ret>>,
         s # NoSlot => /\ s.computedAt = rev + 1 /\ s.verifiedAt = rev + 1
                       /\ s.deps = <<>>
  PROVE  IInv'
<1>1. TypeOK /\ ret = None /\ rev \in Nat /\ DOMAIN slots = Cell /\ i \in Cell
  BY DEF IInv, TypeOK, Returned, Cell
<1>2. slots'[i] = s /\ \A c \in Cell : c # i => slots'[c] = slots[c]
  BY <1>1
<1>3. TypeOK'
  <2>1. slots' \in [Cell -> Slot \cup {NoSlot}]
    BY DEF IInv, TypeOK
  <2>2. QED
    BY <1>1, <2>1 DEF TypeOK
<1>4. InputSlots'
  <2> SUFFICES ASSUME NEW j \in Input, slots'[j] # NoSlot
               PROVE  /\ 0 < slots'[j].computedAt
                      /\ slots'[j].computedAt = slots'[j].verifiedAt
                      /\ slots'[j].verifiedAt <= rev'
                      /\ slots'[j].deps = <<>>
    BY DEF InputSlots
  <2>1. CASE j = i
    BY <1>1, <1>2, <2>1
  <2>2. CASE j # i
    <3>1. slots'[j] = slots[j] /\ j \in Cell
      BY <1>2, <2>2 DEF Cell
    <3>2. slots[j].verifiedAt \in Nat
      BY <1>1, <3>1, SlotFacts
    <3>3. QED
      BY <1>1, <3>1, <3>2 DEF IInv, InputSlots
  <2>3. QED
    BY <2>1, <2>2
<1>5. QuerySlots'
  <2> SUFFICES ASSUME NEW q \in Query, slots'[q] # NoSlot
               PROVE  /\ slots'[q].computedAt <= slots'[q].verifiedAt
                      /\ slots'[q].verifiedAt <= rev'
                      /\ Explains(q, slots'[q].deps, slots'[q].value)
                      /\ \A k \in 1..Len(slots'[q].deps) :
                           /\ SoundEdge(slots[q].deps[k], q)'
                           /\ slots'[q].deps[k].changedAt <= slots'[q].verifiedAt
                           /\ slots'[q].verifiedAt = rev' => Unmoved(slots[q].deps[k])'
    BY DEF QuerySlots
  <2>1. slots'[q] = slots[q] /\ q \in Cell
    BY <1>2, EngineAssumption DEF Cell
  <2>2. slots[q].verifiedAt \in Nat /\ slots[q].verifiedAt <= rev
    BY <1>1, <2>1, SlotFacts DEF IInv, QuerySlots
  <2>3. ASSUME NEW k \in 1..Len(slots[q].deps), NEW d \in Dep, d = slots[q].deps[k]
        PROVE  SoundEdge(d, q)'
    <3>1. SoundEdge(d, q)
      BY <2>1, <2>3 DEF IInv, QuerySlots
    <3>2. QED
      BY <1>1, <3>1, EdgeAfterInput
  <2>4. \A k \in 1..Len(slots[q].deps) : slots[q].deps[k] \in Dep
    BY <1>1, <2>1, SlotFacts
  <2>5. QED
    BY <1>1, <2>1, <2>2, <2>3, <2>4 DEF IInv, QuerySlots
<1>6. CallChain' /\ Walks' /\ Runs' /\ Returned'
  BY <1>1 DEF CallChain, Walks, Runs, Returned
<1>7. QED
  BY <1>3, <1>4, <1>5, <1>6 DEF IInv

-----------------------------------------------------------------------------
(* Steps that change the top of the call stack *)

(* The top activation is an element of the call stack. *)
LEMMA TopFacts ==
  ASSUME TypeOK, ctl # <<>>
  PROVE  /\ ctl \in Seq(Activation)
         /\ Len(ctl) \in Nat \ {0}
         /\ Len(ctl) \in 1..Len(ctl)
         /\ \A k \in 1..Len(ctl) : /\ ctl[k] \in Activation
                                   /\ ctl[k].cell \in Query
                                   /\ ctl[k].cell \in Cell
                                   /\ ctl[k].point \in Point
                                   /\ ctl[k].i \in Nat
                                   /\ ctl[k].parent \in Nat
                                   /\ FramesOf(ctl[k]) \in Nat
                                   /\ Rank[ctl[k].cell] \in Nat
         /\ Top \in Activation /\ Top.cell \in Query /\ Top.cell \in Cell
         /\ Top.point \in Point /\ Top.i \in Nat /\ Top.parent \in Nat
<1>1. ctl \in Seq(Activation) /\ Len(ctl) \in Nat \ {0} /\ Len(ctl) \in 1..Len(ctl)
  BY EmptySeq, LenProperties DEF TypeOK
<1>2. \A k \in 1..Len(ctl) : ctl[k] \in Activation
  BY <1>1, ElementOfSeq
<1>3. \A a \in Activation : /\ a.cell \in Query /\ a.cell \in Cell /\ a.point \in Point
                            /\ a.i \in Nat /\ a.parent \in Nat
                            /\ FramesOf(a) \in Nat /\ Rank[a.cell] \in Nat
  BY AcyclicAssumption DEF Activation, Cell, FramesOf
<1>4. QED
  BY <1>1, <1>2, <1>3 DEF Top

(* The top activation goes on; slots and revision are untouched. *)
LEMMA TopMoves ==
  ASSUME IInv, ctl # <<>>, Top.pc # "client", NEW a \in Activation,
         a.cell = Top.cell, a.parent = Top.parent, a.pc \in {"walk", "run"},
         UNCHANGED <<rev, slots>>, ret' = None,
         ctl' = [ctl EXCEPT ![Len(ctl)] = a],
         stack' \in Seq(Frame), Len(stack') = FramesOf(a),
         \A k \in 1..Top.parent : stack'[k] = stack[k],
         a.pc = "walk" => WalkOK(a),
         a.pc = "run" => RunOK(a, stack'[a.parent + 1])
  PROVE  IInv'
<1> DEFINE n == Len(ctl)
<1>1. TypeOK /\ InputSlots' /\ QuerySlots'
  BY SlotsKept DEF IInv
<1>2. /\ ctl' \in Seq(Activation) /\ Len(ctl') = n /\ ctl' # <<>>
      /\ ctl'[n] = a /\ \A k \in 1..n : k # n => ctl'[k] = ctl[k]
  BY <1>1, TopFacts, ExceptSeq, EmptySeq
<1>3. n \in Nat \ {0} /\ n # 1
  BY <1>1, TopFacts DEF IInv, CallChain, Top
<1>4. TypeOK'
  BY <1>1, <1>2 DEF TypeOK
<1>10. ASSUME NEW k \in 1..n
       PROVE  ctl'[k].cell = ctl[k].cell /\ ctl'[k].parent = ctl[k].parent
  <2>1. CASE k = n
    BY <1>2, <2>1 DEF Top
  <2>2. CASE k # n
    BY <1>2, <2>2
  <2>3. QED
    BY <2>1, <2>2
<1>5. CallChain'
  <2>1. \A k \in 1..n : (k = 1) <=> (ctl'[k].pc = "client")
    BY <1>2, <1>3 DEF IInv, CallChain
  <2>2. ASSUME NEW k \in 1..(n - 1)
        PROVE  /\ Awaits(ctl[k], ctl[k + 1].cell)'
               /\ ctl'[k + 1].parent = FramesOf(ctl'[k])
    <3>0. k \in 1..n /\ k + 1 \in 1..n /\ k # n
      <4> HIDE DEF n
      <4> QED BY <1>3
    <3>1. /\ ctl'[k] = ctl[k] /\ ctl'[k + 1].cell = ctl[k + 1].cell
          /\ ctl'[k + 1].parent = ctl[k + 1].parent
      BY <1>2, <1>10, <3>0
    <3>2. Awaits(ctl[k], ctl[k + 1].cell) /\ ctl[k + 1].parent = FramesOf(ctl[k])
      BY <1>3 DEF IInv, CallChain
    <3>3. \A b, c : Awaits(b, c) => Awaits(b, c)'
      BY SlotsKept
    <3>4. QED
      BY <3>1, <3>2, <3>3 DEF Awaits
  <2>3. ASSUME NEW j \in 1..n, NEW k \in 1..n, j < k
        PROVE  /\ FramesOf(ctl'[j]) <= ctl'[k].parent
               /\ 1 < j => Rank[ctl'[k].cell] < Rank[ctl'[j].cell]
    <3>0. j # n
      <4> HIDE DEF n
      <4> QED BY <1>3, <2>3
    <3>1. ctl'[j] = ctl[j] /\ ctl'[k].cell = ctl[k].cell /\ ctl'[k].parent = ctl[k].parent
      BY <1>2, <1>10, <3>0
    <3>2. QED
      BY <2>3, <3>1 DEF IInv, CallChain
  <2>4. Len(stack') = FramesOf(Top)'
    BY <1>2 DEF Top, FramesOf
  <2>5. QED
    BY <1>2, <2>1, <2>2, <2>3, <2>4 DEF CallChain, FramesOf
<1>6. Walks'
  <2> SUFFICES ASSUME NEW k \in 1..n, NEW b, b = ctl'[k], b.pc = "walk"
               PROVE  WalkOK(b)'
    BY <1>2, ZenonT(60) DEF Walks, WalkOK
  <2>1. WalkOK(b)
    BY <1>2 DEF IInv, Walks
  <2>2. QED
    BY <2>1, SlotsKept
<1>7. Runs'
  <2> SUFFICES ASSUME NEW k \in 1..n, NEW b, b = ctl'[k], b.pc = "run",
                      NEW f, f = stack'[b.parent + 1]
               PROVE  b.parent + 1 <= Len(stack') /\ RunOK(b, f)'
    BY <1>2, ZenonT(60) DEF Runs, RunOK
  <2>1. CASE k = n
    <3>1. b = a /\ RunOK(b, f)
      BY <1>2, <2>1
    <3>2. QED
      BY <1>1, <3>1, TopFacts, SlotsKept DEF FramesOf
  <2>2. CASE k # n
    <3>1. b = ctl[k] /\ b.parent \in Nat /\ FramesOf(b) = b.parent + 1
      BY <1>1, <1>2, <2>2, TopFacts DEF FramesOf
    <3>2. b.parent + 1 <= Top.parent
      BY <1>3, <2>2, <3>1 DEF IInv, CallChain, Top
    <3>3. f = stack[b.parent + 1]
      BY <1>1, <3>1, <3>2, TopFacts
    <3>4. RunOK(b, f)
      BY <3>1, <3>3 DEF IInv, Runs
    <3>5. Top.parent <= Len(stack')
      BY <1>1, TopFacts DEF FramesOf
    <3>6. QED
      BY <1>1, <3>1, <3>2, <3>4, <3>5, SlotsKept, TopFacts, LenProperties
  <2>3. QED
    BY <2>1, <2>2
<1>8. Returned'
  BY <1>2 DEF Returned, Top
<1>9. QED
  BY <1>1, <1>4, <1>5, <1>6, <1>7, <1>8 DEF IInv

(* The top activation calls validateOrRunLocked for c. *)
LEMMA TopCalls ==
  ASSUME IInv, ctl # <<>>, Top.pc \in {"walk", "run"}, NEW c \in Query,
         Awaits(Top, c), Rank[c] < Rank[Top.cell], ret = None,
         UNCHANGED <<rev, slots, stack, ret>>,
         ctl' = Append(ctl, Activate("validate", c, Len(stack)))
  PROVE  IInv'
<1> DEFINE n == Len(ctl)
           a == Activate("validate", c, Len(stack))
<1>1. TypeOK /\ InputSlots' /\ QuerySlots'
  BY SlotsKept DEF IInv
<1>2. /\ a \in Activation /\ a.pc = "validate" /\ a.cell = c /\ a.parent = Len(stack)
      /\ FramesOf(a) = Len(stack)
  BY <1>1, EngineAssumption, LenProperties DEF Activate, Activation, TypeOK, FramesOf
<1> HIDE DEF a
<1>3. n \in Nat \ {0} /\ n # 1 /\ n \in 1..n /\ ctl[n] = Top
  BY <1>1, TopFacts DEF IInv, CallChain, Top
<1>4. /\ ctl' \in Seq(Activation) /\ Len(ctl') = n + 1 /\ ctl' # <<>>
      /\ ctl'[n + 1] = a /\ \A k \in 1..n : ctl'[k] = ctl[k]
  BY <1>1, <1>2, TopFacts, AppendProperties DEF a
<1>5. TypeOK'
  BY <1>1, <1>4 DEF TypeOK
<1>6. \A k \in 1..n : /\ (k = 1) <=> (ctl[k].pc = "client")
                      /\ FramesOf(ctl[k]) \in Nat /\ Rank[ctl[k].cell] \in Nat
                      /\ FramesOf(ctl[k]) <= Len(stack)
                      /\ 1 < k => Rank[c] < Rank[ctl[k].cell]
  <2> TAKE k \in 1..n
  <2>1. /\ FramesOf(ctl[k]) \in Nat /\ Rank[ctl[k].cell] \in Nat
        /\ Top.parent \in Nat /\ FramesOf(Top) \in Nat /\ Rank[Top.cell] \in Nat
        /\ Top.parent <= FramesOf(Top) /\ Rank[c] \in Nat
    BY <1>1, <1>3, TopFacts, AcyclicAssumption DEF FramesOf
  <2>2. (k = 1) <=> (ctl[k].pc = "client")
    BY DEF IInv, CallChain
  <2>3. Len(stack) = FramesOf(Top)
    BY DEF IInv, CallChain
  <2>4. CASE k = n
    BY <1>3, <2>1, <2>2, <2>3, <2>4
  <2>5. CASE k # n
    <3>1. k < n
      <4> HIDE DEF n
      <4> QED BY <1>3, <2>5
    <3>2. FramesOf(ctl[k]) <= Top.parent /\ (1 < k => Rank[Top.cell] < Rank[ctl[k].cell])
      BY <1>3, <3>1 DEF IInv, CallChain
    <3>3. QED
      BY <2>1, <2>2, <2>3, <3>2
  <2>6. QED
    BY <2>4, <2>5
<1>7. CallChain'
  <2>1. \A k \in 1..(n + 1) : (k = 1) <=> (ctl'[k].pc = "client")
    <3> TAKE k \in 1..(n + 1)
    <3>1. k \in 1..n \/ k = n + 1
      <4> HIDE DEF n
      <4> QED BY <1>3
    <3>2. QED
      BY <1>2, <1>3, <1>4, <1>6, <3>1
  <2>2. ASSUME NEW k \in 1..n
        PROVE  /\ Awaits(ctl[k], ctl[k + 1].cell)'
               /\ ctl'[k + 1].parent = FramesOf(ctl'[k])
    <3>1. \A b, q : Awaits(b, q) => Awaits(b, q)'
      BY SlotsKept
    <3>2. CASE k = n
      <4>1. ctl'[k] = Top /\ ctl'[k + 1] = a
        BY <1>3, <1>4, <3>2
      <4>2. Len(stack) = FramesOf(Top)
        BY DEF IInv, CallChain
      <4>3. QED
        BY <1>2, <3>1, <4>1, <4>2 DEF Awaits
    <3>3. CASE k # n
      <4>1. k \in 1..(n - 1) /\ k + 1 \in 1..n
        <5> HIDE DEF n
        <5> QED BY <1>3, <3>3
      <4>2. ctl'[k] = ctl[k] /\ ctl'[k + 1] = ctl[k + 1]
        BY <1>4, <4>1
      <4>3. Awaits(ctl[k], ctl[k + 1].cell) /\ ctl[k + 1].parent = FramesOf(ctl[k])
        BY <4>1 DEF IInv, CallChain
      <4>4. QED
        BY <3>1, <4>2, <4>3 DEF Awaits
    <3>4. QED
      BY <3>2, <3>3
  <2>3. ASSUME NEW j \in 1..(n + 1), NEW k \in 1..(n + 1), j < k
        PROVE  /\ FramesOf(ctl'[j]) <= ctl'[k].parent
               /\ 1 < j => Rank[ctl'[k].cell] < Rank[ctl'[j].cell]
    <3>1. j \in 1..n /\ (k \in 1..n \/ k = n + 1)
      <4> HIDE DEF n
      <4> QED BY <1>3, <2>3
    <3>2. CASE k \in 1..n
      BY <1>4, <2>3, <3>1, <3>2 DEF IInv, CallChain
    <3>3. CASE k = n + 1
      BY <1>2, <1>4, <1>6, <3>1, <3>3
    <3>4. QED
      BY <3>1, <3>2, <3>3
  <2>4. Len(stack') = FramesOf(Top)'
    BY <1>2, <1>4 DEF Top, FramesOf
  <2>5. n = Len(ctl') - 1
    BY <1>3, <1>4
  <2>6. QED
    BY <1>4, <2>1, <2>2, <2>3, <2>4, <2>5 DEF CallChain, FramesOf
<1>8. \A k \in 1..(n + 1) : k \in 1..n \/ (k = n + 1 /\ ctl'[k].pc = "validate")
  BY <1>2, <1>3, <1>4
<1>9. Walks'
  <2> SUFFICES ASSUME NEW k \in 1..(n + 1), NEW b, b = ctl'[k], b.pc = "walk"
               PROVE  WalkOK(b)'
    BY <1>4, ZenonT(60) DEF Walks, WalkOK
  <2>1. k \in 1..n /\ b = ctl[k]
    BY <1>4, <1>8
  <2>2. WalkOK(b)
    BY <2>1 DEF IInv, Walks
  <2>3. QED
    BY <2>2, SlotsKept
<1>10. Runs'
  <2>0. Len(ctl') = n + 1
    BY <1>4
  <2> SUFFICES ASSUME NEW k \in 1..(n + 1), NEW b, b = ctl'[k], b.pc = "run",
                      NEW f, f = stack'[b.parent + 1]
               PROVE  b.parent + 1 <= Len(stack') /\ RunOK(b, f)'
    BY <2>0, ZenonT(60) DEF Runs, RunOK
  <2>1. k \in 1..n /\ b = ctl[k] /\ f = stack[b.parent + 1]
    BY <1>4, <1>8
  <2>2. b.parent + 1 <= Len(stack) /\ RunOK(b, f)
    BY <2>1 DEF IInv, Runs
  <2>3. QED
    BY <2>2, SlotsKept
<1>11. Returned'
  BY <1>2, <1>4 DEF Returned, Top
<1>12. QED
  BY <1>1, <1>5, <1>7, <1>9, <1>10, <1>11 DEF IInv

(* The top activation returns its slot, verified, to its caller. *)
LEMMA TopReturns ==
  ASSUME IInv, ctl # <<>>, Top.pc # "client", NEW r \in Query, r = Top.cell,
         rev' = rev, ReturnSlot, TypeOK', InputSlots', QuerySlots',
         Verified(r)',
         \A c \in Cell : c # r => slots'[c] = slots[c],
         \A d \in Dep, q \in Query : SoundEdge(d, q) =>
            SoundEdge(d, q)' /\ (Unmoved(d) => Unmoved(d)'),
         Len(stack') = Top.parent, \A k \in 1..Top.parent : stack'[k] = stack[k]
  PROVE  IInv'
<1> DEFINE n == Len(ctl)
           m == n - 1
<1>1. TypeOK /\ n \in Nat /\ n > 1 /\ m \in Nat /\ m > 0 /\ ctl[n] = Top /\ n = m + 1
  BY TopFacts DEF IInv, CallChain, Top
<1>2. /\ ctl' \in Seq(Activation) /\ Len(ctl') = m /\ ctl' # <<>>
      /\ \A k \in 1..m : ctl'[k] = ctl[k]
  <2>1. ctl \in Seq(Activation) /\ ctl' = Pop(ctl)
    BY <1>1, TopFacts DEF ReturnSlot
  <2>2. ctl' \in Seq(Activation) /\ Len(ctl') = m /\ \A k \in 1..m : ctl'[k] = ctl[k]
    BY <2>1, PopFacts
  <2>3. QED
    BY <1>1, <2>2, EmptySeq
<1> HIDE DEF m
<1>3. 1..m \subseteq 1..n /\ n \in 1..n /\ \A k \in 1..m : k < n
  BY <1>1
<1> HIDE DEF n
<1>4. ASSUME NEW k \in 1..m, NEW b, b = ctl[k]
      PROVE  /\ b \in Activation /\ b.cell \in Query /\ b.cell \in Cell
             /\ b.parent \in Nat /\ b.i \in Nat
             /\ FramesOf(b) <= Top.parent
             /\ b.pc # "client" => b.cell # r /\ slots'[b.cell] = slots[b.cell]
  <2>1. b \in Activation /\ b.cell \in Query /\ b.cell \in Cell /\ Rank[b.cell] \in Nat
        /\ b.parent \in Nat /\ b.i \in Nat
    BY <1>1, <1>3, <1>4, TopFacts DEF n
  <2>2. FramesOf(b) <= Top.parent /\ (k > 1 => Rank[Top.cell] < Rank[b.cell])
    BY <1>1, <1>3, <1>4 DEF IInv, CallChain, n
  <2>3. b.pc # "client" => k > 1
    BY <1>1, <1>3, <1>4 DEF IInv, CallChain, n
  <2>4. b.pc # "client" => b.cell # r
    BY <2>1, <2>2, <2>3
  <2>5. QED
    BY <2>1, <2>2, <2>4
<1>5. ASSUME NEW k \in 1..m, NEW b, b = ctl[k], NEW c, Awaits(b, c)
      PROVE  Awaits(b, c)'
  BY <1>4, <1>5 DEF Awaits
<1>6. CallChain'
  <2>1. \A k \in 1..m : (k = 1) <=> (ctl'[k].pc = "client")
    BY <1>2, <1>3 DEF IInv, CallChain, n
  <2>2. ASSUME NEW k \in 1..(m - 1)
        PROVE  /\ Awaits(ctl[k], ctl[k + 1].cell)'
               /\ ctl'[k + 1].parent = FramesOf(ctl'[k])
    <3>1. k \in 1..m /\ k + 1 \in 1..m /\ k \in 1..(n - 1)
      BY <1>1
    <3>2. Awaits(ctl[k], ctl[k + 1].cell) /\ ctl[k + 1].parent = FramesOf(ctl[k])
      BY <3>1 DEF IInv, CallChain, n
    <3>3. ctl'[k] = ctl[k] /\ ctl'[k + 1] = ctl[k + 1]
      BY <1>2, <3>1
    <3>4. ASSUME NEW b, b = ctl[k], NEW c, c = ctl[k + 1].cell
          PROVE  Awaits(b, c)'
      BY <1>5, <3>1, <3>2, <3>4
    <3>5. Awaits(ctl[k], ctl[k + 1].cell)'
      BY <3>3, <3>4 DEF Awaits
    <3>6. QED
      BY <3>2, <3>3, <3>5
  <2>3. ASSUME NEW j \in 1..m, NEW k \in 1..m, j < k
        PROVE  /\ FramesOf(ctl'[j]) <= ctl'[k].parent
               /\ 1 < j => Rank[ctl'[k].cell] < Rank[ctl'[j].cell]
    BY <1>2, <1>3, <2>3 DEF IInv, CallChain, n
  <2>4. Len(stack') = FramesOf(Top)'
    <3>1. m \in 1..m /\ m \in 1..(n - 1)
      BY <1>1
    <3>2. Top.parent = FramesOf(ctl[m])
      BY <1>1, <3>1 DEF IInv, CallChain, n
    <3>3. Top' = ctl[m]
      BY <1>2, <3>1 DEF Top
    <3>4. QED
      BY <3>2, <3>3 DEF FramesOf
  <2>5. QED
    BY <1>2, <2>1, <2>2, <2>3, <2>4 DEF CallChain, FramesOf
<1>7. Walks'
  <2> SUFFICES ASSUME NEW k \in 1..m, NEW b, b = ctl'[k], b.pc = "walk"
               PROVE  WalkOK(b)'
    BY <1>2, ZenonT(60) DEF Walks, WalkOK
  <2>1. b = ctl[k] /\ b.cell \in Query /\ b.cell \in Cell /\ slots'[b.cell] = slots[b.cell]
        /\ b.i \in Nat
    BY <1>2, <1>4
  <2>2. WalkOK(b)
    BY <1>3, <2>1 DEF IInv, Walks, n
  <2>3. ASSUME NEW j \in 1..(b.i - 1), NEW d, d = slots[b.cell].deps[j]
        PROVE  Unmoved(d)'
    <3>1. slots[b.cell] # NoSlot /\ Unmoved(d)
      BY <2>2, <2>3 DEF WalkOK
    <3>2. Len(slots[b.cell].deps) \in Nat
      BY <1>1, <2>1, <3>1, SlotFacts
    <3>3. j \in 1..Len(slots[b.cell].deps)
      BY <2>1, <2>2, <3>2 DEF WalkOK
    <3>4. d \in Dep /\ SoundEdge(d, b.cell)
      BY <1>1, <2>1, <2>3, <3>1, <3>3, SlotFacts DEF IInv, QuerySlots
    <3>5. QED
      BY <2>1, <3>1, <3>4
  <2>4. QED
    BY <2>1, <2>2, <2>3 DEF WalkOK, Unmoved
<1>8. Runs'
  <2> SUFFICES ASSUME NEW k \in 1..m, NEW b, b = ctl'[k], b.pc = "run",
                      NEW f, f = stack'[b.parent + 1]
               PROVE  b.parent + 1 <= Len(stack') /\ RunOK(b, f)'
    BY <1>2, ZenonT(60) DEF Runs, RunOK
  <2>1. /\ b = ctl[k] /\ b.cell \in Query /\ b.parent \in Nat
        /\ b.parent + 1 <= Top.parent
        /\ slots'[b.cell] = slots[b.cell]
    BY <1>2, <1>4 DEF FramesOf
  <2>2. f = stack[b.parent + 1] /\ b.parent + 1 <= Len(stack) /\ RunOK(b, f)
    <3>1. b.parent + 1 \in 1..Top.parent
      BY <1>1, <2>1, TopFacts
    <3>2. f = stack[b.parent + 1]
      BY <3>1
    <3>3. QED
      BY <1>3, <2>1, <3>2 DEF IInv, Runs, n
  <2>3. f \in Frame /\ f.deps \in Seq(Dep)
    <3>1. stack \in Seq(Frame) /\ Len(stack) \in Nat
      BY <1>1, LenProperties DEF TypeOK
    <3>2. b.parent + 1 \in 1..Len(stack)
      BY <2>1, <2>2, <3>1
    <3>3. f \in Frame
      BY <2>2, <3>1, <3>2, ElementOfSeq
    <3>4. QED
      BY <3>3 DEF Frame
  <2>4. ASSUME NEW j \in 1..Len(f.deps), NEW d, d = f.deps[j]
        PROVE  SoundEdge(d, b.cell)' /\ Unmoved(d)'
    <3>1. d \in Dep
      BY <2>3, <2>4, ElementOfSeq
    <3>2. SoundEdge(d, b.cell) /\ Unmoved(d)
      BY <2>2, <2>4 DEF RunOK
    <3>3. QED
      BY <2>1, <3>1, <3>2
  <2>5. ~Verified(b.cell)'
    BY <2>1, <2>2 DEF RunOK, Verified
  <2>6. QED
    BY <2>1, <2>2, <2>4, <2>5 DEF RunOK
<1>9. Returned'
  <2>1. ret' = r /\ m \in 1..m /\ m \in 1..(n - 1) /\ Top' = ctl[m]
    BY <1>1, <1>2 DEF ReturnSlot, Top
  <2>2. Awaits(ctl[m], r)
    BY <1>1, <2>1 DEF IInv, CallChain, n
  <2>3. ASSUME NEW b, b = ctl[m] PROVE Awaits(b, r)'
    BY <1>5, <2>1, <2>2, <2>3
  <2>4. Awaits(Top, ret)'
    BY <2>1, <2>3 DEF Awaits
  <2>5. Verified(ret)'
    BY <2>1 DEF Verified
  <2>6. ret' # None
    BY <2>1, EngineAssumption
  <2>7. QED
    BY <1>2, <2>4, <2>5, <2>6 DEF Returned
<1>10. QED
  BY <1>6, <1>7, <1>8, <1>9 DEF IInv

-----------------------------------------------------------------------------
(* One lemma per action *)

(* Input.Set. *)
LEMMA SetPreserves ==
  ASSUME NEW i \in Input, NEW v \in Val PROVE IInv /\ Set(i, v) => IInv'
<1> SUFFICES ASSUME IInv, Set(i, v) PROVE IInv'
  OBVIOUS
<1> DEFINE s == [value |-> v, computedAt |-> rev + 1, verifiedAt |-> rev + 1, deps |-> <<>>]
<1>1. s \in Slot /\ s.computedAt = rev + 1 /\ s.verifiedAt = rev + 1 /\ s.deps = <<>>
  BY EmptySeq DEF Slot, IInv, TypeOK
<1>2. ctl = <<>> /\ rev' = rev + 1 /\ slots' = [slots EXCEPT ![i] = s]
      /\ UNCHANGED <<stack, ctl, ret>>
  BY DEF Set, Idle
<1> HIDE DEF s
<1>3. QED
  BY <1>1, <1>2, InputChanges

(* Input.Clear. *)
LEMMA ClearPreserves ==
  ASSUME NEW i \in Input PROVE IInv /\ Clear(i) => IInv'
<1> SUFFICES ASSUME IInv, Clear(i) PROVE IInv'
  OBVIOUS
<1>1. ctl = <<>> /\ rev' = rev + 1 /\ slots' = [slots EXCEPT ![i] = NoSlot]
      /\ UNCHANGED <<stack, ctl, ret>>
  BY DEF Clear, Idle
<1>2. QED
  BY <1>1, InputChanges

(* Query.Get up to validateOrRunLocked, or its CycleError. *)
LEMMA GetPreserves ==
  ASSUME NEW q \in Query PROVE IInv /\ Get(q) => IInv'
<1> SUFFICES ASSUME IInv, Get(q) PROVE IInv'
  OBVIOUS
<1>1. CASE OnStack(q)
  BY <1>1, PanicPreserves DEF Get
<1>2. CASE ~OnStack(q)
  <2> DEFINE a == Activate("client", q, Len(stack))
             b == Activate("validate", q, Len(stack))
  <2>1. /\ TypeOK /\ ctl = <<>> /\ ret = None /\ ctl' = <<a, b>>
        /\ UNCHANGED <<rev, slots, stack, ret>>
    BY <1>2 DEF Get, Idle, IInv, Returned
  <2>2. InputSlots' /\ QuerySlots'
    BY <2>1, SlotsKept DEF IInv
  <2>3. /\ a \in Activation /\ a.pc = "client" /\ a.cell = q /\ a.parent = Len(stack)
        /\ b \in Activation /\ b.pc = "validate" /\ b.cell = q /\ b.parent = Len(stack)
        /\ Len(stack) \in Nat
    BY <2>1, EngineAssumption, LenProperties DEF Activate, Activation, TypeOK
  <2> HIDE DEF a, b
  <2>4. ctl' \in Seq(Activation) /\ Len(ctl') = 2 /\ ctl'[1] = a /\ ctl'[2] = b
    BY <2>1, <2>3
  <2>5. TypeOK'
    BY <2>1, <2>4 DEF TypeOK
  <2>6. CallChain'
    <3>1. Len(ctl') = 2 /\ Top' = b /\ ctl' # <<>>
      BY <2>4 DEF Top
    <3>2. \A k \in 1..2 : (k = 1) <=> (ctl'[k].pc = "client")
      BY <2>3, <2>4
    <3>3. Awaits(ctl[1], ctl[2].cell)'
      BY <2>3, <2>4 DEF Awaits
    <3>4. FramesOf(ctl'[1]) = Len(stack) /\ FramesOf(ctl'[2]) = Len(stack)
      BY <2>3, <2>4 DEF FramesOf
    <3>5. \A k \in 1..(2 - 1) : k = 1 /\ Awaits(ctl[k], ctl[k + 1].cell)'
                                 /\ ctl'[k + 1].parent = FramesOf(ctl'[k])
      BY <2>3, <2>4, <3>3, <3>4 DEF Awaits
    <3>6. \A j, k \in 1..2 : j < k => j = 1 /\ k = 2 /\ FramesOf(ctl'[j]) <= ctl'[k].parent
      BY <2>3, <2>4, <3>4
    <3>7. QED
      BY <2>1, <2>3, <2>4, <3>1, <3>2, <3>4, <3>5, <3>6 DEF CallChain, FramesOf
  <2>7. Walks' /\ Runs'
    BY <2>3, <2>4 DEF Walks, Runs
  <2>8. Returned'
    BY <2>1, <2>3, <2>4 DEF Returned, Top
  <2>9. QED
    BY <2>2, <2>5, <2>6, <2>7, <2>8 DEF IInv
<1>3. QED
  BY <1>1, <1>2

(* A body starts for a cell whose slot is missing or old. *)
LEMMA BodyStarts ==
  ASSUME IInv, ctl # <<>>, Top.pc \in {"validate", "walk"}, ~Verified(Top.cell),
         StartBody, UNCHANGED <<rev, slots>>, ret' = None
  PROVE  IInv'
<1> DEFINE a == [Top EXCEPT !.pc = "run", !.point = Entry[Top.cell]]
           f == [cell |-> Top.cell, deps |-> <<>>]
<1>1. TypeOK /\ Top \in Activation /\ Top.cell \in Query /\ Top.parent \in Nat
  BY TopFacts DEF IInv
<1>2. /\ a \in Activation /\ a.cell = Top.cell /\ a.parent = Top.parent
      /\ a.pc = "run" /\ a.point = Entry[Top.cell]
  BY <1>1, EngineAssumption DEF Activation
<1>3. f \in Frame /\ f.cell = Top.cell /\ f.deps = <<>>
  BY <1>1, EmptySeq DEF Frame
<1>4. ctl' = [ctl EXCEPT ![Len(ctl)] = a] /\ stack' = Append(stack, f)
  BY DEF StartBody, Top
<1> HIDE DEF a, f
<1>5. Len(stack) = Top.parent /\ stack \in Seq(Frame)
  BY <1>1 DEF IInv, CallChain, FramesOf, TypeOK
<1>6. /\ stack' \in Seq(Frame) /\ Len(stack') = Top.parent + 1
      /\ stack'[Top.parent + 1] = f
      /\ \A k \in 1..Top.parent : stack'[k] = stack[k]
  BY <1>3, <1>4, <1>5, AppendProperties
<1>7. Len(stack') = FramesOf(a)
  BY <1>2, <1>6 DEF FramesOf
<1>8. RunOK(a, f)
  <2>1. Owner[a.point] = a.cell
    BY <1>1, <1>2, AcyclicAssumption
  <2>2. Follows(a.cell, f.deps, a.point)
    BY <1>2, <1>3, EmptySeq DEF Follows
  <2>3. QED
    BY <1>2, <1>3, <2>1, <2>2 DEF RunOK
<1>9. RunOK(a, stack'[a.parent + 1])
  BY <1>2, <1>6, <1>8
<1>10. QED
  BY <1>2, <1>4, <1>6, <1>7, <1>9, TopMoves

(* A cell without a slot is run (validateOrRunLocked, cold). *)
LEMMA MissPreserves == IInv /\ Miss => IInv'
<1> SUFFICES ASSUME IInv, Miss PROVE IInv'
  OBVIOUS
<1>1. ctl # <<>> /\ Top.pc = "validate" /\ ~Verified(Top.cell) /\ StartBody
      /\ UNCHANGED <<rev, slots, ret>>
  BY DEF Miss, Validating, Verified
<1>2. ret = None
  BY <1>1 DEF IInv, Returned, Awaits
<1>3. QED
  BY <1>1, <1>2, BodyStarts

(* The walk has found a moved dep: the body is run again. *)
LEMMA WalkStalePreserves == IInv /\ WalkStale => IInv'
<1> SUFFICES ASSUME IInv, WalkStale PROVE IInv'
  OBVIOUS
<1>1. ctl # <<>> /\ Top.pc = "walk" /\ StartBody /\ UNCHANGED <<rev, slots>> /\ ret' = None
  BY DEF WalkStale, DepKnown, Walking
<1>2. ~Verified(Top.cell)
  BY <1>1, TopFacts DEF IInv, Walks, WalkOK, Verified, Top
<1>3. QED
  BY <1>1, <1>2, BodyStarts

(* The slot is verified at this revision and is returned as it is. *)
LEMMA HitPreserves == IInv /\ Hit => IInv'
<1> SUFFICES ASSUME IInv, Hit PROVE IInv'
  OBVIOUS
<1>1. ctl # <<>> /\ Top.pc = "validate" /\ ReturnSlot /\ UNCHANGED <<rev, slots, stack>>
      /\ slots[Top.cell] # NoSlot /\ slots[Top.cell].verifiedAt = rev
  BY DEF Hit, Validating
<1>2. /\ TypeOK /\ Top.cell \in Query /\ Top.parent \in Nat
      /\ ctl \in Seq(Activation)
  BY <1>1, TopFacts DEF IInv
<1>3. ctl' \in Seq(Activation) /\ ret' \in Query
  BY <1>1, <1>2, PopFacts DEF ReturnSlot
<1>4. TypeOK' /\ InputSlots' /\ QuerySlots'
  BY <1>1, <1>2, <1>3, SlotsKept DEF IInv, TypeOK
<1>5. Len(stack') = Top.parent
  BY <1>1 DEF IInv, CallChain, FramesOf
<1>6. ASSUME NEW r \in Query, r = Top.cell PROVE Verified(r)'
  BY <1>1, <1>6 DEF Verified
<1>7. \A d \in Dep, q \in Query : SoundEdge(d, q) =>
            SoundEdge(d, q)' /\ (Unmoved(d) => Unmoved(d)')
  BY <1>1, SlotsKept
<1>8. QED
  BY <1>1, <1>2, <1>4, <1>5, <1>6, <1>7, TopReturns

(* An old slot: its deps are walked from the first. *)
LEMMA StartWalkPreserves == IInv /\ StartWalk => IInv'
<1> SUFFICES ASSUME IInv, StartWalk PROVE IInv'
  OBVIOUS
<1> DEFINE a == [Top EXCEPT !.pc = "walk", !.i = 1]
<1>1. ctl # <<>> /\ Top.pc = "validate" /\ UNCHANGED <<rev, slots, stack, ret>>
      /\ slots[Top.cell] # NoSlot /\ slots[Top.cell].verifiedAt # rev
      /\ ctl' = [ctl EXCEPT ![Len(ctl)] = a]
  BY DEF StartWalk, Validating, Top
<1>2. ret = None /\ TypeOK
  BY <1>1 DEF IInv, Returned, Awaits
<1>3. Top \in Activation /\ Top.cell \in Cell /\ Top.parent \in Nat
  BY <1>1, <1>2, TopFacts
<1>4. a \in Activation /\ a.cell = Top.cell /\ a.parent = Top.parent /\ a.pc = "walk" /\ a.i = 1
  BY <1>3 DEF Activation
<1> HIDE DEF a
<1>5. Len(stack') = FramesOf(a) /\ stack' \in Seq(Frame)
  BY <1>1, <1>2, <1>4 DEF IInv, CallChain, FramesOf, TypeOK
<1>6. Len(slots[Top.cell].deps) \in Nat
  BY <1>1, <1>2, <1>3, SlotFacts
<1>7. WalkOK(a)
  BY <1>1, <1>4, <1>6 DEF WalkOK
<1>8. QED
  BY <1>1, <1>2, <1>4, <1>5, <1>7, TopMoves

(* The dep a walk has come to. *)
LEMMA WalkFacts ==
  ASSUME IInv, Walking, Top.i <= Len(WalkDeps)
  PROVE  /\ slots[Top.cell] # NoSlot
         /\ Top.i \in 1..Len(slots[Top.cell].deps)
         /\ WalkDep \in Dep
         /\ SoundEdge(WalkDep, Top.cell)
         /\ WalkOK(Top)
<1>1. TypeOK /\ ctl # <<>> /\ Top.cell \in Query /\ Top.cell \in Cell /\ Top.i \in Nat
  BY TopFacts DEF IInv, Walking
<1>2. WalkOK(Top)
  BY <1>1, TopFacts DEF IInv, Walks, Walking, Top
<1>3. slots[Top.cell] # NoSlot /\ Top.i \in 1..Len(slots[Top.cell].deps)
  BY <1>1, <1>2, SlotFacts DEF WalkOK, WalkDeps
<1>4. WalkDep \in Dep
  BY <1>1, <1>3, SlotFacts DEF WalkDep, WalkDeps
<1>5. SoundEdge(WalkDep, Top.cell)
  BY <1>1, <1>3 DEF IInv, QuerySlots, WalkDep, WalkDeps
<1>6. QED
  BY <1>2, <1>3, <1>4, <1>5

(* The walk validates a derived dep (validateDepLocked). *)
LEMMA WalkDescendPreserves == IInv /\ WalkDescend => IInv'
<1> SUFFICES ASSUME IInv, WalkDescend PROVE IInv'
  OBVIOUS
<1>1. Walking /\ Top.i <= Len(WalkDeps) /\ WalkDep.cell \in Query /\ ret = None
      /\ ctl' = Append(ctl, Activate("validate", WalkDep.cell, Len(stack)))
      /\ UNCHANGED <<rev, slots, stack, ret>> /\ ctl # <<>> /\ Top.pc = "walk"
  BY DEF WalkDescend, Walking
<1>2. WalkDep \in Dep /\ SoundEdge(WalkDep, Top.cell)
  BY <1>1, WalkFacts
<1>3. Awaits(Top, WalkDep.cell)
  BY <1>1 DEF Awaits, WalkDep, WalkDeps
<1>4. Rank[WalkDep.cell] < Rank[Top.cell]
  <2>1. WalkDep.at \in Point
    BY <1>2, EdgeFacts
  <2>2. Code[WalkDep.at].op = "fetch" /\ Code[WalkDep.at].cell = WalkDep.cell
        /\ Owner[WalkDep.at] = Top.cell
    BY <1>1, <1>2, <2>1, EngineAssumption DEF SoundEdge
  <2>3. QED
    BY <1>1, <2>1, <2>2, AcyclicAssumption
<1>5. QED
  BY <1>1, <1>3, <1>4, TopCalls

(* The walk passes over a dep that has not moved. *)
LEMMA WalkNextPreserves == IInv /\ WalkNext => IInv'
<1> SUFFICES ASSUME IInv, WalkNext PROVE IInv'
  OBVIOUS
<1> DEFINE a == [Top EXCEPT !.i = Top.i + 1]
<1>1. /\ Walking /\ ctl # <<>> /\ Top.pc = "walk" /\ Top.i <= Len(WalkDeps)
      /\ WalkDep.cell \in Input \/ ret # None
      /\ ~Changed(slots[WalkDep.cell], WalkDep)
      /\ ctl' = [ctl EXCEPT ![Len(ctl)] = a]
      /\ ret' = None /\ UNCHANGED <<rev, slots, stack>>
  <2>1. ctl' = [ctl EXCEPT ![Len(ctl)] = a]
    BY DEF WalkNext, Top
  <2>2. QED
    BY <2>1 DEF WalkNext, DepKnown, Walking
<1>2. TypeOK /\ Top \in Activation /\ Top.i \in Nat /\ Top.cell \in Cell /\ Top.parent \in Nat
  BY <1>1, TopFacts DEF IInv
<1>3. a \in Activation /\ a.cell = Top.cell /\ a.parent = Top.parent /\ a.pc = "walk"
      /\ a.i = Top.i + 1
  BY <1>1, <1>2 DEF Activation
<1> HIDE DEF a
<1>4. Len(stack') = FramesOf(a) /\ stack' \in Seq(Frame)
  BY <1>1, <1>2, <1>3 DEF IInv, CallChain, FramesOf, TypeOK
<1>5. Unmoved(WalkDep)
  <2>1. ret # None => ret = WalkDep.cell /\ Verified(ret)
    BY <1>1 DEF IInv, Returned, Awaits, WalkDep, WalkDeps
  <2>2. QED
    BY <1>1, <2>1, EngineAssumption DEF Unmoved
<1>6. WalkOK(a)
  <2>1. WalkOK(Top) /\ slots[Top.cell] # NoSlot /\ Top.i \in 1..Len(slots[Top.cell].deps)
    BY <1>1, WalkFacts
  <2>2. Len(slots[Top.cell].deps) \in Nat
    BY <1>2, <2>1, SlotFacts
  <2>3. a.i \in 1..(Len(slots[a.cell].deps) + 1)
    BY <1>2, <1>3, <2>1, <2>2
  <2>4. \A j \in 1..(a.i - 1) : Unmoved(slots[a.cell].deps[j])
    <3> TAKE j \in 1..(a.i - 1)
    <3>1. j \in 1..(Top.i - 1) \/ j = Top.i
      BY <1>2, <1>3
    <3>2. QED
      BY <1>3, <1>5, <2>1, <3>1 DEF WalkOK, WalkDep, WalkDeps
  <2>5. QED
    BY <1>3, <2>1, <2>3, <2>4 DEF WalkOK
<1>7. QED
  BY <1>1, <1>3, <1>4, <1>6, TopMoves

(* The slot of r becomes s, verified at this revision. *)
LEMMA QueryStored ==
  ASSUME IInv, NEW r \in Query, ~Verified(r), NEW s \in Slot,
         rev' = rev, slots' = [slots EXCEPT ![r] = s],
         s.verifiedAt = rev, s.computedAt <= rev,
         slots[r] # NoSlot => \/ /\ s.computedAt = slots[r].computedAt
                                 /\ Same(r, s.value, slots[r].value)
                              \/ s.computedAt = rev /\ slots[r].computedAt < rev,
         Explains(r, s.deps, s.value),
         \A k \in 1..Len(s.deps) : SoundEdge(s.deps[k], r) /\ Unmoved(s.deps[k])
  PROVE  /\ slots' \in [Cell -> Slot \cup {NoSlot}]
         /\ InputSlots' /\ QuerySlots' /\ Verified(r)'
         /\ \A c \in Cell : c # r => slots'[c] = slots[c]
         /\ \A d \in Dep, q \in Query : SoundEdge(d, q) =>
               SoundEdge(d, q)' /\ (Unmoved(d) => Unmoved(d)')
<1>1. TypeOK /\ r \in Cell /\ rev \in Nat /\ slots \in [Cell -> Slot \cup {NoSlot}]
  BY DEF IInv, TypeOK, Cell
<1>2. slots' \in [Cell -> Slot \cup {NoSlot}]
  BY <1>1
<1>3. slots'[r] = s /\ s # NoSlot /\ \A c \in Cell : c # r => slots'[c] = slots[c]
  BY <1>1, NoSlotAssumption
<1>4. Verified(r)'
  BY <1>3 DEF Verified
<1>5. \A d \in Dep, q \in Query : SoundEdge(d, q) =>
               SoundEdge(d, q)' /\ (Unmoved(d) => Unmoved(d)')
  BY <1>1, EdgeAfterQuery
<1>6. InputSlots'
  <2> SUFFICES ASSUME NEW j \in Input
               PROVE  slots'[j] = slots[j]
    BY DEF IInv, InputSlots
  <2>1. j \in Cell /\ j # r
    BY EngineAssumption DEF Cell
  <2>2. QED
    BY <1>3, <2>1
<1>7. QuerySlots'
  <2> SUFFICES ASSUME NEW q \in Query, NEW t, t = slots'[q], t # NoSlot
               PROVE  /\ t.computedAt <= t.verifiedAt
                      /\ t.verifiedAt <= rev
                      /\ Explains(q, t.deps, t.value)
                      /\ \A k \in 1..Len(t.deps) :
                           /\ SoundEdge(t.deps[k], q)'
                           /\ t.deps[k].changedAt <= t.verifiedAt
                           /\ t.verifiedAt = rev => Unmoved(t.deps[k])'
    BY DEF QuerySlots, SoundEdge, Unmoved
  <2>1. CASE q = r
    <3>1. t = s
      BY <1>3, <2>1
    <3>2. \A k \in 1..Len(s.deps) : s.deps[k] \in Dep
      BY ElementOfSeq DEF Slot
    <3>3. \A k \in 1..Len(s.deps) : SoundEdge(s.deps[k], r)' /\ Unmoved(s.deps[k])'
      BY <1>5, <3>2
    <3>4. \A k \in 1..Len(s.deps) : s.deps[k].changedAt <= rev
      BY DEF SoundEdge
    <3>5. s.verifiedAt <= rev
      BY <1>1
    <3>6. QED
      BY <2>1, <3>1, <3>3, <3>4, <3>5
  <2>2. CASE q # r
    <3>1. t = slots[q] /\ q \in Cell
      BY <1>3, <2>2 DEF Cell
    <3>2. \A k \in 1..Len(t.deps) : t.deps[k] \in Dep
      BY <1>1, <3>1, SlotFacts
    <3>3. /\ t.computedAt <= t.verifiedAt
          /\ t.verifiedAt <= rev
          /\ Explains(q, t.deps, t.value)
          /\ \A k \in 1..Len(t.deps) :
               /\ SoundEdge(t.deps[k], q)
               /\ t.deps[k].changedAt <= t.verifiedAt
               /\ t.verifiedAt = rev => Unmoved(t.deps[k])
      BY <3>1 DEF IInv, QuerySlots
    <3>4. QED
      BY <1>5, <3>2, <3>3
  <2>3. QED
    BY <2>1, <2>2
<1>8. QED
  BY <1>2, <1>3, <1>4, <1>5, <1>6, <1>7

(* No dep has moved: the slot is stamped as verified now. *)
LEMMA WalkDonePreserves == IInv /\ WalkDone => IInv'
<1> SUFFICES ASSUME IInv, WalkDone PROVE IInv'
  OBVIOUS
<1>1. /\ Walking /\ ctl # <<>> /\ Top.pc = "walk" /\ Top.i > Len(WalkDeps)
      /\ ReturnSlot /\ UNCHANGED <<rev, stack>>
  BY DEF WalkDone, Walking
<1>2. /\ TypeOK /\ Top.cell \in Query /\ Top.cell \in Cell /\ Top.i \in Nat
      /\ Top.parent \in Nat /\ ctl \in Seq(Activation)
  BY <1>1, TopFacts DEF IInv
<1>3. PICK r \in Query : r = Top.cell
  BY <1>2
<1>4. PICK s : s = [slots[r] EXCEPT !.verifiedAt = rev]
  OBVIOUS
<1>5. WalkOK(Top) /\ slots[r] # NoSlot /\ slots[r].verifiedAt # rev
  BY <1>1, <1>3, TopFacts, <1>2 DEF IInv, Walks, WalkOK, Top
<1>6. /\ slots[r] \in Slot /\ slots[r].deps \in Seq(Dep) /\ Len(slots[r].deps) \in Nat
      /\ slots[r].computedAt \in Nat /\ slots[r].verifiedAt \in Nat /\ rev \in Nat
  BY <1>2, <1>3, <1>5, SlotFacts DEF TypeOK
<1>7. /\ s \in Slot /\ s.value = slots[r].value /\ s.computedAt = slots[r].computedAt
      /\ s.deps = slots[r].deps /\ s.verifiedAt = rev
  BY <1>4, <1>6 DEF Slot
<1>8. slots' = [slots EXCEPT ![r] = s]
  BY <1>3, <1>4 DEF WalkDone
<1>9. s.computedAt <= rev /\ Explains(r, s.deps, s.value)
      /\ \A k \in 1..Len(s.deps) : SoundEdge(s.deps[k], r) /\ Unmoved(s.deps[k])
  <2>1. /\ slots[r].computedAt <= slots[r].verifiedAt /\ slots[r].verifiedAt <= rev
        /\ Explains(r, slots[r].deps, slots[r].value)
        /\ \A k \in 1..Len(slots[r].deps) : SoundEdge(slots[r].deps[k], r)
    BY <1>5 DEF IInv, QuerySlots
  <2>2. \A k \in 1..Len(slots[r].deps) : k \in 1..(Top.i - 1)
    BY <1>1, <1>2, <1>3, <1>6 DEF WalkDeps
  <2>3. \A k \in 1..Len(slots[r].deps) : Unmoved(slots[r].deps[k])
    BY <1>3, <1>5, <2>2 DEF WalkOK
  <2>4. QED
    BY <1>6, <1>7, <2>1, <2>3
<1>10. ~Verified(r) /\ Same(r, s.value, slots[r].value)
  BY <1>5, <1>7 DEF Verified, Same
<1>11. /\ slots' \in [Cell -> Slot \cup {NoSlot}]
       /\ InputSlots' /\ QuerySlots' /\ Verified(r)'
       /\ \A c \in Cell : c # r => slots'[c] = slots[c]
       /\ \A d \in Dep, q \in Query : SoundEdge(d, q) =>
            SoundEdge(d, q)' /\ (Unmoved(d) => Unmoved(d)')
  BY <1>1, <1>7, <1>8, <1>9, <1>10, QueryStored
<1>12. TypeOK'
  <2>1. ctl' \in Seq(Activation) /\ ret' \in Query
    BY <1>1, <1>2, PopFacts DEF ReturnSlot
  <2>2. QED
    BY <1>1, <1>2, <1>11, <2>1 DEF TypeOK
<1>13. Len(stack') = Top.parent /\ \A k \in 1..Top.parent : stack'[k] = stack[k]
  BY <1>1 DEF IInv, CallChain, FramesOf
<1>14. QED
  BY <1>1, <1>3, <1>11, <1>12, <1>13, TopReturns

-----------------------------------------------------------------------------
(* The body *)

(* The body on top of the call stack, its frame and its point. *)
LEMMA RunFacts ==
  ASSUME IInv, Running
  PROVE  /\ TypeOK /\ ctl # <<>> /\ Top.pc = "run"
         /\ Top \in Activation /\ Top.cell \in Query /\ Top.cell \in Cell
         /\ Top.point \in Point /\ Top.parent \in Nat
         /\ Len(stack) = Top.parent + 1
         /\ Len(stack) \in 1..Len(stack)
         /\ stack[Len(stack)] \in Frame
         /\ stack[Len(stack)].deps \in Seq(Dep)
         /\ RunOK(Top, stack[Len(stack)])
         /\ Now \in Instr
         /\ Now.cell \in Cell
<1>1. TypeOK /\ ctl # <<>> /\ Top.pc = "run"
  BY DEF IInv, Running
<1>2. Top \in Activation /\ Top.cell \in Query /\ Top.cell \in Cell
      /\ Top.point \in Point /\ Top.parent \in Nat
  BY <1>1, TopFacts
<1>3. Len(stack) = Top.parent + 1
  BY <1>1 DEF IInv, CallChain, FramesOf
<1>4. RunOK(Top, stack[Len(stack)])
  BY <1>1, <1>3, TopFacts DEF IInv, Runs, Top
<1>5. stack[Len(stack)] \in Frame /\ Len(stack) \in 1..Len(stack)
  BY <1>1, <1>2, <1>3, ElementOfSeq DEF TypeOK
<1>6. stack[Len(stack)].deps \in Seq(Dep)
  BY <1>5 DEF Frame
<1>7. Now \in Instr /\ Now.cell \in Cell
  BY <1>2, EngineAssumption DEF Now, Instr
<1>8. QED
  BY <1>1, <1>2, <1>3, <1>4, <1>5, <1>6, <1>7

(* A run that has come to p and is answered v there has come to Jump(p, v). *)
LEMMA FollowsAppend ==
  ASSUME NEW q, NEW p, NEW deps \in Seq(Dep), NEW e \in Dep, Follows(q, deps, p),
         e.at = p, Code[p].op \in {"fetch", "has"}, Code[p].cell = e.cell
  PROVE  Follows(q, Append(deps, e), Jump(p, e.seen))
<1> DEFINE n == Len(deps)
           t == Append(deps, e)
<1>1. n \in Nat /\ t # <<>> /\ Len(t) = n + 1 /\ t[n + 1] = e
      /\ \A k \in 1..n : t[k] = deps[k]
  BY LenProperties, AppendProperties
<1> HIDE DEF n, t
<1>2. t[1].at = Entry[q]
  <2>1. CASE n = 0
    <3>1. deps = <<>>
      BY <2>1, EmptySeq DEF n
    <3>2. QED
      BY <1>1, <2>1, <3>1 DEF Follows
  <2>2. CASE n # 0
    <3>1. deps # <<>>
      BY <2>2, EmptySeq DEF n
    <3>2. t[1] = deps[1]
      BY <1>1, <2>2
    <3>3. QED
      BY <3>1, <3>2 DEF Follows
  <2>3. QED
    BY <2>1, <2>2
<1>3. ASSUME NEW k \in 1..Len(t)
      PROVE  /\ Code[t[k].at].op \in {"fetch", "has"}
             /\ Code[t[k].at].cell = t[k].cell
             /\ k < Len(t) => t[k + 1].at = Jump(t[k].at, t[k].seen)
  <2>1. CASE k = n + 1
    BY <1>1, <2>1
  <2>2. CASE k # n + 1
    <3>1. k \in 1..n /\ t[k] = deps[k]
      BY <1>1, <2>2
    <3>2. deps # <<>>
      BY <1>1, <3>1, EmptySeq DEF n
    <3>3. CASE k = n
      BY <1>1, <3>1, <3>2, <3>3 DEF Follows, n
    <3>4. CASE k # n
      <4>1. k < n /\ k + 1 \in 1..n /\ t[k + 1] = deps[k + 1]
        BY <1>1, <3>1, <3>4
      <4>2. QED
        BY <3>1, <4>1 DEF Follows, n
    <3>5. QED
      BY <3>3, <3>4
  <2>3. QED
    BY <2>1, <2>2
<1>4. Follows(q, t, Jump(p, e.seen))
  BY <1>1, <1>2, <1>3 DEF Follows
<1>5. QED
  BY <1>4 DEF t

(* The read at the body's point is answered by v. *)
LEMMA AnsweredPreserves ==
  ASSUME IInv, Running, Now.op \in {"fetch", "has"}, NEW v \in Seen, Answered(v),
         SoundEdge(Edge(Now.cell, Top.point, v), Top.cell),
         Unmoved(Edge(Now.cell, Top.point, v))
  PROVE  IInv'
<1> DEFINE a == [Top EXCEPT !.point = Jump(Top.point, v)]
           e == Edge(Now.cell, Top.point, v)
           n == Len(stack)
<1>1. ctl' = [ctl EXCEPT ![Len(ctl)] = a] /\ ret' = None /\ UNCHANGED <<rev, slots>>
      /\ stack' = Recorded(n, Now.cell, Top.point, v)
  BY DEF Answered, Top
<1>2. Jump(Top.point, v) \in Point /\ Owner[Jump(Top.point, v)] = Owner[Top.point]
  BY RunFacts, EngineAssumption, AcyclicAssumption DEF Now
<1>3. /\ a \in Activation /\ a.cell = Top.cell /\ a.parent = Top.parent /\ a.pc = "run"
      /\ a.point = Jump(Top.point, v)
  BY <1>2, RunFacts DEF Activation
<1>4. /\ e \in Dep
      /\ stack' \in Seq(Frame) /\ Len(stack') = n
      /\ stack[n].deps \in Seq(Dep)
      /\ stack'[n].cell = stack[n].cell
      /\ stack'[n].deps = Append(stack[n].deps, e)
      /\ \A k \in 1..n : k # n => stack'[k] = stack[k]
  BY <1>1, RunFacts, RecordedFacts
<1>5. e.cell = Now.cell /\ e.at = Top.point /\ e.seen = v
  BY DEF Edge
<1> HIDE DEF a, e
<1>6. n = Top.parent + 1 /\ Top.parent \in Nat /\ RunOK(Top, stack[n]) /\ Top.pc = "run"
      /\ ctl # <<>>
  BY RunFacts
<1>7. Follows(a.cell, stack'[n].deps, a.point)
  <2>1. Follows(Top.cell, stack[n].deps, Top.point)
    BY <1>6 DEF RunOK
  <2>2. QED
    BY <1>3, <1>4, <1>5, <2>1, FollowsAppend DEF Now
<1>8. \A j \in 1..Len(stack'[n].deps) :
        SoundEdge(stack'[n].deps[j], a.cell) /\ Unmoved(stack'[n].deps[j])
  <2> DEFINE l == Len(stack[n].deps)
  <2>1. /\ l \in Nat /\ Len(stack'[n].deps) = l + 1 /\ stack'[n].deps[l + 1] = e
        /\ \A j \in 1..l : stack'[n].deps[j] = stack[n].deps[j]
    BY <1>4, AppendProperties, LenProperties
  <2> HIDE DEF l
  <2> TAKE j \in 1..Len(stack'[n].deps)
  <2>2. j \in 1..l \/ j = l + 1
    BY <2>1
  <2>3. CASE j = l + 1
    BY <1>3, <2>1, <2>3 DEF e
  <2>4. CASE j \in 1..l
    BY <1>3, <1>6, <2>1, <2>4 DEF RunOK, l
  <2>5. QED
    BY <2>2, <2>3, <2>4
<1>9. RunOK(a, stack'[n])
  BY <1>2, <1>3, <1>4, <1>6, <1>7, <1>8 DEF RunOK
<1>10. Len(stack') = FramesOf(a)
  BY <1>3, <1>4, <1>6 DEF FramesOf
<1>11. \A k \in 1..Top.parent : stack'[k] = stack[k]
  BY <1>4, <1>6
<1>12. RunOK(a, stack'[a.parent + 1])
  BY <1>3, <1>6, <1>9
<1>13. QED
  BY <1>1, <1>3, <1>4, <1>6, <1>10, <1>11, <1>12, TopMoves

(* The edge of a read made now is sound and has not moved. *)
LEMMA FreshEdge ==
  ASSUME IInv, Running, NEW v \in Seen, Now.op \in {"fetch", "has"},
         Now.op = "has" => v = (IF slots[Now.cell] = NoSlot THEN Absent ELSE Present),
         Now.op = "fetch" => slots[Now.cell] # NoSlot /\ v = slots[Now.cell].value,
         Now.cell \in Query => Verified(Now.cell)
  PROVE  SoundEdge(Edge(Now.cell, Top.point, v), Top.cell)
         /\ Unmoved(Edge(Now.cell, Top.point, v))
<1> DEFINE e == Edge(Now.cell, Top.point, v)
<1>1. /\ TypeOK /\ Now.cell \in Cell /\ Top.point \in Point /\ Owner[Top.point] = Top.cell
      /\ rev \in Nat
  BY RunFacts DEF RunOK, TypeOK
<1>2. /\ e.cell = Now.cell /\ e.at = Top.point /\ e.seen = v
      /\ e.changedAt = IF slots[Now.cell] = NoSlot THEN 0 ELSE slots[Now.cell].computedAt
  BY DEF Edge, ChangedAt
<1> HIDE DEF e
<1>3. Code[e.at] = Now
  BY <1>2 DEF Now
<1>4. slots[Now.cell] # NoSlot => /\ slots[Now.cell].computedAt \in Nat
                                  /\ slots[Now.cell].verifiedAt \in Nat
                                  /\ slots[Now.cell].computedAt <= slots[Now.cell].verifiedAt
                                  /\ slots[Now.cell].verifiedAt <= rev
                                  /\ Now.cell \in Input => 0 < slots[Now.cell].computedAt
  <2>1. slots[Now.cell] # NoSlot => /\ slots[Now.cell].computedAt \in Nat
                                    /\ slots[Now.cell].verifiedAt \in Nat
    BY <1>1, SlotFacts
  <2>2. CASE Now.cell \in Input
    BY <2>1, <2>2 DEF IInv, InputSlots
  <2>3. CASE Now.cell \in Query
    BY <2>1, <2>3, EngineAssumption DEF IInv, QuerySlots
  <2>4. QED
    BY <1>1, <2>2, <2>3 DEF Cell
<1>5. ~Changed(slots[e.cell], e)
  BY <1>2, <1>4 DEF Changed
<1>6. Current(e)
  BY <1>2, <1>3 DEF Current, Same
<1>7. Unmoved(e)
  BY <1>2, <1>5 DEF Unmoved
<1>8. e.changedAt <= rev
  BY <1>1, <1>2, <1>4
<1>9. e.cell \in Query => slots[e.cell] # NoSlot /\ e.changedAt <= slots[e.cell].computedAt
  BY <1>2, <1>4 DEF Verified
<1>10. (e.cell \in Input /\ e.changedAt = 0) => Code[e.at].op = "has" /\ e.seen = Absent
  BY <1>2, <1>3, <1>4
<1>11. Code[e.at].op = "fetch" => e.seen \in Val
  BY <1>1, <1>2, <1>3, SlotFacts
<1>12. SoundEdge(e, Top.cell)
  BY <1>1, <1>2, <1>3, <1>6, <1>8, <1>9, <1>10, <1>11 DEF SoundEdge
<1>13. QED
  BY <1>7, <1>12 DEF e

(* A body reads an input that is set (Input.Fetch). *)
LEMMA FetchInputPreserves == IInv /\ FetchInput => IInv'
<1> SUFFICES ASSUME IInv, FetchInput PROVE IInv'
  OBVIOUS
<1>1. Running /\ Now.op = "fetch" /\ Now.cell \in Input /\ slots[Now.cell] # NoSlot
      /\ Answered(slots[Now.cell].value)
  BY DEF FetchInput
<1>2. PICK v : v = slots[Now.cell].value
  OBVIOUS
<1>3. v \in Seen /\ Answered(v)
  BY <1>1, <1>2, RunFacts, SlotFacts DEF Seen
<1>4. QED
  BY <1>1, <1>2, <1>3, FreshEdge, AnsweredPreserves, EngineAssumption

(* A body asks whether an input is set (Input.HasFetch). *)
LEMMA HasFetchPreserves == IInv /\ HasFetch => IInv'
<1> SUFFICES ASSUME IInv, HasFetch PROVE IInv'
  OBVIOUS
<1>1. PICK v : v = IF slots[Now.cell] = NoSlot THEN Absent ELSE Present
  OBVIOUS
<1>2. Running /\ Now.op = "has" /\ Answered(v) /\ v \in Seen
  BY <1>1 DEF HasFetch, Seen
<1>3. Now.cell \in Input
  BY <1>2, RunFacts, EngineAssumption DEF Now
<1>4. QED
  BY <1>1, <1>2, <1>3, FreshEdge, AnsweredPreserves, EngineAssumption

(* A query read by a body returns its slot to the body. *)
LEMMA FetchReturnPreserves == IInv /\ FetchReturn => IInv'
<1> SUFFICES ASSUME IInv, FetchReturn PROVE IInv'
  OBVIOUS
<1>1. Running /\ Now.op = "fetch" /\ Now.cell \in Query /\ ret # None
      /\ Answered(slots[Now.cell].value)
  BY DEF FetchReturn
<1>2. Verified(Now.cell) /\ slots[Now.cell] # NoSlot
  BY <1>1, RunFacts DEF IInv, Returned, Awaits, Now, Verified
<1>3. PICK v : v = slots[Now.cell].value
  OBVIOUS
<1>4. v \in Seen /\ Answered(v)
  BY <1>1, <1>2, <1>3, RunFacts, SlotFacts DEF Seen
<1>5. QED
  BY <1>1, <1>2, <1>3, <1>4, FreshEdge, AnsweredPreserves

(* A body reads a query: the call, or its CycleError. *)
LEMMA FetchQueryPreserves == IInv /\ FetchQuery => IInv'
<1> SUFFICES ASSUME IInv, FetchQuery PROVE IInv'
  OBVIOUS
<1>1. CASE OnStack(Now.cell)
  BY <1>1, PanicPreserves DEF FetchQuery
<1>2. CASE ~OnStack(Now.cell)
  <2>1. /\ Running /\ Now.op = "fetch" /\ Now.cell \in Query /\ ret = None
        /\ ctl' = Append(ctl, Activate("validate", Now.cell, Len(stack)))
        /\ UNCHANGED <<rev, slots, stack, ret>>
    BY <1>2 DEF FetchQuery
  <2>2. ctl # <<>> /\ Top.pc = "run" /\ Top.point \in Point /\ Owner[Top.point] = Top.cell
    BY <2>1, RunFacts DEF RunOK
  <2>3. Awaits(Top, Now.cell)
    BY <2>1, <2>2 DEF Awaits, Now
  <2>4. Rank[Now.cell] < Rank[Top.cell]
    BY <2>1, <2>2, AcyclicAssumption DEF Now
  <2>5. QED
    BY <2>1, <2>2, <2>3, <2>4, TopCalls
<1>3. QED
  BY <1>1, <1>2

(* A body returns: its frame is popped and its slot stored. *)
LEMMA FinishBodyPreserves == IInv /\ FinishBody => IInv'
<1> SUFFICES ASSUME IInv, FinishBody PROVE IInv'
  OBVIOUS
<1> DEFINE f == stack[Len(stack)]
<1>1. Running /\ Now.op = "return" /\ stack' = Pop(stack) /\ ReturnSlot /\ rev' = rev
  BY DEF FinishBody
<1>2. /\ TypeOK /\ ctl # <<>> /\ Top.pc = "run" /\ ctl \in Seq(Activation)
      /\ Top.cell \in Query /\ Top.cell \in Cell /\ Top.point \in Point
      /\ Top.parent \in Nat /\ Len(stack) = Top.parent + 1
      /\ f.deps \in Seq(Dep) /\ RunOK(Top, f)
  BY <1>1, RunFacts, TopFacts
<1>3. PICK r \in Query : r = Top.cell
  BY <1>2
<1>4. PICK v \in Val : v = Now.val
  BY <1>1, RunFacts DEF Instr
<1>5. PICK s : s = [value |-> v, computedAt |-> StampOf(r, v),
                    verifiedAt |-> rev, deps |-> f.deps]
  OBVIOUS
<1>6. slots' = [slots EXCEPT ![r] = s]
  BY <1>2, <1>3, <1>4, <1>5 DEF FinishBody
<1>7. rev \in Nat /\ r \in Cell /\ ~Verified(r)
  BY <1>2, <1>3 DEF TypeOK, RunOK
<1>8. slots[r] # NoSlot => /\ slots[r].computedAt \in Nat /\ slots[r].verifiedAt \in Nat
                           /\ slots[r].computedAt <= slots[r].verifiedAt
                           /\ slots[r].verifiedAt <= rev
                           /\ slots[r].verifiedAt # rev
                           /\ slots[r].computedAt < rev
  <2>1. slots[r] # NoSlot => /\ slots[r].computedAt \in Nat /\ slots[r].verifiedAt \in Nat
    BY <1>2, <1>7, SlotFacts
  <2>2. QED
    BY <1>7, <2>1 DEF IInv, QuerySlots, Verified
<1>9. StampOf(r, v) \in Nat /\ StampOf(r, v) <= rev
      /\ (slots[r] # NoSlot =>
             \/ StampOf(r, v) = slots[r].computedAt /\ Same(r, v, slots[r].value)
             \/ StampOf(r, v) = rev /\ slots[r].computedAt < rev)
  BY <1>7, <1>8 DEF StampOf
<1>10. /\ s \in Slot /\ s.value = v /\ s.computedAt = StampOf(r, v)
       /\ s.verifiedAt = rev /\ s.deps = f.deps
  BY <1>2, <1>5, <1>7, <1>9 DEF Slot
<1>11. Explains(r, s.deps, s.value)
  <2>1. Follows(r, f.deps, Top.point)
    BY <1>2, <1>3 DEF RunOK
  <2>2. Code[Top.point].op = "return" /\ Code[Top.point].val = v
    BY <1>1, <1>4 DEF Now
  <2>3. QED
    BY <1>2, <1>10, <2>1, <2>2 DEF Explains
<1>12. \A k \in 1..Len(s.deps) : SoundEdge(s.deps[k], r) /\ Unmoved(s.deps[k])
  BY <1>2, <1>3, <1>10 DEF RunOK
<1>13. /\ slots' \in [Cell -> Slot \cup {NoSlot}]
       /\ InputSlots' /\ QuerySlots' /\ Verified(r)'
       /\ \A c \in Cell : c # r => slots'[c] = slots[c]
       /\ \A d \in Dep, q \in Query : SoundEdge(d, q) =>
            SoundEdge(d, q)' /\ (Unmoved(d) => Unmoved(d)')
  BY <1>1, <1>6, <1>7, <1>9, <1>10, <1>11, <1>12, QueryStored
<1>14. /\ stack' \in Seq(Frame) /\ Len(stack') = Top.parent
       /\ \A k \in 1..Top.parent : stack'[k] = stack[k]
  <2>1. stack \in Seq(Frame) /\ stack # <<>> /\ Len(stack) - 1 = Top.parent
    BY <1>2, EmptySeq DEF TypeOK
  <2>2. QED
    BY <1>1, <2>1, PopFacts
<1>15. TypeOK'
  <2>1. ctl' \in Seq(Activation) /\ ret' \in Query
    BY <1>1, <1>2, PopFacts DEF ReturnSlot
  <2>2. QED
    BY <1>1, <1>7, <1>13, <1>14, <2>1 DEF TypeOK
<1>16. QED
  BY <1>1, <1>2, <1>3, <1>13, <1>14, <1>15, TopReturns

-----------------------------------------------------------------------------

(* NewDatabase satisfies the invariant. *)
LEMMA InitIInv == Init => IInv
<1> SUFFICES ASSUME Init PROVE IInv
  OBVIOUS
<1>1. TypeOK
  BY EmptySeq DEF Init, TypeOK
<1>2. InputSlots /\ QuerySlots
  BY DEF Init, InputSlots, QuerySlots, Cell
<1>3. CallChain /\ Walks /\ Runs /\ Returned
  BY EmptySeq DEF Init, CallChain, Walks, Runs, Returned
<1>4. QED
  BY <1>1, <1>2, <1>3 DEF IInv

(* A stuttering step. *)
LEMMA StutterPreserves == IInv /\ UNCHANGED vars => IInv'
<1> SUFFICES ASSUME IInv, UNCHANGED vars PROVE IInv'
  OBVIOUS
<1>1. UNCHANGED <<rev, slots>> /\ UNCHANGED stack /\ UNCHANGED ctl /\ UNCHANGED ret
  BY DEF vars
<1>2. InputSlots' /\ QuerySlots' /\ TypeOK'
  BY <1>1, SlotsKept DEF IInv, TypeOK
<1>3. CallChain'
  BY <1>1 DEF IInv, CallChain, Top, FramesOf, Awaits
<1>4. Walks'
  <2> SUFFICES ASSUME NEW k \in 1..Len(ctl), NEW b, b = ctl[k], b.pc = "walk"
               PROVE  WalkOK(b)'
    BY <1>1, ZenonT(60) DEF Walks, WalkOK
  <2>1. QED
    BY <1>1, SlotsKept DEF IInv, Walks
<1>5. Runs'
  <2> SUFFICES ASSUME NEW k \in 1..Len(ctl'), NEW b, b = ctl'[k], b.pc = "run",
                      NEW f, f = stack'[b.parent + 1]
               PROVE  b.parent + 1 <= Len(stack') /\ RunOK(b, f)'
    BY ZenonT(60) DEF Runs, RunOK
  <2>1. k \in 1..Len(ctl) /\ b = ctl[k] /\ f = stack[b.parent + 1]
    BY <1>1
  <2>2. b.parent + 1 <= Len(stack) /\ RunOK(b, f)
    BY <2>1 DEF IInv, Runs
  <2>3. QED
    BY <1>1, <2>2, SlotsKept
<1>6. Returned'
  BY <1>1 DEF IInv, Returned, Top, Awaits, Verified
<1>7. QED
  BY <1>2, <1>3, <1>4, <1>5, <1>6 DEF IInv

(* Every step of the engine or of a client preserves the invariant. *)
LEMMA NextPreserves == IInv /\ [Next]_vars => IInv'
<1> SUFFICES ASSUME IInv, [Next]_vars PROVE IInv'
  OBVIOUS
<1>1. ASSUME NEW q \in Query, Get(q) PROVE IInv'
  BY <1>1, GetPreserves
<1>2. ASSUME NEW i \in Input, GetInput(i) \/ Clear(i) PROVE IInv'
  BY <1>2, GetInputPreserves, ClearPreserves
<1>3. ASSUME NEW i \in Input, NEW v \in Val, Set(i, v) PROVE IInv'
  BY <1>3, SetPreserves
<1>4. CASE Step
  BY <1>4, GetReturnPreserves, MissPreserves, HitPreserves, StartWalkPreserves,
     WalkDescendPreserves, WalkNextPreserves, WalkStalePreserves, WalkDonePreserves,
     FetchInputPreserves, PanicPreserves, HasFetchPreserves, FetchQueryPreserves,
     FetchReturnPreserves, FinishBodyPreserves
     DEF Step, FetchMissing
<1>5. CASE UNCHANGED vars
  BY <1>5, StutterPreserves
<1>6. QED
  BY <1>1, <1>2, <1>3, <1>4, <1>5 DEF Next, Client

(***************************************************************************)
(* The invariant of the query engine holds in every reachable state,        *)
(* whatever the inputs, the acyclic bodies, the hashes and the order of     *)
(* the callers' operations, panics included.                                *)
(***************************************************************************)
THEOREM EngineInvariant == Spec => []IInv
<1>1. Init => IInv
  BY InitIInv
<1>2. IInv /\ [Next]_vars => IInv'
  BY NextPreserves
<1>3. QED
  BY <1>1, <1>2, PTL DEF Spec

(***************************************************************************)
(* The slot table, the frames and the call stack always have their types:   *)
(* in particular no step reads the value of a slot that does not exist.     *)
(***************************************************************************)
THEOREM EngineTypeOK == Spec => []TypeOK
<1>1. IInv => TypeOK
  BY DEF IInv
<1>2. QED
  BY <1>1, EngineInvariant, PTL

(***************************************************************************)
(* From-scratch consistency of every slot verified at the current revision  *)
(* (validateOrRunLocked).                                                   *)
(***************************************************************************)
THEOREM EngineConsistent == Spec => []Consistent
<1>1. IInv => Consistent
  <2> SUFFICES ASSUME IInv, NEW q \in Query, Verified(q)
               PROVE  /\ Explains(q, slots[q].deps, slots[q].value)
                      /\ \A k \in 1..Len(slots[q].deps) :
                           /\ Current(slots[q].deps[k])
                           /\ slots[q].deps[k].cell \in Query =>
                                Verified(slots[q].deps[k].cell)
    BY DEF Consistent
  <2>1. slots[q] # NoSlot /\ slots[q].verifiedAt = rev
    BY DEF Verified
  <2>2. /\ Explains(q, slots[q].deps, slots[q].value)
        /\ \A k \in 1..Len(slots[q].deps) :
             SoundEdge(slots[q].deps[k], q) /\ Unmoved(slots[q].deps[k])
    BY <2>1 DEF IInv, QuerySlots
  <2>3. QED
    BY <2>2 DEF SoundEdge, Unmoved
<1>2. QED
  BY <1>1, EngineInvariant, PTL

(***************************************************************************)
(* computedAt <= verifiedAt <= rev, and no edge is newer than its slot.     *)
(***************************************************************************)
THEOREM EngineStampOrder == Spec => []StampOrder
<1>1. IInv => StampOrder
  <2> SUFFICES ASSUME IInv, NEW c \in Cell, slots[c] # NoSlot
               PROVE  /\ slots[c].computedAt <= slots[c].verifiedAt
                      /\ slots[c].verifiedAt <= rev
                      /\ \A k \in 1..Len(slots[c].deps) :
                           slots[c].deps[k].changedAt <= slots[c].verifiedAt
    BY DEF StampOrder
  <2>1. CASE c \in Input
    <3>1. slots[c].verifiedAt \in Nat
      BY SlotFacts DEF IInv
    <3>2. QED
      BY <2>1, <3>1, EmptySeq DEF IInv, InputSlots
  <2>2. CASE c \in Query
    BY <2>2 DEF IInv, QuerySlots
  <2>3. QED
    BY <2>1, <2>2 DEF Cell
<1>2. QED
  BY <1>1, EngineInvariant, PTL

(***************************************************************************)
(* A body is never run for a slot that is good at this revision, and never  *)
(* twice at once.                                                           *)
(***************************************************************************)
THEOREM EngineNoRedundantRun == Spec => []NoRedundantRun
<1>1. IInv => NoRedundantRun
  <2> SUFFICES ASSUME IInv PROVE NoRedundantRun
    OBVIOUS
  <2>1. DOMAIN ctl = 1..Len(ctl) /\ Len(ctl) \in Nat
    BY LenProperties DEF IInv, TypeOK
  <2>2. ASSUME NEW k \in 1..Len(ctl), ctl[k].pc = "run" PROVE ~Verified(ctl[k].cell)
    BY <2>2 DEF IInv, Runs, RunOK
  <2>3. ASSUME NEW j \in 1..Len(ctl), NEW k \in 1..Len(ctl), j < k,
               ctl[j].pc = "run", ctl[k].pc = "run"
        PROVE  ctl[j].cell # ctl[k].cell
    <3>1. ctl # <<>>
      BY <2>1, <2>3, EmptySeq
    <3>2. j > 1
      BY <2>1, <2>3 DEF IInv, CallChain
    <3>3. Rank[ctl[k].cell] < Rank[ctl[j].cell]
      BY <2>3, <3>2 DEF IInv, CallChain
    <3>4. Rank[ctl[k].cell] \in Nat
      BY <3>1, TopFacts DEF IInv
    <3>5. QED
      BY <3>3, <3>4
  <2>4. SingleComputation
    <3> SUFFICES ASSUME NEW j \in 1..Len(ctl), NEW k \in 1..Len(ctl),
                        ctl[j].pc = "run", ctl[k].pc = "run",
                        ctl[j].cell = ctl[k].cell, j # k
                 PROVE  FALSE
      BY <2>1 DEF SingleComputation
    <3>1. j < k \/ k < j
      BY <2>1
    <3>2. QED
      BY <2>3, <3>1
  <2>5. QED
    BY <2>1, <2>2, <2>4 DEF NoRedundantRun
<1>2. QED
  BY <1>1, EngineInvariant, PTL

(***************************************************************************)
(* A slot verified at the current revision does not change while the        *)
(* revision lasts.                                                          *)
(***************************************************************************)
THEOREM EngineStable == Spec => StableWithinRevision
<1>1. IInv /\ [Next]_vars =>
        [\A q \in Query : (Verified(q) /\ rev' = rev) => slots'[q] = slots[q]]_vars
  <2> SUFFICES ASSUME IInv, Next, NEW q \in Query, Verified(q), rev' = rev
               PROVE  slots'[q] = slots[q]
    OBVIOUS
  <2>1. rev \in Nat /\ DOMAIN slots = Cell /\ q \in Cell
    BY DEF IInv, TypeOK, Cell
  <2>2. CASE WalkDone
    <3>1. Walking /\ ctl # <<>> /\ slots' = [slots EXCEPT ![Top.cell] = [@ EXCEPT !.verifiedAt = rev]]
      BY <2>2 DEF WalkDone, Walking
    <3>2. ~Verified(Top.cell)
      BY <3>1, TopFacts DEF IInv, Walks, WalkOK, Walking, Verified, Top
    <3>3. QED
      BY <2>1, <3>1, <3>2
  <2>3. CASE FinishBody
    <3>1. ~Verified(Top.cell)
      BY <2>3, RunFacts DEF FinishBody, RunOK
    <3>2. q # Top.cell
      BY <3>1
    <3>3. QED
      BY <2>1, <2>3, <3>2 DEF FinishBody
  <2>4. CASE \E i \in Input, v \in Val : Set(i, v)
    BY <2>1, <2>4 DEF Set
  <2>5. CASE \E i \in Input : Clear(i)
    BY <2>1, <2>5 DEF Clear
  <2>6. QED
    BY <2>2, <2>3, <2>4, <2>5 DEF Next, Client, Step, Get, GetInput, Panic, GetReturn,
       Miss, Hit, StartWalk, WalkDescend, WalkNext, WalkStale, FetchInput, FetchMissing,
       HasFetch, FetchQuery, FetchReturn, Answered
<1>2. QED
  BY <1>1, EngineInvariant, PTL DEF Spec, StableWithinRevision

=============================================================================
