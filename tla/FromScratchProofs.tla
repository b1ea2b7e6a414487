-------------------------- MODULE FromScratchProofs --------------------------
(***************************************************************************)
(* The query engine computes what evaluation without a cache computes, runs *)
(* no body that evaluation would not run, and panics on a missing input     *)
(* only where evaluation does: for every set of inputs and queries, every   *)
(* acyclic program and every hash that its readers respect.                 *)
(***************************************************************************)
EXTENDS FromScratch, EngineProofs, WellFoundedInduction

(* A non-empty set of natural numbers has a least element. *)
LEMMA LeastNat ==
  ASSUME NEW T, T \subseteq Nat, T # {}
  PROVE  \E m \in T : \A k \in T : m <= k
<1> DEFINE R == OpToRel(<, Nat)
<1>1. IsWellFoundedOn(R, Nat)
  BY NatLessThanWellFounded
<1>2. \A j, k \in Nat : <<j, k>> \in R <=> j < k
  BY DEF OpToRel
<1> HIDE DEF R
<1>3. PICK m \in T : \A k \in T : <<k, m>> \notin R
  BY <1>1, WFMin
<1>4. \A k \in T : m \in Nat /\ k \in Nat /\ ~(k < m)
  BY <1>2, <1>3
<1>5. \A k \in T : m <= k
  BY <1>4
<1>6. QED
  BY <1>3, <1>5

-----------------------------------------------------------------------------
(* One read *)

(* Evaluation from point s, which q's body reaches from point r by reads    *)
(* that are answered, is evaluation from r.                                 *)
Leads(q, r, s) ==
  /\ s.ran \subseteq r.ran
  /\ r.value = Stuck <=> s.value = Stuck
  /\ r.value # Stuck => Same(q, r.value, s.value)

(* The slot of c holds what evaluation gives. *)
Settled(c) ==
  /\ Scratch(c).value # Stuck
  /\ Same(c, slots[c].value, Scratch(c).value)

(* Same is an equivalence, and Leads composes. *)
LEMMA SameFacts ==
  ASSUME NEW c
  PROVE  /\ \A v : Same(c, v, v)
         /\ \A v, w : Same(c, v, w) => Same(c, w, v)
         /\ \A u, v, w : (Same(c, u, v) /\ Same(c, v, w)) => Same(c, u, w)
BY DEF Same

LEMMA LeadsFacts ==
  ASSUME NEW q
  PROVE  /\ \A r : Leads(q, r, r)
         /\ \A r, s, t : (Leads(q, r, s) /\ Leads(q, s, t)) => Leads(q, r, t)
<1>1. \A r : Leads(q, r, r)
  BY SameFacts DEF Leads
<1>2. ASSUME NEW r, NEW s, NEW t, Leads(q, r, s), Leads(q, s, t) PROVE Leads(q, r, t)
  BY <1>2, SameFacts DEF Leads
<1>3. QED
  BY <1>1, <1>2

(* Where evaluation goes from a point, for each thing a body can do there. *)
LEMMA EvalFacts ==
  ASSUME TypeOK, NEW p \in Point
  PROVE  /\ Inputs \in InputState
         /\ Eval(Inputs, p) \in Outcome
         /\ Owner[p] \in Eval(Inputs, p).ran
         /\ Code[p].op = "return" => Eval(Inputs, p).value = Code[p].val
         /\ Code[p].op = "has" =>
              LET a == IF slots[Code[p].cell] = NoSlot THEN Absent ELSE Present IN
              /\ Eval(Inputs, p).value = Eval(Inputs, Jump(p, a)).value
              /\ Eval(Inputs, Jump(p, a)).ran \subseteq Eval(Inputs, p).ran
         /\ (Code[p].op = "fetch" /\ Code[p].cell \in Input) =>
              IF slots[Code[p].cell] = NoSlot THEN Eval(Inputs, p).value = Stuck
              ELSE LET v == slots[Code[p].cell].value IN
                   /\ Eval(Inputs, p).value = Eval(Inputs, Jump(p, v)).value
                   /\ Eval(Inputs, Jump(p, v)).ran \subseteq Eval(Inputs, p).ran
         /\ (Code[p].op = "fetch" /\ Code[p].cell \in Query) =>
              LET r == Scratch(Code[p].cell) IN
              /\ r.ran \subseteq Eval(Inputs, p).ran
              /\ r.value = Stuck => Eval(Inputs, p).value = Stuck
              /\ r.value # Stuck =>
                   /\ Eval(Inputs, p).value = Eval(Inputs, Jump(p, r.value)).value
                   /\ Eval(Inputs, Jump(p, r.value)).ran \subseteq Eval(Inputs, p).ran
<1>1. Inputs \in InputState
  <2>1. ASSUME NEW i \in Input, slots[i] # NoSlot PROVE slots[i].value \in Val
    BY <2>1, SlotFacts DEF Cell
  <2>2. QED
    BY <2>1 DEF Inputs, InputState
<1>2. Eval(Inputs, p) \in Outcome /\ Eval(Inputs, p) = EvalStep(Inputs, p)
  BY <1>1, EvalAssumption
<1>3. Code[p] \in Instr
  BY EngineAssumption
<1>4. /\ Owner[p] \in EvalStep(Inputs, p).ran
      /\ Code[p].op = "return" => EvalStep(Inputs, p).value = Code[p].val
  BY <1>3 DEF EvalStep, Instr
<1>5. ASSUME Code[p].op = "has"
      PROVE  LET a == IF slots[Code[p].cell] = NoSlot THEN Absent ELSE Present IN
             /\ EvalStep(Inputs, p).value = Eval(Inputs, Jump(p, a)).value
             /\ Eval(Inputs, Jump(p, a)).ran \subseteq EvalStep(Inputs, p).ran
  <2> DEFINE c == Code[p].cell
             a == IF slots[c] = NoSlot THEN Absent ELSE Present
  <2>1. c \in Input
    BY <1>5, EngineAssumption
  <2>2. slots[c] # NoSlot => slots[c].value # Absent
    BY <2>1, SlotFacts, EngineAssumption DEF Cell
  <2>3. (IF Inputs[c] = Absent THEN Absent ELSE Present) = a
    BY <2>1, <2>2 DEF Inputs
  <2>4. EvalStep(Inputs, p) = [value |-> Eval(Inputs, Jump(p, a)).value,
                               ran |-> {Owner[p]} \cup {} \cup Eval(Inputs, Jump(p, a)).ran]
    BY <1>5, <2>3 DEF EvalStep
  <2>5. QED
    BY <2>4
<1>6. ASSUME Code[p].op = "fetch", Code[p].cell \in Input
      PROVE  IF slots[Code[p].cell] = NoSlot THEN EvalStep(Inputs, p).value = Stuck
             ELSE LET v == slots[Code[p].cell].value IN
                  /\ EvalStep(Inputs, p).value = Eval(Inputs, Jump(p, v)).value
                  /\ Eval(Inputs, Jump(p, v)).ran \subseteq EvalStep(Inputs, p).ran
  <2> DEFINE c == Code[p].cell
  <2>1. slots[c] # NoSlot => slots[c].value # Absent
    BY <1>6, SlotFacts, EngineAssumption DEF Cell
  <2>2. Inputs[c] = IF slots[c] = NoSlot THEN Absent ELSE slots[c].value
    BY <1>6 DEF Inputs
  <2>3. CASE slots[c] = NoSlot
    BY <1>6, <2>2, <2>3 DEF EvalStep
  <2>4. CASE slots[c] # NoSlot
    <3>1. EvalStep(Inputs, p) = [value |-> Eval(Inputs, Jump(p, slots[c].value)).value,
                                 ran |-> {Owner[p]} \cup {} \cup Eval(Inputs, Jump(p, slots[c].value)).ran]
      BY <1>6, <2>1, <2>2, <2>4 DEF EvalStep
    <3>2. QED
      BY <2>4, <3>1
  <2>5. QED
    BY <2>3, <2>4
<1>7. ASSUME Code[p].op = "fetch", Code[p].cell \in Query
      PROVE  LET r == Scratch(Code[p].cell) IN
             /\ r.ran \subseteq EvalStep(Inputs, p).ran
             /\ r.value = Stuck => EvalStep(Inputs, p).value = Stuck
             /\ r.value # Stuck =>
                  /\ EvalStep(Inputs, p).value = Eval(Inputs, Jump(p, r.value)).value
                  /\ Eval(Inputs, Jump(p, r.value)).ran \subseteq EvalStep(Inputs, p).ran
  <2> DEFINE r == Scratch(Code[p].cell)
  <2>1. Code[p].cell \notin Input
    BY <1>7, EngineAssumption
  <2>2. r.value = Stuck => EvalStep(Inputs, p) = [value |-> Stuck, ran |-> {Owner[p]} \cup r.ran \cup {}]
    BY <1>7, <2>1 DEF EvalStep, Scratch
  <2>3. r.value # Stuck => EvalStep(Inputs, p) =
          [value |-> Eval(Inputs, Jump(p, r.value)).value,
           ran |-> {Owner[p]} \cup r.ran \cup Eval(Inputs, Jump(p, r.value)).ran]
    BY <1>7, <2>1 DEF EvalStep, Scratch
  <2> HIDE DEF r
  <2>4. r.ran \subseteq EvalStep(Inputs, p).ran
    BY <2>2, <2>3
  <2>5. QED
    BY <2>2, <2>3, <2>4 DEF r
<1>8. QED
  BY <1>1, <1>2, <1>4, <1>5, <1>6, <1>7

(* A read that would be answered now as it was then: evaluation from the    *)
(* point that made it goes on from the point the answer led to.             *)
LEMMA ReadLeads ==
  ASSUME TypeOK, NEW q \in Query, NEW d \in Dep, SoundEdge(d, q), Current(d),
         d.cell \in Query => Settled(d.cell)
  PROVE  Leads(q, Eval(Inputs, d.at), Eval(Inputs, Jump(d.at, d.seen)))
<1> DEFINE p == d.at
           c == d.cell
           n == Jump(p, d.seen)
<1>1. p \in Point /\ d.seen \in Seen /\ c \in Cell
  BY DEF Dep
<1>2. /\ Code[p].op \in {"fetch", "has"} /\ Code[p].cell = c /\ Owner[p] = q
      /\ Code[p].op = "fetch" => d.seen \in Val
  BY DEF SoundEdge
<1>3. Inputs \in InputState
  BY <1>1, EvalFacts
<1>4. CASE Code[p].op = "has"
  <2>1. d.seen = IF slots[c] = NoSlot THEN Absent ELSE Present
    BY <1>4 DEF Current
  <2>2. /\ Eval(Inputs, p).value = Eval(Inputs, n).value
        /\ Eval(Inputs, n).ran \subseteq Eval(Inputs, p).ran
    BY <1>1, <1>2, <1>4, <2>1, EvalFacts
  <2>3. QED
    BY <2>2, SameFacts DEF Leads
<1>5. CASE Code[p].op = "fetch"
  <2>1. slots[c] # NoSlot /\ Same(c, slots[c].value, d.seen) /\ slots[c].value \in Val
    BY <1>1, <1>5, SlotFacts DEF Current
  <2>2. PICK w \in Val : /\ Same(c, w, d.seen)
                         /\ Eval(Inputs, p).value = Eval(Inputs, Jump(p, w)).value
                         /\ Eval(Inputs, Jump(p, w)).ran \subseteq Eval(Inputs, p).ran
    <3>1. CASE c \in Input
      <4>1. /\ Eval(Inputs, p).value = Eval(Inputs, Jump(p, slots[c].value)).value
            /\ Eval(Inputs, Jump(p, slots[c].value)).ran \subseteq Eval(Inputs, p).ran
        BY <1>1, <1>2, <1>5, <2>1, <3>1, EvalFacts
      <4>2. QED
        BY <2>1, <4>1
    <3>2. CASE c \in Query
      <4>1. Scratch(c).value # Stuck /\ Same(c, slots[c].value, Scratch(c).value)
        BY <3>2 DEF Settled
      <4>2. Scratch(c) \in Outcome
        BY <3>2, EvalFacts, EngineAssumption DEF Scratch
      <4>3. Scratch(c).value \in Val
        BY <4>1, <4>2 DEF Outcome
      <4>4. Same(c, Scratch(c).value, d.seen)
        BY <2>1, <4>1, SameFacts
      <4>5. /\ Eval(Inputs, p).value = Eval(Inputs, Jump(p, Scratch(c).value)).value
            /\ Eval(Inputs, Jump(p, Scratch(c).value)).ran \subseteq Eval(Inputs, p).ran
        BY <1>1, <1>2, <1>5, <3>2, <4>1, EvalFacts
      <4>6. QED
        BY <4>3, <4>4, <4>5
    <3>3. QED
      BY <1>1, <3>1, <3>2 DEF Cell
  <2>3. Alike(q, Eval(Inputs, Jump(p, w)), Eval(Inputs, n))
    BY <1>1, <1>2, <1>3, <1>5, <2>2, HashAssumption
  <2>4. QED
    BY <2>2, <2>3 DEF Alike, Leads
<1>6. QED
  BY <1>2, <1>4, <1>5

-----------------------------------------------------------------------------
(* A run, and a Get *)

(* What q's body comes to is what it comes to from any point that the first *)
(* n of its recorded reads lead to, if they would be answered as recorded.  *)
LEMMA ReadsLead ==
  ASSUME TypeOK, NEW q \in Query, NEW deps \in Seq(Dep), NEW p \in Point,
         Follows(q, deps, p), NEW n \in 0..Len(deps),
         \A k \in 1..n : /\ SoundEdge(deps[k], q) /\ Current(deps[k])
                         /\ deps[k].cell \in Query => Settled(deps[k].cell)
  PROVE  Leads(q, Scratch(q), Eval(Inputs, IF n < Len(deps) THEN deps[n + 1].at ELSE p))
<1> DEFINE At(k) == IF k < Len(deps) THEN deps[k + 1].at ELSE p
           Bad == {k \in 0..n : ~Leads(q, Scratch(q), Eval(Inputs, At(k)))}
<1>1. Len(deps) \in Nat /\ \A k \in 1..Len(deps) : deps[k] \in Dep
  BY LenProperties, ElementOfSeq
<1>2. At(0) = Entry[q]
  <2>1. CASE deps = <<>>
    BY <1>1, <2>1, EmptySeq DEF Follows
  <2>2. CASE deps # <<>>
    BY <1>1, <2>2, EmptySeq DEF Follows
  <2>3. QED
    BY <2>1, <2>2
<1>3. ASSUME NEW k \in 0..n, k # 0
      PROVE  /\ k \in 1..n /\ k - 1 \in 0..n /\ k - 1 < k /\ k <= Len(deps)
             /\ At(k - 1) = deps[k].at
             /\ At(k) = Jump(deps[k].at, deps[k].seen)
  <2>1. k \in 1..n /\ k - 1 \in 0..n /\ k - 1 < k /\ k <= Len(deps) /\ k \in 1..Len(deps)
        /\ k - 1 < Len(deps) /\ (k - 1) + 1 = k
    BY <1>1, <1>3
  <2>2. At(k - 1) = deps[k].at
    BY <2>1
  <2>3. CASE k < Len(deps)
    BY <2>1, <2>2, <2>3 DEF Follows
  <2>4. CASE k = Len(deps)
    <3>1. deps # <<>>
      BY <2>1, EmptySeq
    <3>2. p = Jump(deps[k].at, deps[k].seen)
      BY <2>4, <3>1 DEF Follows
    <3>3. QED
      BY <2>1, <2>2, <2>4, <3>2
  <2>5. QED
    BY <1>1, <2>1, <2>3, <2>4
<1> HIDE DEF At
<1>4. Bad = {}
  <2> SUFFICES ASSUME Bad # {} PROVE FALSE
    OBVIOUS
  <2>1. PICK k \in Bad : \A j \in Bad : k <= j
    <3>1. Bad \subseteq Nat
      BY <1>1
    <3> HIDE DEF Bad
    <3>2. QED
      BY <3>1, LeastNat
  <2>2. k # 0
    BY <1>2, <2>1, LeadsFacts DEF Scratch
  <2>3. k - 1 \notin Bad /\ k \in 0..n
    BY <1>1, <2>1
  <2>4. Leads(q, Scratch(q), Eval(Inputs, deps[k].at))
    BY <1>3, <2>2, <2>3
  <2>5. Leads(q, Eval(Inputs, deps[k].at), Eval(Inputs, At(k)))
    BY <1>1, <1>3, <2>2, <2>3, ReadLeads
  <2>6. Leads(q, Scratch(q), Eval(Inputs, At(k)))
    BY <2>4, <2>5, LeadsFacts
  <2>7. QED
    BY <2>1, <2>6
<1>5. n \in 0..n
  BY <1>1
<1>6. QED
  BY <1>4, <1>5 DEF At

(* A read of a query is a read of a query of lower rank. *)
LEMMA EdgeRank ==
  ASSUME NEW q \in Query, NEW d \in Dep, SoundEdge(d, q), d.cell \in Query
  PROVE  Rank[d.cell] \in Nat /\ Rank[q] \in Nat /\ Rank[d.cell] < Rank[q]
<1>1. d.at \in Point /\ Code[d.at].op = "fetch" /\ Code[d.at].cell = d.cell /\ Owner[d.at] = q
  BY EngineAssumption DEF SoundEdge, Dep
<1>2. QED
  BY <1>1, AcyclicAssumption

(***************************************************************************)
(* Every slot verified at the current revision holds what evaluation gives. *)
(* A query of least rank that did not would have read only settled ones.    *)
(***************************************************************************)
LEMMA VerifiedSettled == IInv => \A q \in Query : Verified(q) => Settled(q)
<1> SUFFICES ASSUME IInv PROVE \A q \in Query : Verified(q) => Settled(q)
  OBVIOUS
<1> DEFINE Bad == {q \in Query : Verified(q) /\ ~Settled(q)}
           Ranks == {Rank[q] : q \in Bad}
<1> SUFFICES ASSUME Bad # {} PROVE FALSE
  OBVIOUS
<1>1. TypeOK
  BY DEF IInv
<1>2. PICK q \in Bad : \A r \in Bad : Rank[q] <= Rank[r]
  <2>1. Ranks \subseteq Nat /\ Ranks # {}
    BY AcyclicAssumption
  <2>2. PICK m \in Ranks : \A k \in Ranks : m <= k
    <3> HIDE DEF Ranks
    <3>1. QED
      BY <2>1, LeastNat
  <2>3. QED
    BY <2>2
<1>3. q \in Query /\ q \in Cell /\ slots[q] # NoSlot /\ slots[q].verifiedAt = rev
  BY <1>2 DEF Verified, Cell
<1> DEFINE deps == slots[q].deps
<1>4. /\ deps \in Seq(Dep) /\ Len(deps) \in Nat /\ slots[q].value \in Val
      /\ \A k \in 1..Len(deps) : deps[k] \in Dep
  BY <1>1, <1>3, SlotFacts
<1>5. /\ Explains(q, deps, slots[q].value)
      /\ \A k \in 1..Len(deps) : SoundEdge(deps[k], q) /\ Unmoved(deps[k])
  BY <1>3 DEF IInv, QuerySlots
<1>6. PICK p \in Point : Follows(q, deps, p) /\ Code[p].op = "return" /\ Code[p].val = slots[q].value
  BY <1>5 DEF Explains
<1> HIDE DEF deps, Bad
<1>7. ASSUME NEW k \in 1..Len(deps)
      PROVE  /\ SoundEdge(deps[k], q) /\ Current(deps[k])
             /\ deps[k].cell \in Query => Settled(deps[k].cell)
  <2>1. deps[k] \in Dep /\ SoundEdge(deps[k], q) /\ Current(deps[k])
        /\ (deps[k].cell \in Query => Verified(deps[k].cell))
    BY <1>4, <1>5 DEF Unmoved, SoundEdge
  <2>2. ASSUME deps[k].cell \in Query PROVE Settled(deps[k].cell)
    <3>1. Rank[deps[k].cell] \in Nat /\ Rank[q] \in Nat /\ Rank[deps[k].cell] < Rank[q]
      BY <1>3, <2>1, <2>2, EdgeRank
    <3>2. deps[k].cell \notin Bad
      BY <1>2, <3>1
    <3>3. QED
      BY <2>1, <2>2, <3>2 DEF Bad
  <2>3. QED
    BY <2>1, <2>2
<1>8. Leads(q, Scratch(q), Eval(Inputs, p))
  <2>1. Len(deps) \in 0..Len(deps) /\ ~(Len(deps) < Len(deps))
    BY <1>4
  <2>2. QED
    BY <1>1, <1>3, <1>4, <1>6, <1>7, <2>1, ReadsLead
<1>9. Eval(Inputs, p).value = slots[q].value /\ slots[q].value # Stuck
  BY <1>1, <1>4, <1>6, EvalFacts, EvalAssumption DEF Stuck
<1>10. Settled(q)
  BY <1>8, <1>9, SameFacts DEF Leads, Settled
<1>11. QED
  BY <1>2, <1>10 DEF Bad

(* The reads recorded by a slot or a frame that have not moved. *)
LEMMA UnmovedReads ==
  ASSUME IInv, NEW q \in Query, NEW d \in Dep, SoundEdge(d, q), Unmoved(d)
  PROVE  Current(d) /\ (d.cell \in Query => Settled(d.cell))
BY VerifiedSettled DEF Unmoved, SoundEdge

-----------------------------------------------------------------------------
(***************************************************************************)
(* Get returns what evaluation from scratch returns, up to the hash.        *)
(***************************************************************************)
THEOREM EngineFromScratch == Spec => []GetIsFromScratch
<1>1. IInv => GetIsFromScratch
  <2> SUFFICES ASSUME IInv, ctl # <<>>, Top.pc = "client" PROVE Settled(Top.cell)
    BY DEF GetIsFromScratch, Settled
  <2>1. Verified(ret) /\ Awaits(Top, ret) /\ ret \in Query
    BY DEF IInv, Returned, TypeOK
  <2>2. ret = Top.cell
    BY <2>1 DEF Awaits
  <2>3. QED
    BY <2>1, <2>2, VerifiedSettled
<1>2. QED
  BY <1>1, EngineInvariant, PTL

(* Evaluation of the caller's query takes part in evaluation of the query   *)
(* it waits for, and is stuck where that is stuck.                          *)
Demands(q, c) ==
  /\ Scratch(c).ran \subseteq Scratch(q).ran
  /\ Scratch(c).value = Stuck => Scratch(q).value = Stuck

(* A body that has come to a Fetch of c demands c. *)
LEMMA ReadDemands ==
  ASSUME TypeOK, NEW q \in Query, NEW c \in Query, NEW p \in Point,
         Code[p].op = "fetch", Code[p].cell = c, Leads(q, Scratch(q), Eval(Inputs, p))
  PROVE  Demands(q, c)
BY EvalFacts DEF Leads, Demands

(* A body that is running has come to its point by reads that still hold. *)
LEMMA RunLeads ==
  ASSUME IInv, NEW k \in 1..Len(ctl), ctl[k].pc = "run"
  PROVE  /\ ctl[k].cell \in Query /\ ctl[k].point \in Point
         /\ Leads(ctl[k].cell, Scratch(ctl[k].cell), Eval(Inputs, ctl[k].point))
<1> DEFINE a == ctl[k]
           f == stack[a.parent + 1]
           deps == f.deps
<1>1. TypeOK /\ a \in Activation
  BY ElementOfSeq DEF IInv, TypeOK
<1>2. a.cell \in Query /\ a.point \in Point /\ a.parent \in Nat
  BY <1>1 DEF Activation
<1>3. a.parent + 1 <= Len(stack) /\ RunOK(a, f)
  BY DEF IInv, Runs
<1>4. f \in Frame
  BY <1>1, <1>2, <1>3, ElementOfSeq, LenProperties DEF TypeOK
<1>5. deps \in Seq(Dep)
  BY <1>4 DEF Frame
<1>6. Follows(a.cell, deps, a.point)
      /\ \A j \in 1..Len(deps) : SoundEdge(deps[j], a.cell) /\ Unmoved(deps[j])
  BY <1>3 DEF RunOK
<1> HIDE DEF deps, f, a
<1>7. Len(deps) \in 0..Len(deps) /\ ~(Len(deps) < Len(deps))
      /\ \A j \in 1..Len(deps) : deps[j] \in Dep
  BY <1>5, LenProperties, ElementOfSeq
<1>8. \A j \in 1..Len(deps) : /\ SoundEdge(deps[j], a.cell) /\ Current(deps[j])
                              /\ deps[j].cell \in Query => Settled(deps[j].cell)
  BY <1>2, <1>6, <1>7, UnmovedReads
<1>9. Leads(a.cell, Scratch(a.cell), Eval(Inputs, a.point))
  BY <1>1, <1>2, <1>5, <1>6, <1>7, <1>8, ReadsLead
<1>10. QED
  BY <1>2, <1>9 DEF a

(* A dep-walk validates a dep only when the body would read it again. *)
LEMMA WalkDemands ==
  ASSUME IInv, NEW k \in 1..Len(ctl), ctl[k].pc = "walk", NEW c \in Query, Awaits(ctl[k], c)
  PROVE  ctl[k].cell \in Query /\ Demands(ctl[k].cell, c)
<1> DEFINE a == ctl[k]
           q == a.cell
           deps == slots[q].deps
           i == a.i
<1>1. TypeOK /\ a \in Activation
  BY ElementOfSeq DEF IInv, TypeOK
<1>2. q \in Query /\ q \in Cell /\ i \in Nat
  BY <1>1 DEF Activation, Cell
<1>3. WalkOK(a) /\ slots[q] # NoSlot
  BY DEF IInv, Walks, WalkOK
<1>4. i <= Len(deps) /\ deps[i].cell = c
  BY DEF Awaits
<1>5. /\ deps \in Seq(Dep) /\ Len(deps) \in Nat
      /\ \A j \in 1..Len(deps) : deps[j] \in Dep
  BY <1>1, <1>2, <1>3, SlotFacts
<1>6. i \in 1..Len(deps) /\ \A j \in 1..(i - 1) : Unmoved(deps[j])
  BY <1>3, <1>4, <1>5 DEF WalkOK
<1>7. /\ Explains(q, deps, slots[q].value)
      /\ \A j \in 1..Len(deps) : SoundEdge(deps[j], q)
  BY <1>2, <1>3 DEF IInv, QuerySlots
<1>8. PICK p \in Point : Follows(q, deps, p)
  BY <1>7 DEF Explains
<1> HIDE DEF deps, i, q, a
<1>9. /\ i - 1 \in 0..Len(deps) /\ i - 1 < Len(deps) /\ (i - 1) + 1 = i
      /\ \A j \in 1..(i - 1) : j \in 1..Len(deps)
  BY <1>5, <1>6
<1>10. \A j \in 1..(i - 1) : /\ SoundEdge(deps[j], q) /\ Current(deps[j])
                             /\ deps[j].cell \in Query => Settled(deps[j].cell)
  BY <1>2, <1>5, <1>6, <1>7, <1>9, UnmovedReads
<1>11. Leads(q, Scratch(q), Eval(Inputs, deps[i].at))
  BY <1>1, <1>2, <1>5, <1>8, <1>9, <1>10, ReadsLead
<1>12. deps[i].at \in Point /\ Code[deps[i].at].cell = c /\ Code[deps[i].at].op = "fetch"
  BY <1>4, <1>5, <1>6, <1>7, EngineAssumption DEF SoundEdge, Dep
<1>13. Demands(q, c)
  BY <1>1, <1>2, <1>11, <1>12, ReadDemands
<1>14. QED
  BY <1>2, <1>13 DEF q, a

(* Whatever is being validated or run is demanded by the Get in progress. *)
LEMMA AllDemanded ==
  ASSUME IInv, NEW k \in 1..Len(ctl)
  PROVE  ctl[k].cell \in Query /\ ctl[1].cell \in Query /\ Demands(ctl[1].cell, ctl[k].cell)
<1>1. TypeOK /\ Len(ctl) \in Nat /\ 1 \in 1..Len(ctl) /\ \A j \in 1..Len(ctl) : ctl[j] \in Activation
  BY ElementOfSeq, LenProperties DEF IInv, TypeOK
<1>2. \A j \in 1..Len(ctl) : ctl[j].cell \in Query
  BY <1>1 DEF Activation
<1>3. ASSUME NEW j \in 1..Len(ctl), j + 1 \in 1..Len(ctl)
      PROVE  Demands(ctl[j].cell, ctl[j + 1].cell)
  <2>1. Awaits(ctl[j], ctl[j + 1].cell)
    <3>1. j \in 1..(Len(ctl) - 1)
      BY <1>1, <1>3
    <3>2. QED
      BY <3>1 DEF IInv, CallChain
  <2>2. CASE ctl[j].pc = "client"
    BY <2>1, <2>2 DEF Awaits, Demands
  <2>3. CASE ctl[j].pc = "walk"
    BY <1>2, <1>3, <2>1, <2>3, WalkDemands
  <2>4. CASE ctl[j].pc = "run"
    <3>1. Code[ctl[j].point].op = "fetch" /\ Code[ctl[j].point].cell = ctl[j + 1].cell
      BY <2>1, <2>4 DEF Awaits
    <3>2. QED
      BY <1>1, <1>2, <1>3, <2>4, <3>1, RunLeads, ReadDemands
  <2>5. QED
    BY <2>1, <2>2, <2>3, <2>4 DEF Awaits
<1> DEFINE Bad == {j \in 1..Len(ctl) : ~Demands(ctl[1].cell, ctl[j].cell)}
<1>4. Bad = {}
  <2> SUFFICES ASSUME Bad # {} PROVE FALSE
    OBVIOUS
  <2>1. PICK m \in Bad : \A j \in Bad : m <= j
    <3>1. Bad \subseteq Nat
      BY <1>1
    <3> HIDE DEF Bad
    <3>2. QED
      BY <3>1, LeastNat
  <2>2. m \in 1..Len(ctl) /\ m # 1
    BY <2>1 DEF Demands
  <2>3. m - 1 \in 1..Len(ctl) /\ (m - 1) + 1 = m /\ m - 1 \notin Bad
    BY <1>1, <2>1, <2>2
  <2>4. Demands(ctl[1].cell, ctl[m - 1].cell) /\ Demands(ctl[m - 1].cell, ctl[m].cell)
    BY <1>3, <2>2, <2>3
  <2>5. Demands(ctl[1].cell, ctl[m].cell)
    BY <2>4 DEF Demands
  <2>6. QED
    BY <2>1, <2>5
<1>5. QED
  BY <1>1, <1>2, <1>4

(***************************************************************************)
(* A Get runs only bodies that evaluation from scratch would run.           *)
(***************************************************************************)
THEOREM EngineRunsOnlyDemanded == Spec => []RunsOnlyDemanded
<1>1. IInv => RunsOnlyDemanded
  <2> SUFFICES ASSUME IInv, NEW k \in 1..Len(ctl)
               PROVE  ctl[k].cell \in Scratch(ctl[1].cell).ran
    BY DEF RunsOnlyDemanded
  <2>1. ctl[k].cell \in Query /\ Demands(ctl[1].cell, ctl[k].cell)
    BY AllDemanded
  <2>2. Entry[ctl[k].cell] \in Point /\ Owner[Entry[ctl[k].cell]] = ctl[k].cell
    BY <2>1, EngineAssumption, AcyclicAssumption
  <2>3. ctl[k].cell \in Scratch(ctl[k].cell).ran
    BY <2>2, EvalFacts DEF IInv, Scratch
  <2>4. QED
    BY <2>1, <2>3 DEF Demands
<1>2. QED
  BY <1>1, EngineInvariant, PTL

(***************************************************************************)
(* A Get panics on an input that is not set only if evaluation from scratch *)
(* is stuck.                                                                *)
(***************************************************************************)
THEOREM EnginePanicsOnlyIfStuck == Spec => []PanicsOnlyIfStuck
<1>1. IInv => PanicsOnlyIfStuck
  <2> SUFFICES ASSUME IInv, Running, Now.op = "fetch", Now.cell \in Input,
                      slots[Now.cell] = NoSlot
               PROVE  Scratch(ctl[1].cell).value = Stuck
    BY DEF PanicsOnlyIfStuck
  <2>1. Len(ctl) \in 1..Len(ctl) /\ ctl[Len(ctl)].pc = "run" /\ Top = ctl[Len(ctl)]
    BY LenProperties, EmptySeq DEF IInv, TypeOK, Running, Top
  <2>2. /\ Top.cell \in Query /\ Top.point \in Point
        /\ Leads(Top.cell, Scratch(Top.cell), Eval(Inputs, Top.point))
    BY <2>1, RunLeads
  <2>3. Eval(Inputs, Top.point).value = Stuck
    BY <2>2, EvalFacts DEF IInv, Now
  <2>4. Scratch(Top.cell).value = Stuck
    BY <2>2, <2>3 DEF Leads
  <2>5. QED
    BY <2>1, <2>4, AllDemanded DEF Demands
<1>2. QED
  BY <1>1, EngineInvariant, PTL

=============================================================================
