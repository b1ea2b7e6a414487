----------------------------- MODULE QueryEngine -----------------------------
(***************************************************************************)
(* The incremental query engine of internal/query: a revision counter, a    *)
(* table of memoised slots, and the demand-driven validate-or-run walk.     *)
(*                                                                         *)
(* A cell is one (QueryID, key) pair.  Every exported operation holds       *)
(* Database.mu from its first line to its return, so at most one is in      *)
(* progress; `ctl` is the Go call stack of that operation (empty when       *)
(* the mutex is free) and each step below is one step of that call.         *)
(*                                                                         *)
(* A query body is an arbitrary deterministic program, given as an          *)
(* automaton: a point of the body either reads a cell, asks whether an      *)
(* input is set, or returns; the value it is given decides the next point.  *)
(***************************************************************************)
EXTENDS Naturals, Sequences

CONSTANTS
  Input,            \* cells written by Input.Set / Input.Clear
  Query,            \* cells computed by a body
  Val,              \* payloads
  Hashed,           \* cells whose registration supplies a hashFn
  Hash(_, _),       \* Hash(c, v): what c's hashFn returns for v
  Point,            \* control points of the bodies
  Entry,            \* [Query -> Point]: where a body starts
  Code,             \* [Point -> Instr]: what a body does at a point
  Jump(_, _),       \* Jump(p, v): where it continues when it is given v
  Present, Absent,  \* the two answers of HasFetch
  NoSlot, None,     \* "no entry in the map", "nothing returned yet"
  MaxRev,           \* bound: revisions explored
  MaxDead           \* bound: frames nobody runs any more, and reads recorded on one

Cell  == Input \cup Query
Seen  == Val \cup {Present, Absent}
Instr == [op: {"fetch", "has", "return"}, cell: Cell, val: Val]

(* What slot.go keeps.  `at` and `seen` are history: the point of the body  *)
(* that made the read and the answer it was given; no guard reads them.     *)
Dep   == [cell: Cell, changedAt: Nat, at: Point, seen: Seen]
Slot  == [value: Val, computedAt: Nat, verifiedAt: Nat, deps: Seq(Dep)]
Frame == [cell: Query, deps: Seq(Dep)]

(* One Go activation.  "client" is a Get by a caller outside any body, the  *)
(* others are validateOrRunLocked before, during and after its dep-walk.    *)
(* `parent` is the frame that is current when the call is made (an index    *)
(* into `stack`, 0 for nil); the frame a "run" activation pushes is         *)
(* therefore parent + 1.                                                    *)
Activation == [pc: {"client", "validate", "walk", "run"}, cell: Query,
               i: Nat, point: Point, parent: Nat]

ASSUME EngineAssumption ==
  /\ Input \cap Query = {}
  /\ Input \subseteq Hashed
  /\ Entry \in [Query -> Point]
  /\ Code \in [Point -> Instr]
  /\ \A p \in Point : Code[p].op = "has" => Code[p].cell \in Input
  /\ \A p \in Point : Code[p].op # "return" => \A v \in Seen : Jump(p, v) \in Point
  /\ Present \notin Val /\ Absent \notin Val /\ Present # Absent
  /\ None \notin Query
  /\ MaxRev \in Nat /\ MaxDead \in Nat

ASSUME NoSlotAssumption == NoSlot \notin Slot

VARIABLES
  rev,     \* Database.rev
  slots,   \* Database.slots: [Cell -> Slot or NoSlot]
  stack,   \* Database.stack: the frames, innermost last
  ctl,     \* the Go call stack of the operation that holds Database.mu
  ret      \* the cell whose slot the last activation returned, or None

vars == <<rev, slots, stack, ctl, ret>>

Init ==
  /\ rev = 0
  /\ slots = [c \in Cell |-> NoSlot]
  /\ stack = <<>>
  /\ ctl = <<>>
  /\ ret = None

-----------------------------------------------------------------------------
(* Helpers *)

Idle   == ctl = <<>>
Top    == ctl[Len(ctl)]
Pop(s) == SubSeq(s, 1, Len(s) - 1)

(* Two payloads the engine cannot tell apart in c. *)
Same(c, v, w) == IF c \in Hashed THEN Hash(c, v) = Hash(c, w) ELSE v = w

(* checkCycle: c is on the execution stack. *)
OnStack(c) == \E k \in DOMAIN stack : stack[k].cell = c

(* Mutant: a presence read of a missing input is never found stale. *)
ChangedIgnoresAbsent(s, d) ==
  IF s = NoSlot THEN d.changedAt # 0
  ELSE d.changedAt # 0 /\ s.computedAt > d.changedAt

(* The test of the dep-walk: s is the slot the dep has now. *)
Changed(s, d) ==
  IF s = NoSlot THEN d.changedAt # 0 ELSE s.computedAt > d.changedAt

(* Mutant: -1 for "was not set". *)
ChangedAtMinusOne(c) == IF slots[c] = NoSlot THEN 0 - 1 ELSE slots[c].computedAt

(* The edge a read of c adds to the current frame. *)
ChangedAt(c) == IF slots[c] = NoSlot THEN 0 ELSE slots[c].computedAt

Edge(c, p, v) == [cell |-> c, changedAt |-> ChangedAt(c), at |-> p, seen |-> v]

(* Frame f with one more edge. *)
Extended(f, e) == [cell |-> f.cell, deps |-> Append(f.deps, e)]

Recorded(f, c, p, v) == [stack EXCEPT ![f] = Extended(@, Edge(c, p, v))]

Activate(pc, c, parent) ==
  [pc |-> pc, cell |-> c, i |-> 1, point |-> Entry[c], parent |-> parent]

(* Unwinding: every Go activation goes and the deferred Unlock runs, but    *)
(* popFrame is not deferred, so the frames stay.                            *)
Panic ==
  /\ ctl' = <<>>
  /\ ret' = None
  /\ UNCHANGED <<rev, slots, stack>>

(* The top activation returns the slot of its cell to its caller. *)
ReturnSlot ==
  /\ ctl' = Pop(ctl)
  /\ ret' = Top.cell

-----------------------------------------------------------------------------
(* Operations of a caller outside any body *)

(* Query.Get: lock, capture the parent frame, check for a cycle, validate. *)
Get(q) ==
  /\ Idle
  /\ (stack # <<>> /\ ~OnStack(q)) =>
       Len(stack) <= MaxDead /\ Len(stack[Len(stack)].deps) < MaxDead
  /\ IF OnStack(q)
     THEN Panic
     ELSE /\ ctl' = <<Activate("client", q, Len(stack)),
                      Activate("validate", q, Len(stack))>>
          /\ UNCHANGED <<rev, slots, stack, ret>>

(* The tail of getLocked for a caller outside any body, and the Unlock. *)
GetReturn ==
  /\ ctl # <<>> /\ Top.pc = "client"
  /\ ret # None
  /\ stack' = IF Top.parent = 0 THEN stack
              ELSE Recorded(Top.parent, Top.cell, Top.point, slots[Top.cell].value)
  /\ ctl' = <<>>
  /\ ret' = None
  /\ UNCHANGED <<rev, slots>>

(* Input.Get from outside a body: a read of a set input changes nothing     *)
(* but the deps of a frame that is still on the stack.                      *)
GetInput(i) ==
  /\ Idle
  /\ slots[i] # NoSlot
  /\ stack # <<>> /\ Len(stack[Len(stack)].deps) < MaxDead
  /\ stack' = Recorded(Len(stack), i, Entry[stack[Len(stack)].cell], slots[i].value)
  /\ UNCHANGED <<rev, slots, ctl, ret>>

(* Mutant: stamps the next revision without moving to it. *)
SetWithoutBump(i, v) ==
  /\ Idle
  /\ rev < MaxRev
  /\ slots[i] # NoSlot => ~Same(i, v, slots[i].value)
  /\ slots' = [slots EXCEPT ![i] =
       [value |-> v, computedAt |-> rev + 1, verifiedAt |-> rev + 1, deps |-> <<>>]]
  /\ UNCHANGED <<rev, stack, ctl, ret>>

(* Input.Set: a value with the stored hash changes nothing. *)
Set(i, v) ==
  /\ Idle
  /\ rev < MaxRev
  /\ slots[i] # NoSlot => ~Same(i, v, slots[i].value)
  /\ rev' = rev + 1
  /\ slots' = [slots EXCEPT ![i] =
       [value |-> v, computedAt |-> rev + 1, verifiedAt |-> rev + 1, deps |-> <<>>]]
  /\ UNCHANGED <<stack, ctl, ret>>

(* Input.Clear: a missing key changes nothing. *)
Clear(i) ==
  /\ Idle
  /\ rev < MaxRev
  /\ slots[i] # NoSlot
  /\ rev' = rev + 1
  /\ slots' = [slots EXCEPT ![i] = NoSlot]
  /\ UNCHANGED <<stack, ctl, ret>>

-----------------------------------------------------------------------------
(* validateOrRunLocked *)

(* runAndStoreLocked up to the call of the body: push a frame. *)
StartBody ==
  /\ stack' = Append(stack, [cell |-> Top.cell, deps |-> <<>>])
  /\ ctl' = [ctl EXCEPT ![Len(ctl)] = [@ EXCEPT !.pc = "run", !.point = Entry[Top.cell]]]

Validating == ctl # <<>> /\ Top.pc = "validate"

(* Mutant: runs the body whether or not there is a slot. *)
MissAlways ==
  /\ Validating
  /\ StartBody
  /\ UNCHANGED <<rev, slots, ret>>

(* No slot: run fresh. *)
Miss ==
  /\ Validating
  /\ slots[Top.cell] = NoSlot
  /\ StartBody
  /\ UNCHANGED <<rev, slots, ret>>

(* Verified at this revision: return the slot. *)
Hit ==
  /\ Validating
  /\ slots[Top.cell] # NoSlot
  /\ slots[Top.cell].verifiedAt = rev
  /\ ReturnSlot
  /\ UNCHANGED <<rev, slots, stack>>

(* Otherwise walk the recorded deps, first to last. *)
StartWalk ==
  /\ Validating
  /\ slots[Top.cell] # NoSlot
  /\ slots[Top.cell].verifiedAt # rev
  /\ ctl' = [ctl EXCEPT ![Len(ctl)] = [@ EXCEPT !.pc = "walk", !.i = 1]]
  /\ UNCHANGED <<rev, slots, stack, ret>>

WalkDeps == slots[Top.cell].deps
WalkDep  == WalkDeps[Top.i]
Walking  == ctl # <<>> /\ Top.pc = "walk"

(* A derived dep is validated first (validateDepLocked, no cycle check). *)
WalkDescend ==
  /\ Walking
  /\ Top.i <= Len(WalkDeps)
  /\ WalkDep.cell \in Query
  /\ ret = None
  /\ ctl' = Append(ctl, Activate("validate", WalkDep.cell, Len(stack)))
  /\ UNCHANGED <<rev, slots, stack, ret>>

(* The dep's slot is known: an input's as it stands, a query's once its     *)
(* validator has returned it.                                               *)
DepKnown ==
  /\ Walking
  /\ Top.i <= Len(WalkDeps)
  /\ WalkDep.cell \in Input \/ ret # None

(* Mutant: the walk goes on after a dep that has moved (no break). *)
WalkNextNoBreak ==
  /\ DepKnown
  /\ ctl' = [ctl EXCEPT ![Len(ctl)].i = @ + 1]
  /\ ret' = None
  /\ UNCHANGED <<rev, slots, stack>>

(* Mutant: the walk does not advance over an absent dep. *)
WalkNextStuck ==
  /\ DepKnown
  /\ ~Changed(slots[WalkDep.cell], WalkDep)
  /\ ctl' = [ctl EXCEPT ![Len(ctl)].i =
                IF slots[WalkDep.cell] = NoSlot THEN @ ELSE @ + 1]
  /\ ret' = None
  /\ UNCHANGED <<rev, slots, stack>>

(* It has not moved: on to the next dep. *)
WalkNext ==
  /\ DepKnown
  /\ ~Changed(slots[WalkDep.cell], WalkDep)
  /\ ctl' = [ctl EXCEPT ![Len(ctl)].i = @ + 1]
  /\ ret' = None
  /\ UNCHANGED <<rev, slots, stack>>

(* It has moved: break, and run the body again. *)
WalkStale ==
  /\ DepKnown
  /\ Changed(slots[WalkDep.cell], WalkDep)
  /\ StartBody
  /\ ret' = None
  /\ UNCHANGED <<rev, slots>>

(* No dep has moved: the slot is good at this revision. *)
WalkDone ==
  /\ Walking
  /\ Top.i > Len(WalkDeps)
  /\ slots' = [slots EXCEPT ![Top.cell] = [@ EXCEPT !.verifiedAt = rev]]
  /\ ReturnSlot
  /\ UNCHANGED <<rev, stack>>

-----------------------------------------------------------------------------
(* The body, and the rest of runAndStoreLocked *)

Running == ctl # <<>> /\ Top.pc = "run"
Now     == Code[Top.point]

(* The read at the current point of the body was answered by v. *)
Answered(v) ==
  /\ stack' = Recorded(Len(stack), Now.cell, Top.point, v)
  /\ ctl' = [ctl EXCEPT ![Len(ctl)].point = Jump(@, v)]
  /\ ret' = None
  /\ UNCHANGED <<rev, slots>>

(* Input.Fetch of a key that is set. *)
FetchInput ==
  /\ Running /\ Now.op = "fetch" /\ Now.cell \in Input
  /\ slots[Now.cell] # NoSlot
  /\ Answered(slots[Now.cell].value)

(* Input.Fetch of a key that is not set panics. *)
FetchMissing ==
  /\ Running /\ Now.op = "fetch" /\ Now.cell \in Input
  /\ slots[Now.cell] = NoSlot
  /\ Panic

(* Input.HasFetch. *)
HasFetch ==
  /\ Running /\ Now.op = "has"
  /\ Answered(IF slots[Now.cell] = NoSlot THEN Absent ELSE Present)

(* Query.Fetch: the cycle check, then the call. *)
FetchQuery ==
  /\ Running /\ Now.op = "fetch" /\ Now.cell \in Query
  /\ ret = None
  /\ IF OnStack(Now.cell)
     THEN Panic
     ELSE /\ ctl' = Append(ctl, Activate("validate", Now.cell, Len(stack)))
          /\ UNCHANGED <<rev, slots, stack, ret>>

(* The tail of getLocked for a caller inside a body. *)
FetchReturn ==
  /\ Running /\ Now.op = "fetch" /\ Now.cell \in Query
  /\ ret # None
  /\ Answered(slots[Now.cell].value)

(* Mutant: cuts off whenever there is an old slot. *)
StampAlwaysKept(c, v) == IF slots[c] # NoSlot THEN slots[c].computedAt ELSE rev

(* The stamp of a new slot: an equal hash keeps the old one (early cutoff). *)
StampOf(c, v) ==
  IF slots[c] # NoSlot /\ c \in Hashed /\ Same(c, v, slots[c].value)
  THEN slots[c].computedAt
  ELSE rev

(* Mutant: forgets popFrame. *)
FinishBodyNoPop ==
  /\ Running /\ Now.op = "return"
  /\ slots' = [slots EXCEPT ![Top.cell] =
       [value |-> Now.val, computedAt |-> StampOf(Top.cell, Now.val),
        verifiedAt |-> rev, deps |-> stack[Top.parent + 1].deps]]
  /\ ReturnSlot
  /\ UNCHANGED <<rev, stack>>

(* The body returns: pop its frame, store the slot, return it. *)
FinishBody ==
  /\ Running /\ Now.op = "return"
  /\ stack' = Pop(stack)
  /\ slots' = [slots EXCEPT ![Top.cell] =
       [value |-> Now.val, computedAt |-> StampOf(Top.cell, Now.val),
        verifiedAt |-> rev, deps |-> stack[Top.parent + 1].deps]]
  /\ ReturnSlot
  /\ UNCHANGED rev

-----------------------------------------------------------------------------

Client ==
  \/ \E q \in Query : Get(q)
  \/ \E i \in Input : GetInput(i) \/ Clear(i)
  \/ \E i \in Input, v \in Val : Set(i, v)

Step ==
  \/ GetReturn \/ Miss \/ Hit \/ StartWalk
  \/ WalkDescend \/ WalkNext \/ WalkStale \/ WalkDone
  \/ FetchInput \/ FetchMissing \/ HasFetch
  \/ FetchQuery \/ FetchReturn \/ FinishBody

Next == Client \/ Step

(* Callers owe the engine nothing; a goroutine inside an operation is       *)
(* never blocked (it holds the only lock), so it keeps running.             *)
Spec == Init /\ [][Next]_vars /\ WF_vars(Step)

-----------------------------------------------------------------------------
(***************************************************************************)
(* A cell is not computed while it is already being computed: checkCycle    *)
(* turns the second attempt into a CycleError.                              *)
(***************************************************************************)
SingleComputation ==
  \A j, k \in DOMAIN ctl :
    (ctl[j].pc = "run" /\ ctl[k].pc = "run" /\ ctl[j].cell = ctl[k].cell) => j = k

=============================================================================
