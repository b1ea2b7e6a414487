---------------------------- MODULE AcyclicEngine ----------------------------
(***************************************************************************)
(* The query engine over bodies that do not call each other in a circle,    *)
(* and what it promises for them: the slots of a revision are what the      *)
(* bodies would compute from the inputs of that revision.                   *)
(***************************************************************************)
EXTENDS QueryEngine

CONSTANTS
  Owner,  \* [Point -> Query]: the body a point belongs to
  Rank    \* [Query -> Nat]: a body only reads queries of a lower rank

ASSUME AcyclicAssumption ==
  /\ Owner \in [Point -> Query]
  /\ Rank \in [Query -> Nat]
  /\ \A q \in Query : Owner[Entry[q]] = q
  /\ \A p \in Point : Code[p].op # "return" =>
       \A v \in Seen : Owner[Jump(p, v)] = Owner[p]
  /\ \A p \in Point : (Code[p].op = "fetch" /\ Code[p].cell \in Query) =>
       Rank[Code[p].cell] < Rank[Owner[p]]

TypeOK ==
  /\ rev \in Nat
  /\ slots \in [Cell -> Slot \cup {NoSlot}]
  /\ stack \in Seq(Frame)
  /\ ctl \in Seq(Activation)
  /\ ret \in Query \cup {None}

-----------------------------------------------------------------------------
(* What it means for a slot to be explained by the current state *)

(* The read d made by a body would be answered today as it was then. *)
Current(d) ==
  LET s == slots[d.cell] IN
  /\ Code[d.at].op = "has" => d.seen = (IF s = NoSlot THEN Absent ELSE Present)
  /\ Code[d.at].op = "fetch" => s # NoSlot /\ Same(d.cell, s.value, d.seen)

(* deps are the reads of a run of q that starts at its entry and, each read *)
(* answered as recorded, has come to point p.                               *)
Follows(q, deps, p) ==
  /\ deps = <<>> => p = Entry[q]
  /\ deps # <<>> => /\ deps[1].at = Entry[q]
                    /\ p = Jump(deps[Len(deps)].at, deps[Len(deps)].seen)
  /\ \A k \in 1..Len(deps) :
       /\ Code[deps[k].at].op \in {"fetch", "has"}
       /\ Code[deps[k].at].cell = deps[k].cell
       /\ k < Len(deps) => deps[k + 1].at = Jump(deps[k].at, deps[k].seen)

(* deps and v are the reads and the result of a whole run of q. *)
Explains(q, deps, v) ==
  \E p \in Point : /\ Follows(q, deps, p)
                   /\ Code[p].op = "return"
                   /\ Code[p].val = v

Verified(c) == slots[c] # NoSlot /\ slots[c].verifiedAt = rev

(***************************************************************************)
(* From-scratch consistency.  A query slot verified at the current          *)
(* revision holds what the body returns when it is run now: it is the       *)
(* result of a run of the body whose every read is answered by the current  *)
(* inputs and by query slots that are themselves verified at this revision  *)
(* (validateOrRunLocked: "guaranteed to be verified at db.rev").            *)
(***************************************************************************)
Consistent ==
  \A q \in Query : Verified(q) =>
    /\ Explains(q, slots[q].deps, slots[q].value)
    /\ \A k \in 1..Len(slots[q].deps) :
         LET d == slots[q].deps[k] IN
         /\ Current(d)
         /\ d.cell \in Query => Verified(d.cell)

(***************************************************************************)
(* The stamps obey the Salsa order of slot.go: produced no later than       *)
(* verified, verified no later than now, and no edge is newer than the      *)
(* slot that recorded it.                                                   *)
(***************************************************************************)
StampOrder ==
  \A c \in Cell : slots[c] # NoSlot =>
    /\ slots[c].computedAt <= slots[c].verifiedAt
    /\ slots[c].verifiedAt <= rev
    /\ \A k \in 1..Len(slots[c].deps) :
         slots[c].deps[k].changedAt <= slots[c].verifiedAt

(***************************************************************************)
(* No body is run for a cell whose slot is already good at this revision    *)
(* (one execution per cell and revision, whatever path leads to it), nor    *)
(* for a cell that is already being computed.                               *)
(***************************************************************************)
NoRedundantRun ==
  /\ \A k \in DOMAIN ctl : ctl[k].pc = "run" => ~Verified(ctl[k].cell)
  /\ SingleComputation

(***************************************************************************)
(* Once a query slot is verified at a revision, no step within that         *)
(* revision replaces its value, its stamp or its deps: everything a body    *)
(* read before a later step of the same Get stays what it was.              *)
(***************************************************************************)
StableWithinRevision ==
  [][\A q \in Query : (Verified(q) /\ rev' = rev) => slots'[q] = slots[q]]_vars

(***************************************************************************)
(* Every operation that takes the mutex gives it back: each Get returns or  *)
(* panics.                                                                  *)
(***************************************************************************)
GetTerminates == (ctl # <<>>) ~> (ctl = <<>>)

-----------------------------------------------------------------------------
(***************************************************************************)
(* The inductive invariant                                                 *)
(*                                                                         *)
(* A recorded edge is sound: if the dep-walk's test finds it unmoved, the   *)
(* read would be answered as it was.  It stays sound because an edge to a   *)
(* query is never newer than the stamp of that query, and a new stamp is    *)
(* the current revision, which only a slot verified earlier can receive.    *)
(***************************************************************************)
SoundEdge(d, q) ==
  /\ Code[d.at].op \in {"fetch", "has"}
  /\ Code[d.at].cell = d.cell
  /\ Code[d.at].op = "fetch" => d.seen \in Val
  /\ Owner[d.at] = q
  /\ d.changedAt <= rev
  /\ d.cell \in Query => /\ slots[d.cell] # NoSlot
                         /\ d.changedAt <= slots[d.cell].computedAt
  /\ (d.cell \in Input /\ d.changedAt = 0) => Code[d.at].op = "has" /\ d.seen = Absent
  /\ ~Changed(slots[d.cell], d) => Current(d)

(* The dep-walk would pass over d at this revision. *)
Unmoved(d) ==
  /\ ~Changed(slots[d.cell], d)
  /\ d.cell \in Query => Verified(d.cell)

(* An input's slot was stamped by the Set that wrote it, never at revision 0. *)
InputSlots ==
  \A i \in Input : slots[i] # NoSlot =>
    /\ 0 < slots[i].computedAt
    /\ slots[i].computedAt = slots[i].verifiedAt
    /\ slots[i].verifiedAt <= rev
    /\ slots[i].deps = <<>>

QuerySlots ==
  \A q \in Query : slots[q] # NoSlot =>
    /\ slots[q].computedAt <= slots[q].verifiedAt
    /\ slots[q].verifiedAt <= rev
    /\ Explains(q, slots[q].deps, slots[q].value)
    /\ \A k \in 1..Len(slots[q].deps) :
         /\ SoundEdge(slots[q].deps[k], q)
         /\ slots[q].deps[k].changedAt <= slots[q].verifiedAt
         /\ slots[q].verifiedAt = rev => Unmoved(slots[q].deps[k])

(* Activation a is waiting for the slot of query c. *)
Awaits(a, c) ==
  \/ a.pc = "client" /\ a.cell = c
  \/ /\ a.pc = "walk"
     /\ a.i <= Len(slots[a.cell].deps)
     /\ slots[a.cell].deps[a.i].cell = c
  \/ /\ a.pc = "run"
     /\ Code[a.point].op = "fetch"
     /\ Code[a.point].cell = c

(* Frames in use once activation a has been entered. *)
FramesOf(a) == IF a.pc = "run" THEN a.parent + 1 ELSE a.parent

(* Callers wait for their callees, frames match the bodies being run, and   *)
(* ranks fall along the chain of validations.                               *)
CallChain ==
  /\ \A k \in 1..Len(ctl) : (k = 1) <=> (ctl[k].pc = "client")
  /\ \A k \in 1..(Len(ctl) - 1) :
       /\ Awaits(ctl[k], ctl[k + 1].cell)
       /\ ctl[k + 1].parent = FramesOf(ctl[k])
  /\ \A j, k \in 1..Len(ctl) : j < k =>
       /\ FramesOf(ctl[j]) <= ctl[k].parent
       /\ 1 < j => Rank[ctl[k].cell] < Rank[ctl[j].cell]
  /\ ctl # <<>> => Len(stack) = FramesOf(Top)

(* A dep-walk has passed over the deps before i, and its slot is old. *)
WalkOK(a) ==
  /\ slots[a.cell] # NoSlot
  /\ slots[a.cell].verifiedAt # rev
  /\ a.i \in 1..(Len(slots[a.cell].deps) + 1)
  /\ \A j \in 1..(a.i - 1) : Unmoved(slots[a.cell].deps[j])

(* A body has come to its point by the reads on its frame f, all made at    *)
(* this revision, and its slot is missing or old.                           *)
RunOK(a, f) ==
  /\ ~Verified(a.cell)
  /\ f.cell = a.cell
  /\ Owner[a.point] = a.cell
  /\ Follows(a.cell, f.deps, a.point)
  /\ \A j \in 1..Len(f.deps) : SoundEdge(f.deps[j], a.cell) /\ Unmoved(f.deps[j])

Walks == \A k \in 1..Len(ctl) : ctl[k].pc = "walk" => WalkOK(ctl[k])

Runs ==
  \A k \in 1..Len(ctl) : ctl[k].pc = "run" =>
    /\ ctl[k].parent + 1 <= Len(stack)
    /\ RunOK(ctl[k], stack[ctl[k].parent + 1])

(* A returned slot is verified and is the one the caller waits for. *)
Returned ==
  /\ ret # None => ctl # <<>> /\ Verified(ret) /\ Awaits(Top, ret)
  /\ (ctl # <<>> /\ Top.pc = "client") => ret # None

(***************************************************************************)
(* All of it together: the invariant from which the properties above        *)
(* follow, and that every step of the engine preserves.                     *)
(***************************************************************************)
IInv == TypeOK /\ InputSlots /\ QuerySlots /\ CallChain /\ Walks /\ Runs /\ Returned

=============================================================================
