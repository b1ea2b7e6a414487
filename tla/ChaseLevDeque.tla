---------------------------- MODULE ChaseLevDeque ----------------------------
(***************************************************************************)
(* The per-worker work-stealing deque of the runtime scheduler             *)
(* (internal/backend/runtime/osty_runtime.c, osty_rt_deque).  One step is  *)
(* one atomic access of top, bottom or a slot; bottom and the slots are    *)
(* written by the owner only, so its own reads of them need no step.  The  *)
(* accesses are interleaved as if sequentially consistent.                 *)
(***************************************************************************)
EXTENDS Integers, Sequences

CONSTANTS Task, Thief, Owner, Inject, Nobody, NoTask,
          Cap   \* OSTY_SCHED_DEQUE_CAP

ASSUME CapAssumption == Cap \in Nat \ {0}
ASSUME NameAssumption == /\ Owner \notin Thief
                         /\ Inject \notin Thief
                         /\ Nobody \notin Thief
                         /\ Owner # Inject
                         /\ Nobody \notin {Owner, Inject}
                         /\ NoTask \notin Task

VARIABLES top, bottom,  \* the two cursors, never reduced modulo Cap
          slots,        \* the ring
          pc,           \* where the owner is in push or pop
          otask,        \* the owner's local item: t of push, x of pop
          spc, stp, sx, \* each thief's place, and its locals tp and x
          fresh, taken, got   \* history, as in WorkDeque

ownerVars == <<bottom, slots, pc, otask>>
thiefVars == <<spc, stp, sx>>
vars == <<top, ownerVars, thiefVars, fresh, taken, got>>

Slot(i) == i % Cap

OwnerAt == {"idle", "store", "publish", "popRead", "popCas", "popRestore"}
ThiefAt == {"idle", "readBottom", "readSlot", "cas"}

TypeOK == /\ top \in Nat
          /\ bottom \in Int
          /\ slots \in [0 .. Cap - 1 -> Task \union {NoTask}]
          /\ pc \in OwnerAt
          /\ otask \in Task \union {NoTask}
          /\ spc \in [Thief -> ThiefAt]
          /\ stp \in [Thief -> Nat]
          /\ sx \in [Thief -> Task \union {NoTask}]
          /\ fresh \in SUBSET Task
          /\ taken \in [Task -> Thief \union {Owner, Inject, Nobody}]
          /\ got \in Task \union {NoTask}

Init == /\ top = 0
        /\ bottom = 0
        /\ slots = [i \in 0 .. Cap - 1 |-> NoTask]
        /\ pc = "idle"
        /\ otask = NoTask
        /\ spc = [i \in Thief |-> "idle"]
        /\ stp = [i \in Thief |-> 0]
        /\ sx = [i \in Thief |-> NoTask]
        /\ fresh = Task
        /\ taken = [t \in Task |-> Nobody]
        /\ got = NoTask

------------------------------------------------------------------------------
(* osty_rt_deque_push, by the owner *)

\* Mutant: one item too many.
PushRoomOffByOne == bottom - top =< Cap

\* Room by the current top; otherwise -1 and the caller uses the inject queue.
PushRoom == bottom - top < Cap

PushCheck(t) ==
    /\ pc = "idle"
    /\ t \in fresh
    /\ \/ /\ PushRoom
          /\ pc' = "store"
          /\ otask' = t
          /\ UNCHANGED taken
       \/ /\ ~PushRoom
          /\ taken' = [taken EXCEPT ![t] = Inject]
          /\ UNCHANGED <<pc, otask>>
    /\ fresh' = fresh \ {t}
    /\ UNCHANGED <<top, bottom, slots, thiefVars, got>>

PushStore ==
    /\ pc = "store"
    /\ slots' = [slots EXCEPT ![Slot(bottom)] = otask]
    /\ pc' = "publish"
    /\ UNCHANGED <<top, bottom, otask, thiefVars, fresh, taken, got>>

PushPublish ==
    /\ pc = "publish"
    /\ bottom' = bottom + 1
    /\ pc' = "idle"
    /\ UNCHANGED <<top, slots, otask, thiefVars, fresh, taken, got>>

------------------------------------------------------------------------------
(* osty_rt_deque_pop, by the owner *)

PopReserve ==
    /\ pc = "idle"
    /\ bottom' = bottom - 1
    /\ pc' = "popRead"
    /\ UNCHANGED <<top, slots, otask, thiefVars, fresh, taken, got>>

PopRead ==
    /\ pc = "popRead"
    /\ \/ /\ top < bottom
          /\ got' = slots[Slot(bottom)]
          /\ taken' = [taken EXCEPT ![slots[Slot(bottom)]] = Owner]
          /\ pc' = "idle"
          /\ UNCHANGED otask
       \/ /\ top = bottom
          /\ otask' = slots[Slot(bottom)]
          /\ pc' = "popCas"
          /\ UNCHANGED <<taken, got>>
       \/ /\ top > bottom
          /\ got' = NoTask
          /\ pc' = "popRestore"
          /\ UNCHANGED <<taken, otask>>
    /\ UNCHANGED <<top, bottom, slots, thiefVars, fresh>>

\* Mutant: the last element is taken without the compare-and-swap.
PopCasMissing ==
    /\ pc = "popCas"
    /\ got' = otask
    /\ taken' = [taken EXCEPT ![otask] = Owner]
    /\ pc' = "popRestore"
    /\ UNCHANGED <<top, bottom, slots, otask, thiefVars, fresh>>

\* The last element: the owner takes it only if it still finds it at the top.
PopCas ==
    /\ pc = "popCas"
    /\ \/ /\ top = bottom
          /\ top' = top + 1
          /\ got' = otask
          /\ taken' = [taken EXCEPT ![otask] = Owner]
       \/ /\ top # bottom
          /\ got' = NoTask
          /\ UNCHANGED <<top, taken>>
    /\ pc' = "popRestore"
    /\ UNCHANGED <<bottom, slots, otask, thiefVars, fresh>>

PopRestore ==
    /\ pc = "popRestore"
    /\ bottom' = bottom + 1
    /\ pc' = "idle"
    /\ UNCHANGED <<top, slots, otask, thiefVars, fresh, taken, got>>

------------------------------------------------------------------------------
(* osty_rt_deque_steal, by any other thread *)

StealReadTop(i) ==
    /\ spc[i] = "idle"
    /\ stp' = [stp EXCEPT ![i] = top]
    /\ spc' = [spc EXCEPT ![i] = "readBottom"]
    /\ UNCHANGED <<top, ownerVars, sx, fresh, taken, got>>

StealReadBottom(i) ==
    /\ spc[i] = "readBottom"
    /\ spc' = [spc EXCEPT ![i] = IF stp[i] >= bottom THEN "idle" ELSE "readSlot"]
    /\ UNCHANGED <<top, ownerVars, stp, sx, fresh, taken, got>>

StealReadSlot(i) ==
    /\ spc[i] = "readSlot"
    /\ sx' = [sx EXCEPT ![i] = slots[Slot(stp[i])]]
    /\ spc' = [spc EXCEPT ![i] = "cas"]
    /\ UNCHANGED <<top, ownerVars, stp, fresh, taken, got>>

StealCas(i) ==
    /\ spc[i] = "cas"
    /\ \/ /\ top = stp[i]
          /\ top' = top + 1
          /\ taken' = [taken EXCEPT ![sx[i]] = i]
       \/ /\ top # stp[i]
          /\ UNCHANGED <<top, taken>>
    /\ spc' = [spc EXCEPT ![i] = "idle"]
    /\ UNCHANGED <<ownerVars, stp, sx, fresh, got>>

------------------------------------------------------------------------------
OwnerStep == \/ \E t \in Task : PushCheck(t)
             \/ PushStore
             \/ PushPublish
             \/ PopReserve
             \/ PopRead
             \/ PopCas
             \/ PopRestore

ThiefStep(i) == \/ StealReadTop(i)
                \/ StealReadBottom(i)
                \/ StealReadSlot(i)
                \/ StealCas(i)

Next == OwnerStep \/ \E i \in Thief : ThiefStep(i)

Spec == Init /\ [][Next]_vars

------------------------------------------------------------------------------
(* The refinement *)

\* A pop reserves an element by decrementing bottom before it knows whether
\* it may have it; until it knows, the element still counts as queued.
End == IF pc \in {"popRead", "popCas", "popRestore"} THEN bottom + 1 ELSE bottom

Queued == [i \in 1 .. End - top |-> slots[Slot(top + i - 1)]]

\* An item that push has not published yet counts as not spawned.
Unpublished == IF pc \in {"store", "publish"} THEN {otask} ELSE {}

D == INSTANCE WorkDeque WITH q <- Queued, fresh <- fresh \union Unpublished

\* The lock-free deque behaves like an atomic sequence: every item pushed is
\* handed to exactly one thread, the owner's from the young end and thieves'
\* from the old end, and pop reports "empty" only when the deque is empty.
ImplementsWorkDeque == D!DSpec

------------------------------------------------------------------------------
(* The inductive invariant *)

Window == top .. End - 1

Room == /\ top =< End
        /\ End - top =< Cap
        /\ pc \in {"store", "publish"} => End - top < Cap

\* What lies between the cursors is queued once and taken by nobody.
QueuedOnce ==
    /\ \A k \in Window : /\ slots[Slot(k)] \in Task \ fresh
                         /\ taken[slots[Slot(k)]] = Nobody
    /\ \A k, m \in Window : slots[Slot(k)] = slots[Slot(m)] => k = m

FreshUntaken == \A t \in fresh : taken[t] = Nobody

OwnerLocal ==
    /\ pc \in {"store", "publish"} =>
         /\ otask \in Task \ fresh
         /\ taken[otask] = Nobody
         /\ \A k \in Window : slots[Slot(k)] # otask
    /\ pc = "publish" => slots[Slot(bottom)] = otask
    /\ pc = "popCas" => /\ top \in {bottom, bottom + 1}
                        /\ otask = slots[Slot(bottom)]
    /\ pc = "popRestore" => top = bottom + 1

\* A thief whose compare-and-swap can still succeed holds the item at the top.
ThiefLocal ==
    \A i \in Thief :
      /\ spc[i] \in {"readBottom", "readSlot", "cas"} => stp[i] =< top
      /\ spc[i] \in {"readSlot", "cas"} /\ stp[i] = top => top < End
      /\ spc[i] = "cas" /\ stp[i] = top => sx[i] = slots[Slot(top)]

\* What the proof carries through every step: the cursors enclose exactly the
\* queued items, and the locals of owner and thieves, read some steps ago, are
\* still right wherever a later step of osty_rt_deque_pop or _steal relies on them.
IInv == TypeOK /\ Room /\ QueuedOnce /\ FreshUntaken /\ OwnerLocal /\ ThiefLocal
==============================================================================
