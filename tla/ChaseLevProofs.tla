--------------------------- MODULE ChaseLevProofs ----------------------------
(***************************************************************************)
(* For every ring size, every set of tasks and every set of thieves, the   *)
(* deque keeps its invariant and implements the atomic deque of WorkDeque. *)
(***************************************************************************)
EXTENDS ChaseLevDeque, SequenceTheorems, TLAPS

(* Integer division with a positive divisor. *)
LEMMA DivMod ==
  ASSUME NEW n \in Int, NEW c \in Nat \ {0}
  PROVE  /\ n = c * (n \div c) + (n % c)
         /\ n % c \in 0 .. c - 1
         /\ n \div c \in Int
OBVIOUS

(* No multiple of c lies strictly between 0 and c. *)
LEMMA NoMultiple ==
  ASSUME NEW c \in Nat \ {0}, NEW d \in Int, 0 < c * d, c * d < c
  PROVE  FALSE
<1>1. CASE d =< 0
  <2>1. c * d =< 0
    BY <1>1
  <2>2. QED
    BY <2>1
<1>2. CASE d >= 1
  <2>1. c * d >= c
    BY <1>2
  <2>2. QED
    BY <2>1
<1>3. QED
  BY <1>1, <1>2

(* Two cursors less than Cap apart use different slots of the ring. *)
LEMMA SlotDistinct ==
  ASSUME NEW i \in Int, NEW j \in Int, i < j, j < i + Cap
  PROVE  Slot(i) # Slot(j)
<1> DEFINE a == i \div Cap
           b == j \div Cap
<1>1. a \in Int /\ b \in Int /\ i % Cap \in Int /\ j % Cap \in Int
  BY CapAssumption, DivMod
<1>2. i = Cap * a + (i % Cap) /\ j = Cap * b + (j % Cap)
  BY CapAssumption, DivMod
<1> HIDE DEF a, b
<1>3. SUFFICES ASSUME i % Cap = j % Cap PROVE FALSE
  BY DEF Slot
<1>4. j - i = Cap * b - Cap * a
  BY <1>1, <1>2, <1>3, CapAssumption
<1>5. Cap * b - Cap * a = Cap * (b - a)
  BY <1>1, CapAssumption
<1>6. QED
  BY <1>1, <1>4, <1>5, CapAssumption, NoMultiple

(* Every cursor names a slot of the ring. *)
LEMMA SlotType ==
  ASSUME NEW i \in Int
  PROVE  Slot(i) \in 0 .. Cap - 1
BY CapAssumption, DivMod DEF Slot

(* The invariant holds when the deque has been initialised. *)
LEMMA InitInv == Init => IInv
BY CapAssumption, NameAssumption
   DEF Init, IInv, TypeOK, Room, QueuedOnce, FreshUntaken, OwnerLocal, ThiefLocal,
       Window, End, OwnerAt, ThiefAt

(* A queued item is a task that nobody has been given. *)
LEMMA WindowFacts ==
  ASSUME IInv, NEW k \in Window
  PROVE  /\ k \in Int
         /\ slots[Slot(k)] \in Task \ fresh
         /\ taken[slots[Slot(k)]] = Nobody
         /\ \A m \in Window : slots[Slot(m)] = slots[Slot(k)] => m = k
BY DEF IInv, TypeOK, QueuedOnce, Window, End

(* osty_rt_deque_push looks for room. *)
LEMMA PushCheckKeeps ==
  ASSUME IInv, NEW t \in Task, PushCheck(t)
  PROVE  IInv'
<1>1. TypeOK'
  BY CapAssumption, NameAssumption, SlotType
     DEF IInv, TypeOK, OwnerLocal, ThiefLocal, Window, End,
         PushCheck, PushRoom, ownerVars, thiefVars, OwnerAt, ThiefAt
<1> USE CapAssumption, NameAssumption
        DEF IInv, TypeOK, Room, QueuedOnce, FreshUntaken, OwnerLocal, ThiefLocal, Window, End,
            PushCheck, PushRoom, ownerVars, thiefVars, OwnerAt, ThiefAt
<1>2. Room'
  BY SlotType
<1>3. QueuedOnce'
  BY SlotType
<1>4. FreshUntaken'
  BY SlotType
<1>5. OwnerLocal'
  BY SlotType
<1>6. ThiefLocal'
  BY SlotType
<1>7. QED
  BY <1>1, <1>2, <1>3, <1>4, <1>5, <1>6

(* The new item goes to the slot behind the queued ones. *)
LEMMA PushStoreKeeps ==
  ASSUME IInv, PushStore
  PROVE  IInv'
<1>1. TypeOK'
  BY CapAssumption, NameAssumption, SlotType
     DEF IInv, TypeOK, OwnerLocal, ThiefLocal, Window, End,
         PushStore, ownerVars, thiefVars, OwnerAt, ThiefAt
<1> USE CapAssumption, NameAssumption
        DEF IInv, TypeOK, Room, QueuedOnce, FreshUntaken, OwnerLocal, ThiefLocal, Window, End,
            PushStore, ownerVars, thiefVars, OwnerAt, ThiefAt
<1>2. Room'
  BY SlotType
<1>3. QueuedOnce'
  <2>1. Window' = Window /\ \A k \in Window : slots'[Slot(k)] = slots[Slot(k)]
    BY SlotType, SlotDistinct
  <2>2. QED
    BY <2>1
<1>4. FreshUntaken'
  BY SlotType
<1>5. OwnerLocal'
  BY SlotType, SlotDistinct
<1>6. ThiefLocal'
  BY SlotType, SlotDistinct
<1>7. QED
  BY <1>1, <1>2, <1>3, <1>4, <1>5, <1>6

(* Publishing makes the new item the youngest. *)
LEMMA PushPublishKeeps ==
  ASSUME IInv, PushPublish
  PROVE  IInv'
<1>1. TypeOK'
  BY CapAssumption, NameAssumption, SlotType
     DEF IInv, TypeOK, OwnerLocal, ThiefLocal, Window, End,
         PushPublish, ownerVars, thiefVars, OwnerAt, ThiefAt
<1> USE CapAssumption, NameAssumption
        DEF IInv, TypeOK, Room, QueuedOnce, FreshUntaken, OwnerLocal, ThiefLocal, Window, End,
            PushPublish, ownerVars, thiefVars, OwnerAt, ThiefAt
<1>2. Room'
  BY SlotType
<1>3. QueuedOnce'
  <2>1. /\ Window' = Window \union {bottom}
        /\ slots[Slot(bottom)] = otask
        /\ \A k \in Window : slots[Slot(k)] # otask
    OBVIOUS
  <2>2. \A k \in Window' : /\ slots[Slot(k)] \in Task \ fresh
                           /\ taken[slots[Slot(k)]] = Nobody
    BY <2>1, WindowFacts
  <2>3. \A k, m \in Window' : slots[Slot(k)] = slots[Slot(m)] => k = m
    BY <2>1, WindowFacts
  <2>4. UNCHANGED <<slots, fresh, taken>>
    OBVIOUS
  <2> HIDE DEF Window
  <2>5. QED
    BY <2>2, <2>3, <2>4
<1>4. FreshUntaken'
  BY SlotType
<1>5. OwnerLocal'
  BY SlotType
<1>6. ThiefLocal'
  BY SlotType
<1>7. QED
  BY <1>1, <1>2, <1>3, <1>4, <1>5, <1>6

(* Decrementing bottom leaves the queue as it is. *)
LEMMA PopReserveKeeps ==
  ASSUME IInv, PopReserve
  PROVE  IInv'
<1>1. TypeOK'
  BY CapAssumption, NameAssumption, SlotType
     DEF IInv, TypeOK, OwnerLocal, ThiefLocal, Window, End,
         PopReserve, ownerVars, thiefVars, OwnerAt, ThiefAt
<1> USE CapAssumption, NameAssumption
        DEF IInv, TypeOK, Room, QueuedOnce, FreshUntaken, OwnerLocal, ThiefLocal, Window, End,
            PopReserve, ownerVars, thiefVars, OwnerAt, ThiefAt
<1>2. Room'
  BY SlotType
<1>3. QueuedOnce'
  BY SlotType
<1>4. FreshUntaken'
  BY SlotType
<1>5. OwnerLocal'
  BY SlotType
<1>6. ThiefLocal'
  BY SlotType
<1>7. QED
  BY <1>1, <1>2, <1>3, <1>4, <1>5, <1>6

(* With two items or more the owner takes the youngest. *)
LEMMA PopReadKeeps ==
  ASSUME IInv, PopRead
  PROVE  IInv'
<1>1. TypeOK'
  BY CapAssumption, NameAssumption, SlotType
     DEF IInv, TypeOK, OwnerLocal, ThiefLocal, Window, End,
         PopRead, ownerVars, thiefVars, OwnerAt, ThiefAt
<1> USE CapAssumption, NameAssumption
        DEF IInv, TypeOK, Room, QueuedOnce, FreshUntaken, OwnerLocal, ThiefLocal, Window, End,
            PopRead, ownerVars, thiefVars, OwnerAt, ThiefAt
<1>2. Room'
  BY SlotType
<1>3. QueuedOnce'
  <2>1. CASE top < bottom
    <3>1. Window' = Window \ {bottom} /\ bottom \in Window
      BY <2>1
    <3>2. \A k \in Window' : taken'[slots[Slot(k)]] = Nobody
      BY <2>1, <3>1, WindowFacts
    <3>3. QED
      BY <2>1, <3>1, <3>2
  <2>2. CASE ~(top < bottom)
    BY <2>2
  <2>3. QED
    BY <2>1, <2>2
<1>4. FreshUntaken'
  BY WindowFacts
<1>5. OwnerLocal'
  BY SlotType
<1>6. ThiefLocal'
  BY SlotType
<1>7. QED
  BY <1>1, <1>2, <1>3, <1>4, <1>5, <1>6

(* On the last item the owner competes with the thieves. *)
LEMMA PopCasKeeps ==
  ASSUME IInv, PopCas
  PROVE  IInv'
<1> USE CapAssumption, NameAssumption
        DEF IInv, TypeOK, Room, QueuedOnce, FreshUntaken, OwnerLocal, ThiefLocal, Window, End,
            PopCas, ownerVars, thiefVars, OwnerAt, ThiefAt
<1>1. CASE top = bottom
  <2>1. top \in Window /\ Window = {top} /\ otask \in Task \ fresh
    BY <1>1
  <2>2. /\ top' = top + 1 /\ got' = otask
        /\ taken' = [taken EXCEPT ![otask] = Owner]
    BY <1>1
  <2>3. TypeOK'
    BY <2>1, <2>2
  <2>4. Room' /\ Window' = {} /\ OwnerLocal' /\ FreshUntaken'
    BY <1>1, <2>1, <2>2
  <2>5. QueuedOnce'
    BY <2>4
  <2>6. ThiefLocal'
    BY <2>2, <1>1
  <2>7. QED
    BY <2>3, <2>4, <2>5, <2>6
<1>2. CASE top # bottom
  <2>1. top = bottom + 1 /\ UNCHANGED <<top, taken>> /\ got' = NoTask /\ Window' = {}
    BY <1>2
  <2>2. TypeOK'
    BY <2>1
  <2>3. Room' /\ QueuedOnce' /\ FreshUntaken' /\ OwnerLocal'
    BY <2>1
  <2>4. ThiefLocal'
    BY <2>1
  <2>5. QED
    BY <2>2, <2>3, <2>4
<1>3. QED
  BY <1>1, <1>2

(* Restoring bottom leaves the queue empty. *)
LEMMA PopRestoreKeeps ==
  ASSUME IInv, PopRestore
  PROVE  IInv'
<1>1. TypeOK'
  BY CapAssumption, NameAssumption, SlotType
     DEF IInv, TypeOK, OwnerLocal, ThiefLocal, Window, End,
         PopRestore, ownerVars, thiefVars, OwnerAt, ThiefAt
<1> USE CapAssumption, NameAssumption
        DEF IInv, TypeOK, Room, QueuedOnce, FreshUntaken, OwnerLocal, ThiefLocal, Window, End,
            PopRestore, ownerVars, thiefVars, OwnerAt, ThiefAt
<1>2. Room'
  BY SlotType
<1>3. QueuedOnce'
  BY SlotType
<1>4. FreshUntaken'
  BY SlotType
<1>5. OwnerLocal'
  BY SlotType
<1>6. ThiefLocal'
  BY SlotType
<1>7. QED
  BY <1>1, <1>2, <1>3, <1>4, <1>5, <1>6

(* A thief notes the oldest position. *)
LEMMA StealReadTopKeeps ==
  ASSUME IInv, NEW i \in Thief, StealReadTop(i)
  PROVE  IInv'
<1>1. TypeOK'
  BY CapAssumption, NameAssumption, SlotType
     DEF IInv, TypeOK, OwnerLocal, ThiefLocal, Window, End,
         StealReadTop, ownerVars, thiefVars, OwnerAt, ThiefAt
<1> USE CapAssumption, NameAssumption
        DEF IInv, TypeOK, Room, QueuedOnce, FreshUntaken, OwnerLocal, ThiefLocal, Window, End,
            StealReadTop, ownerVars, thiefVars, OwnerAt, ThiefAt
<1>2. Room'
  BY SlotType
<1>3. QueuedOnce'
  BY SlotType
<1>4. FreshUntaken'
  BY SlotType
<1>5. OwnerLocal'
  BY SlotType
<1>6. ThiefLocal'
  BY SlotType
<1>7. QED
  BY <1>1, <1>2, <1>3, <1>4, <1>5, <1>6

(* A thief goes on only if it sees an item behind its position. *)
LEMMA StealReadBottomKeeps ==
  ASSUME IInv, NEW i \in Thief, StealReadBottom(i)
  PROVE  IInv'
<1>1. TypeOK'
  BY CapAssumption, NameAssumption, SlotType
     DEF IInv, TypeOK, OwnerLocal, ThiefLocal, Window, End,
         StealReadBottom, ownerVars, thiefVars, OwnerAt, ThiefAt
<1> USE CapAssumption, NameAssumption
        DEF IInv, TypeOK, Room, QueuedOnce, FreshUntaken, OwnerLocal, ThiefLocal, Window, End,
            StealReadBottom, ownerVars, thiefVars, OwnerAt, ThiefAt
<1>2. Room'
  BY SlotType
<1>3. QueuedOnce'
  BY SlotType
<1>4. FreshUntaken'
  BY SlotType
<1>5. OwnerLocal'
  BY SlotType
<1>6. ThiefLocal'
  <2>1. \A j \in Thief : spc'[j] \in {"readSlot", "cas"} /\ stp[j] = top => top < End
    OBVIOUS
  <2>2. \A j \in Thief : spc'[j] \in {"readBottom", "readSlot", "cas"} => stp[j] =< top
    OBVIOUS
  <2>3. \A j \in Thief : spc'[j] = "cas" => spc[j] = "cas"
    OBVIOUS
  <2>4. QED
    BY <2>1, <2>2, <2>3
<1>7. QED
  BY <1>1, <1>2, <1>3, <1>4, <1>5, <1>6

(* A thief reads the slot at its position. *)
LEMMA StealReadSlotKeeps ==
  ASSUME IInv, NEW i \in Thief, StealReadSlot(i)
  PROVE  IInv'
<1>1. TypeOK'
  BY CapAssumption, NameAssumption, SlotType
     DEF IInv, TypeOK, StealReadSlot, ownerVars, thiefVars, OwnerAt, ThiefAt
<1> USE CapAssumption, NameAssumption
        DEF IInv, TypeOK, Room, QueuedOnce, FreshUntaken, OwnerLocal, ThiefLocal, Window, End,
            StealReadSlot, ownerVars, thiefVars, OwnerAt, ThiefAt
<1>2. Room'
  BY SlotType
<1>3. QueuedOnce'
  BY SlotType
<1>4. FreshUntaken'
  BY SlotType
<1>5. OwnerLocal'
  BY SlotType
<1>6. ThiefLocal'
  BY SlotType
<1>7. QED
  BY <1>1, <1>2, <1>3, <1>4, <1>5, <1>6

(* A thief whose position is still the oldest takes that item. *)
LEMMA StealCasKeeps ==
  ASSUME IInv, NEW i \in Thief, StealCas(i)
  PROVE  IInv'
<1> USE CapAssumption, NameAssumption
        DEF IInv, TypeOK, Room, QueuedOnce, FreshUntaken, OwnerLocal, ThiefLocal, Window, End,
            StealCas, ownerVars, thiefVars, OwnerAt, ThiefAt
<1>1. CASE top = stp[i]
  <2>1. top \in Window /\ Window' = Window \ {top} /\ sx[i] = slots[Slot(top)]
    BY <1>1
  <2>2. top' = top + 1 /\ taken' = [taken EXCEPT ![sx[i]] = i] /\ sx[i] \in Task \ fresh
    BY <1>1, <2>1, WindowFacts
  <2>3. TypeOK'
    BY <2>2
  <2>4. Room'
    BY <2>1, <2>2
  <2>5. QueuedOnce'
    <3>1. \A k \in Window' : slots[Slot(k)] # sx[i] /\ taken'[slots[Slot(k)]] = Nobody
      BY <2>1, <2>2, WindowFacts
    <3>2. QED
      BY <2>1, <2>2, <3>1
  <2>6. FreshUntaken'
    BY <2>2
  <2>7. OwnerLocal'
    BY <2>1, <2>2
  <2>8. ThiefLocal'
    BY <2>2
  <2>9. QED
    BY <2>3, <2>4, <2>5, <2>6, <2>7, <2>8
<1>2. CASE top # stp[i]
  <2>1. UNCHANGED <<top, taken>>
    BY <1>2
  <2>2. TypeOK' /\ Room' /\ FreshUntaken' /\ OwnerLocal'
    BY <2>1
  <2>3. QueuedOnce' /\ ThiefLocal'
    BY <2>1
  <2>4. QED
    BY <2>2, <2>3
<1>3. QED
  BY <1>1, <1>2

(* The invariant of the lock-free deque: between the cursors lie tasks that
   are queued once and taken by nobody, however owner and thieves interleave. *)
THEOREM DequeInvariant == Spec => []IInv
<1>1. IInv /\ [Next]_vars => IInv'
  <2> SUFFICES ASSUME IInv, [Next]_vars PROVE IInv'
    OBVIOUS
  <2>1. CASE UNCHANGED vars
    BY <2>1 DEF vars, ownerVars, thiefVars, IInv, TypeOK, Room, QueuedOnce, FreshUntaken,
                OwnerLocal, ThiefLocal, Window, End
  <2>2. CASE OwnerStep
    BY <2>2, PushCheckKeeps, PushStoreKeeps, PushPublishKeeps, PopReserveKeeps,
       PopReadKeeps, PopCasKeeps, PopRestoreKeeps DEF OwnerStep
  <2>3. ASSUME NEW i \in Thief, ThiefStep(i) PROVE IInv'
    BY <2>3, StealReadTopKeeps, StealReadBottomKeeps, StealReadSlotKeeps, StealCasKeeps
       DEF ThiefStep
  <2>4. QED
    BY <2>1, <2>2, <2>3 DEF Next
<1>2. QED
  BY InitInv, <1>1, PTL DEF Spec

------------------------------------------------------------------------------
(* The refinement.  Each lemma gives the step of WorkDeque that a step of the
   lock-free deque amounts to. *)

(* A function on 1 .. n is a sequence of length n. *)
LEMMA FunctionIsSeq ==
  ASSUME NEW S, NEW n \in Nat, NEW s \in [1 .. n -> S]
  PROVE  s \in Seq(S) /\ Len(s) = n
<1>1. s \in Seq(S)
  BY SeqDef
<1>2. Len(s) \in Nat /\ DOMAIN s = 1 .. Len(s) /\ DOMAIN s = 1 .. n
  BY <1>1, LenProperties
<1>3. QED
  BY <1>1, <1>2

(* The refinement mapping yields a sequence of tasks. *)
LEMMA QueuedFacts ==
  ASSUME IInv
  PROVE  /\ End \in Int /\ top \in Int /\ End - top \in Nat
         /\ Queued \in Seq(Task)
         /\ Len(Queued) = End - top
         /\ \A k \in 1 .. End - top : /\ Queued[k] = slots[Slot(top + k - 1)]
                                      /\ top + k - 1 \in Window
<1>1. End \in Int /\ top \in Int /\ End - top \in Nat
  BY DEF IInv, TypeOK, Room, End
<1> HIDE DEF End
<1>2. \A k \in 1 .. End - top : /\ Queued[k] = slots[Slot(top + k - 1)]
                                /\ top + k - 1 \in Window
  BY <1>1 DEF Queued, Window
<1>3. Queued \in [1 .. End - top -> Task]
  BY <1>1, <1>2, WindowFacts DEF Queued
<1>4. QED
  BY <1>1, <1>2, <1>3, FunctionIsSeq

(* An initialised deque is the empty queue. *)
LEMMA InitRefines == Init => D!DInit
<1> SUFFICES ASSUME Init PROVE D!DInit
  OBVIOUS
<1>1. IInv /\ End - top = 0 /\ Unpublished = {}
  BY InitInv DEF Init, End, Unpublished
<1>2. Queued = << >>
  BY <1>1, QueuedFacts, EmptySeq
<1>3. QED
  BY <1>1, <1>2 DEF Init, D!DInit

(* Steps that only touch the queue's bookkeeping leave the queue alone. *)
LEMMA SameQueue ==
  ASSUME IInv, UNCHANGED <<top, End, fresh \union Unpublished, taken, got>>,
         \A k \in Window : slots'[Slot(k)] = slots[Slot(k)]
  PROVE  UNCHANGED D!dvars
<1>1. Queued' = [k \in 1 .. End - top |-> slots'[Slot(top + k - 1)]]
  BY DEF Queued
<1>2. \A k \in 1 .. End - top : slots'[Slot(top + k - 1)] = slots[Slot(top + k - 1)]
  BY QueuedFacts
<1>3. Queued' = Queued
  BY <1>1, <1>2 DEF Queued
<1>4. QED
  BY <1>3 DEF D!dvars

(* A push that finds no room is refused by the abstract deque too. *)
LEMMA PushCheckRefines ==
  ASSUME IInv, NEW t \in Task, PushCheck(t)
  PROVE  [D!DNext]_(D!dvars)
<1>1. /\ UNCHANGED <<top, bottom, slots, got>>
      /\ t \in fresh /\ fresh' = fresh \ {t} /\ pc = "idle"
  BY DEF PushCheck
<1>2. CASE PushRoom
  <2>1. pc' = "store" /\ otask' = t /\ UNCHANGED taken
    BY <1>2 DEF PushCheck
  <2>2. UNCHANGED <<End, fresh \union Unpublished>>
    BY <1>1, <2>1 DEF End, Unpublished
  <2>3. QED
    BY <1>1, <2>1, <2>2, SameQueue
<1>3. CASE ~PushRoom
  <2>1. UNCHANGED <<pc, otask>> /\ taken' = [taken EXCEPT ![t] = Inject]
    BY <1>3 DEF PushCheck
  <2>2. Len(Queued) = Cap /\ Queued' = Queued /\ Unpublished = {} /\ Unpublished' = {}
    BY <1>1, <1>3, <2>1, QueuedFacts, CapAssumption
       DEF PushRoom, IInv, Room, End, Queued, Unpublished
  <2>3. D!Refuse(t)
    BY <1>1, <2>1, <2>2 DEF D!Refuse
  <2>4. QED
    BY <2>3 DEF D!DNext
<1>4. QED
  BY <1>2, <1>3

(* Writing the slot behind the queue changes nothing that is queued. *)
LEMMA PushStoreRefines ==
  ASSUME IInv, PushStore
  PROVE  [D!DNext]_(D!dvars)
<1>1. UNCHANGED <<top, End, fresh \union Unpublished, taken, got>>
  BY DEF PushStore, End, Unpublished
<1>2. \A k \in Window : slots'[Slot(k)] = slots[Slot(k)]
  BY SlotType, SlotDistinct, CapAssumption
     DEF PushStore, IInv, TypeOK, Room, Window, End
<1>3. QED
  BY <1>1, <1>2, SameQueue

(* A push takes effect when it publishes the new bottom. *)
LEMMA PushPublishRefines ==
  ASSUME IInv, PushPublish
  PROVE  [D!DNext]_(D!dvars)
<1>1. /\ End' = End + 1 /\ End = bottom /\ UNCHANGED <<top, slots, taken, got, fresh>>
      /\ Unpublished = {otask} /\ Unpublished' = {}
      /\ slots[Slot(bottom)] = otask /\ otask \in Task \ fresh
      /\ End - top < Cap
  BY DEF PushPublish, End, Unpublished, IInv, OwnerLocal, Room, TypeOK
<1> DEFINE n == End - top
<1>2. n \in Nat /\ End' - top' = n + 1
  BY <1>1, QueuedFacts
<1>3. Queued' = [k \in 1 .. n + 1 |-> slots[Slot(top + k - 1)]]
  BY <1>1, <1>2 DEF Queued
<1>4. Append(Queued, otask) \in Seq(Task) /\ Len(Append(Queued, otask)) = n + 1
  BY <1>1, QueuedFacts, AppendProperties
<1>5. \A k \in 1 .. n + 1 : Append(Queued, otask)[k] = slots[Slot(top + k - 1)]
  <2> TAKE k \in 1 .. n + 1
  <2>1. CASE k = n + 1
    <3>1. top + k - 1 = bottom
      BY <1>1, <2>1, QueuedFacts
    <3>2. QED
      BY <1>1, <2>1, <3>1, QueuedFacts, AppendProperties
  <2>2. CASE k \in 1 .. n
    BY <1>1, <2>2, QueuedFacts, AppendProperties
  <2>3. QED
    <3> HIDE DEF n
    <3>1. k = n + 1 \/ k \in 1 .. n
      BY <1>2
    <3>2. QED
      BY <3>1, <2>1, <2>2
<1>6. Queued' = Append(Queued, otask)
  <2>1. Append(Queued, otask) \in [1 .. n + 1 -> Task]
    BY <1>4, LenProperties
  <2>2. QED
    BY <1>3, <1>5, <2>1
<1>7. D!Put(otask)
  BY <1>1, <1>6, QueuedFacts DEF D!Put
<1>8. QED
  BY <1>1, <1>7 DEF D!DNext

(* The owner's take of the youngest item, by PopRead or by PopCas. *)
LEMMA YoungestTaken ==
  ASSUME IInv, End' = End - 1, End = bottom + 1, top < End,
         UNCHANGED <<top, slots, fresh \union Unpublished>>,
         got' = slots[Slot(bottom)],
         taken' = [taken EXCEPT ![slots[Slot(bottom)]] = Owner]
  PROVE  D!TakeYoungest
<1> DEFINE n == End - top
<1>1. n \in Nat \ {0} /\ End' - top' = n - 1 /\ top + n - 1 = bottom
  BY QueuedFacts DEF IInv, TypeOK
<1>2. Len(Queued) = n /\ Queued # << >>
  BY <1>1, QueuedFacts, EmptySeq
<1>3. Queued[n] = slots[Slot(bottom)] /\ taken[Queued[n]] = Nobody
  BY <1>1, QueuedFacts, WindowFacts
<1>4. Queued' = [k \in 1 .. n - 1 |-> slots[Slot(top + k - 1)]]
  BY <1>1 DEF Queued
<1>5. Queued' = [k \in 1 .. n - 1 |-> Queued[k]]
  BY <1>1, <1>4, QueuedFacts
<1>6. QED
  BY <1>2, <1>3, <1>5 DEF D!TakeYoungest

(* The same for the last item, where the take advances top. *)
LEMMA LastTaken ==
  ASSUME IInv, top' = top + 1, UNCHANGED <<End, slots, fresh \union Unpublished>>,
         End = bottom + 1, top = bottom,
         got' = slots[Slot(bottom)],
         taken' = [taken EXCEPT ![slots[Slot(bottom)]] = Owner]
  PROVE  D!TakeYoungest
<1>1. End - top = 1 /\ End' - top' = 0
  BY QueuedFacts DEF IInv, TypeOK
<1>2. Len(Queued) = 1 /\ Queued # << >>
  <2>1. Len(Queued) = 1
    BY <1>1, QueuedFacts
  <2>2. QED
    BY <2>1, EmptySeq
<1>3. Queued[1] = slots[Slot(bottom)] /\ taken[Queued[1]] = Nobody
  <2>1. 1 \in 1 .. End - top /\ top + 1 - 1 = bottom
    BY <1>1 DEF IInv, TypeOK
  <2>2. Queued[1] = slots[Slot(bottom)] /\ bottom \in Window
    BY <2>1, QueuedFacts
  <2>3. QED
    BY <2>2, WindowFacts
<1>4. Queued' = [k \in 1 .. 0 |-> slots'[Slot(top' + k - 1)]]
  BY <1>1 DEF Queued
<1>5. Queued' = [k \in 1 .. 1 - 1 |-> Queued[k]]
  BY <1>4
<1>6. QED
  BY <1>2, <1>3, <1>5 DEF D!TakeYoungest

(* The owner learns that the deque is empty. *)
LEMMA NothingTaken ==
  ASSUME IInv, End = top, got' = NoTask,
         UNCHANGED <<top, End, slots, fresh \union Unpublished, taken>>
  PROVE  D!TakeNothing
<1>1. Len(Queued) = 0
  BY QueuedFacts
<1>2. Queued = << >>
  BY <1>1, QueuedFacts, EmptySeq
<1>3. Queued' = Queued
  BY DEF Queued
<1>4. QED
  BY <1>2, <1>3 DEF D!TakeNothing

(* Reserving an element is invisible to the abstract deque. *)
LEMMA PopReserveRefines ==
  ASSUME IInv, PopReserve
  PROVE  [D!DNext]_(D!dvars)
<1>1. /\ UNCHANGED <<top, End, fresh \union Unpublished, taken, got>>
      /\ UNCHANGED slots
  BY DEF PopReserve, End, Unpublished, IInv, TypeOK
<1>2. QED
  BY <1>1, SameQueue

(* The read of top decides the pop, unless one item is left. *)
LEMMA PopReadRefines ==
  ASSUME IInv, PopRead
  PROVE  [D!DNext]_(D!dvars)
<1>1. /\ UNCHANGED <<top, bottom, slots, fresh>> /\ pc = "popRead" /\ End = bottom + 1
      /\ top \in Int /\ bottom \in Int /\ top =< End
  BY DEF PopRead, End, IInv, TypeOK, Room
<1>2. CASE top < bottom
  <2>1. /\ pc' = "idle" /\ got' = slots[Slot(bottom)]
        /\ taken' = [taken EXCEPT ![slots[Slot(bottom)]] = Owner]
    BY <1>1, <1>2 DEF PopRead
  <2>2. End' = End - 1 /\ UNCHANGED (fresh \union Unpublished) /\ top < End
    BY <1>1, <1>2, <2>1 DEF End, Unpublished
  <2>3. QED
    BY <1>1, <2>1, <2>2, YoungestTaken DEF D!DNext
<1>3. CASE top = bottom
  <2>1. pc' = "popCas" /\ UNCHANGED <<taken, got>>
    BY <1>1, <1>3 DEF PopRead
  <2>2. UNCHANGED <<End, fresh \union Unpublished>>
    BY <1>1, <2>1 DEF End, Unpublished
  <2>3. QED
    BY <1>1, <2>1, <2>2, SameQueue
<1>4. CASE top > bottom
  <2>1. pc' = "popRestore" /\ got' = NoTask /\ UNCHANGED taken
    BY <1>1, <1>4 DEF PopRead
  <2>2. UNCHANGED <<End, fresh \union Unpublished>> /\ End = top
    BY <1>1, <1>4, <2>1 DEF End, Unpublished
  <2>3. QED
    BY <1>1, <2>1, <2>2, NothingTaken DEF D!DNext
<1>5. QED
  BY <1>1, <1>2, <1>3, <1>4

(* On the last item the compare-and-swap decides. *)
LEMMA PopCasRefines ==
  ASSUME IInv, PopCas
  PROVE  [D!DNext]_(D!dvars)
<1>1. /\ UNCHANGED <<bottom, slots, fresh, otask>> /\ End = bottom + 1
      /\ UNCHANGED <<End, fresh \union Unpublished>>
      /\ otask = slots[Slot(bottom)] /\ top \in {bottom, bottom + 1}
  BY DEF PopCas, End, Unpublished, IInv, OwnerLocal
<1>2. CASE top = bottom
  <2>1. /\ top' = top + 1 /\ got' = otask
        /\ taken' = [taken EXCEPT ![otask] = Owner]
    BY <1>2 DEF PopCas
  <2>2. QED
    BY <1>1, <1>2, <2>1, LastTaken DEF D!DNext
<1>3. CASE top # bottom
  <2>1. UNCHANGED <<top, taken>> /\ got' = NoTask
    BY <1>3 DEF PopCas
  <2>2. QED
    BY <1>1, <1>3, <2>1, NothingTaken DEF D!DNext
<1>4. QED
  BY <1>2, <1>3

(* Restoring bottom is invisible to the abstract deque. *)
LEMMA PopRestoreRefines ==
  ASSUME IInv, PopRestore
  PROVE  [D!DNext]_(D!dvars)
<1>1. /\ UNCHANGED <<top, End, fresh \union Unpublished, taken, got>>
      /\ UNCHANGED slots
  BY DEF PopRestore, End, Unpublished, IInv, TypeOK
<1>2. QED
  BY <1>1, SameQueue

(* A thief's reads are invisible; its compare-and-swap takes the oldest item. *)
LEMMA StealRefines ==
  ASSUME IInv, NEW i \in Thief, ThiefStep(i)
  PROVE  [D!DNext]_(D!dvars)
<1>1. UNCHANGED <<bottom, slots, pc, otask, fresh, got>>
  BY DEF ThiefStep, StealReadTop, StealReadBottom, StealReadSlot, StealCas, ownerVars
<1>2. UNCHANGED <<End, fresh \union Unpublished>>
  BY <1>1 DEF End, Unpublished
<1>3. CASE UNCHANGED <<top, taken>>
  BY <1>1, <1>2, <1>3, SameQueue
<1>4. CASE StealCas(i) /\ top = stp[i] /\ ~UNCHANGED <<top, taken>>
  <2>1. /\ top' = top + 1 /\ sx[i] = slots[Slot(top)] /\ top < End
        /\ taken' = [taken EXCEPT ![sx[i]] = i]
    BY <1>4 DEF StealCas, IInv, ThiefLocal
  <2> DEFINE n == End - top
  <2>2. n \in Nat \ {0} /\ End' - top' = n - 1 /\ top \in Int
    BY <1>2, <2>1, QueuedFacts
  <2>3. Len(Queued) = n /\ Queued # << >>
    BY <2>2, QueuedFacts, EmptySeq
  <2>4. Queued[1] = slots[Slot(top)] /\ taken[Queued[1]] = Nobody
    BY <2>2, QueuedFacts, WindowFacts
  <2>5. Queued' = [k \in 1 .. n - 1 |-> slots[Slot(top + 1 + k - 1)]]
    BY <1>1, <2>1, <2>2 DEF Queued
  <2>6. /\ Tail(Queued) \in [1 .. n - 1 -> Task]
        /\ \A k \in 1 .. n - 1 : Tail(Queued)[k] = Queued[k + 1]
    BY <2>2, <2>3, QueuedFacts, HeadTailProperties, LenProperties
  <2>7. \A k \in 1 .. n - 1 : Queued[k + 1] = slots[Slot(top + 1 + k - 1)]
    <3> TAKE k \in 1 .. n - 1
    <3>1. k + 1 \in 1 .. End - top /\ top + (k + 1) - 1 = top + 1 + k - 1
      BY <2>2
    <3>2. QED
      BY <3>1, QueuedFacts
  <2>8. Queued' = Tail(Queued)
    <3> HIDE DEF n
    <3>1. QED
      BY <2>5, <2>6, <2>7
  <2>9. D!TakeOldest(i)
    BY <1>1, <1>2, <2>1, <2>3, <2>4, <2>8 DEF D!TakeOldest
  <2>10. QED
    BY <2>9 DEF D!DNext
<1>5. QED
  BY <1>3, <1>4 DEF ThiefStep, StealReadTop, StealReadBottom, StealReadSlot, StealCas

(* The lock-free deque implements the atomic one: every item is handed to one
   thread only, and pop reports "empty" only when the deque is empty. *)
THEOREM DequeRefinement == Spec => ImplementsWorkDeque
<1>1. IInv /\ [Next]_vars => [D!DNext]_(D!dvars)
  <2> SUFFICES ASSUME IInv, [Next]_vars PROVE [D!DNext]_(D!dvars)
    OBVIOUS
  <2>1. CASE UNCHANGED vars
    BY <2>1 DEF vars, ownerVars, thiefVars, D!dvars, Queued, End, Unpublished
  <2>2. CASE OwnerStep
    BY <2>2, PushCheckRefines, PushStoreRefines, PushPublishRefines, PopReserveRefines,
       PopReadRefines, PopCasRefines, PopRestoreRefines DEF OwnerStep
  <2>3. ASSUME NEW i \in Thief, ThiefStep(i) PROVE [D!DNext]_(D!dvars)
    BY <2>3, StealRefines
  <2>4. QED
    BY <2>1, <2>2, <2>3 DEF Next
<1>2. QED
  BY InitRefines, DequeInvariant, <1>1, PTL DEF Spec, ImplementsWorkDeque, D!DSpec
==============================================================================
