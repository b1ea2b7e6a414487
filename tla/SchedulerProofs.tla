--------------------------- MODULE SchedulerProofs ----------------------------
(***************************************************************************)
(* Proofs about Scheduler, for any pool, any programs and any capacity of  *)
(* the deques.                                                             *)
(***************************************************************************)
EXTENDS Scheduler, TLAPS, FiniteSetTheorems, SequenceTheorems

------------------------------------------------------------------------------
(* Programs and call stacks *)

(* A sequence without its last element. *)
LEMMA WithoutLast ==
  ASSUME NEW S, NEW s \in Seq(S), s # << >>, NEW r, r = SubSeq(s, 1, Len(s) - 1)
  PROVE  /\ r \in Seq(S)
         /\ Len(s) \in Nat \ {0} /\ DOMAIN s = 1 .. Len(s)
         /\ Len(r) = Len(s) - 1
         /\ DOMAIN r = 1 .. Len(s) - 1
         /\ \A i \in 1 .. Len(s) - 1 : r[i] = s[i]
<1>1. Len(s) \in Nat \ {0} /\ DOMAIN s = 1 .. Len(s) /\ \A i \in 1 .. Len(s) - 1 : s[i] \in S
  OBVIOUS
<1>2. /\ r \in Seq(S)
      /\ Len(r) = IF 1 =< Len(s) - 1 THEN (Len(s) - 1) - 1 + 1 ELSE 0
      /\ \A i \in 1 .. (Len(s) - 1) - 1 + 1 : r[i] = s[1 + i - 1]
  BY <1>1, SubSeqProperties
<1>3. QED
  BY <1>1, <1>2

(* A sequence without its first element. *)
LEMMA WithoutFirst ==
  ASSUME NEW S, NEW s \in Seq(S), s # << >>, NEW r, r = Tail(s) \/ r = SubSeq(s, 2, Len(s))
  PROVE  /\ r \in Seq(S)
         /\ Len(s) \in Nat \ {0} /\ DOMAIN s = 1 .. Len(s)
         /\ Head(s) = s[1]
         /\ Len(r) = Len(s) - 1
         /\ DOMAIN r = 1 .. Len(s) - 1
         /\ \A i \in 1 .. Len(s) - 1 : r[i] = s[i + 1]
<1>1. Len(s) \in Nat \ {0} /\ DOMAIN s = 1 .. Len(s) /\ Head(s) = s[1]
  OBVIOUS
<1>2. r = Tail(s)
  BY TailIsSubSeq
<1>3. QED
  BY <1>1, <1>2

(* The program that runs is one of Loads. *)
LEMMA LoadFacts ==
  ASSUME TypeOK
  PROVE  /\ load.pool \subseteq Worker
         /\ load.group \in [Task -> AnyGroup]
         /\ load.cap \in [Chan -> Nat]
         /\ load.body \in [Body -> Seq(Operation)]
         /\ MadeOnce(load) /\ ScopesNest(load)
BY SchedulerAssumption DEF TypeOK, Program

(* The argument of an operation is what its name asks for. *)
LEMMA OpFacts ==
  ASSUME TypeOK, NEW b \in Body, NEW k \in DOMAIN load.body[b]
  PROVE  /\ load.body[b][k] \in Operation
         /\ load.body[b][k][1] \in {"spawn", "join"} => load.body[b][k][2] \in Task
         /\ load.body[b][k][1] \in {"group", "endgroup"} => load.body[b][k][2] \in Group
         /\ load.body[b][k][1] \in {"send", "recv", "close", "poll"} => load.body[b][k][2] \in Chan
<1>1. load.body[b] \in Seq(Operation)
  BY LoadFacts
<1>2. load.body[b][k] \in Operation
  BY <1>1
<1>3. QED
  BY <1>2 DEF Operation

(* A task and a thread stand for nothing else. *)
LEMMA NameFacts ==
  /\ Root \notin Task
  /\ Main \in Thread
  /\ Worker \subseteq Thread
  /\ Main \notin Worker /\ Main \notin Elastic
  /\ NoGroup \notin Group
BY SchedulerAssumption DEF Thread

(* The top of a stack that is not empty. *)
LEMMA TopFacts ==
  ASSUME TypeOK, NEW t \in Thread, frames[t] # << >>
  PROVE  /\ Len(frames[t]) \in Nat \ {0}
         /\ Len(frames[t]) \in DOMAIN frames[t]
         /\ DOMAIN frames[t] = 1 .. Len(frames[t])
         /\ Top(t) = frames[t][Len(frames[t])]
         /\ Top(t) \in FrameType
         /\ Top(t).task \in Body
         /\ Top(t).at \in Nat \ {0}
<1>1. frames[t] \in Seq(FrameType)
  BY DEF TypeOK
<1>2. Len(frames[t]) \in Nat \ {0} /\ DOMAIN frames[t] = 1 .. Len(frames[t])
  BY <1>1
<1>3. Top(t) \in FrameType
  BY <1>1, <1>2 DEF Top
<1>4. QED
  BY <1>2, <1>3 DEF Top, FrameType

(* Any frame of a stack. *)
LEMMA FrameFacts ==
  ASSUME TypeOK, NEW t \in Thread, NEW i \in DOMAIN frames[t]
  PROVE  /\ frames[t] # << >>
         /\ i \in 1 .. Len(frames[t])
         /\ frames[t][i] \in FrameType
         /\ frames[t][i].task \in Body
         /\ frames[t][i].at \in Nat \ {0}
<1>1. frames[t] \in Seq(FrameType)
  BY DEF TypeOK
<1>2. frames[t][i] \in FrameType /\ i \in 1 .. Len(frames[t]) /\ frames[t] # << >>
  BY <1>1
<1>3. QED
  BY <1>2 DEF FrameType

(* The operation a thread is at. *)
LEMMA AtOp ==
  ASSUME TypeOK, NEW t \in Thread, frames[t] # << >>, ~Finished(t)
  PROVE  /\ Top(t).at \in DOMAIN load.body[Top(t).task]
         /\ Top(t).at =< Len(load.body[Top(t).task])
         /\ Op(t) = load.body[Top(t).task][Top(t).at]
         /\ Op(t) \in Operation
         /\ Op(t)[1] \in {"spawn", "join"} => Op(t)[2] \in Task
         /\ Op(t)[1] \in {"group", "endgroup"} => Op(t)[2] \in Group
         /\ Op(t)[1] \in {"send", "recv", "close", "poll"} => Op(t)[2] \in Chan
<1>1. Top(t).task \in Body /\ Top(t).at \in Nat \ {0}
  BY TopFacts
<1>2. load.body[Top(t).task] \in Seq(Operation)
  BY <1>1, LoadFacts
<1>3. Top(t).at \in DOMAIN load.body[Top(t).task] /\ Top(t).at =< Len(load.body[Top(t).task])
  BY <1>1, <1>2 DEF Finished
<1>4. QED
  BY <1>1, <1>3, OpFacts DEF Op

(* SetTop changes the top frame of one thread. *)
LEMMA SetTopFacts ==
  ASSUME TypeOK, NEW t \in Thread, frames[t] # << >>, NEW f \in FrameType,
         frames' = SetTop(t, f)
  PROVE  /\ frames' \in [Thread -> Seq(FrameType)]
         /\ \A u \in Thread : /\ Len(frames'[u]) = Len(frames[u])
                              /\ DOMAIN frames'[u] = DOMAIN frames[u]
                              /\ frames'[u] = << >> <=> frames[u] = << >>
                              /\ u # t => frames'[u] = frames[u]
         /\ \A u \in Thread : \A i \in DOMAIN frames[u] :
              ~(u = t /\ i = Len(frames[t])) => frames'[u][i] = frames[u][i]
         /\ frames'[t][Len(frames[t])] = f
         /\ Top(t)' = f
         /\ \A u \in Thread : u # t => Top(u)' = Top(u)
<1>1. frames \in [Thread -> Seq(FrameType)]
  BY DEF TypeOK
<1> DEFINE s == [frames[t] EXCEPT ![Len(frames[t])] = f]
<1>2. frames[t] \in Seq(FrameType) /\ Len(frames[t]) \in 1 .. Len(frames[t])
  BY <1>1, TopFacts
<1>3. s \in Seq(FrameType) /\ Len(s) = Len(frames[t]) /\ DOMAIN s = DOMAIN frames[t]
      /\ s # << >> /\ s[Len(frames[t])] = f
      /\ \A i \in DOMAIN frames[t] : i # Len(frames[t]) => s[i] = frames[t][i]
  BY <1>2
<1>4. frames' = [frames EXCEPT ![t] = s]
  BY DEF SetTop
<1> HIDE DEF s
<1>5. frames'[t] = s /\ \A u \in Thread : u # t => frames'[u] = frames[u]
  BY <1>1, <1>4
<1>6. frames' \in [Thread -> Seq(FrameType)]
  BY <1>1, <1>3, <1>4
<1>7. \A u \in Thread : /\ Len(frames'[u]) = Len(frames[u])
                        /\ DOMAIN frames'[u] = DOMAIN frames[u]
                        /\ frames'[u] = << >> <=> frames[u] = << >>
                        /\ u # t => frames'[u] = frames[u]
  BY <1>3, <1>5
<1>8. \A u \in Thread : \A i \in DOMAIN frames[u] :
        ~(u = t /\ i = Len(frames[t])) => frames'[u][i] = frames[u][i]
  BY <1>3, <1>5
<1>9. frames'[t][Len(frames[t])] = f
  BY <1>3, <1>5
<1>10. Top(t)' = f /\ \A u \in Thread : u # t => Top(u)' = Top(u)
  BY <1>7, <1>9 DEF Top
<1>11. QED
  BY <1>6, <1>7, <1>8, <1>9, <1>10

(* Run puts a frame on top of one stack. *)
LEMMA PushFacts ==
  ASSUME TypeOK, NEW t \in Thread, NEW f \in FrameType,
         frames' = [frames EXCEPT ![t] = Append(@, f)]
  PROVE  /\ frames' \in [Thread -> Seq(FrameType)]
         /\ \A u \in Thread : u # t => frames'[u] = frames[u] /\ Top(u)' = Top(u)
         /\ Len(frames[t]) \in Nat
         /\ Len(frames'[t]) = Len(frames[t]) + 1
         /\ DOMAIN frames'[t] = 1 .. Len(frames[t]) + 1
         /\ DOMAIN frames[t] = 1 .. Len(frames[t])
         /\ \A i \in DOMAIN frames[t] : frames'[t][i] = frames[t][i]
         /\ frames'[t][Len(frames[t]) + 1] = f
         /\ frames'[t] # << >>
         /\ Top(t)' = f
<1>1. frames \in [Thread -> Seq(FrameType)]
  BY DEF TypeOK
<1> DEFINE s == Append(frames[t], f)
<1>2. frames[t] \in Seq(FrameType)
  BY <1>1
<1>3. s \in Seq(FrameType) /\ Len(s) = Len(frames[t]) + 1 /\ DOMAIN s = 1 .. Len(frames[t]) + 1
      /\ s # << >> /\ s[Len(frames[t]) + 1] = f
      /\ DOMAIN frames[t] = 1 .. Len(frames[t]) /\ Len(frames[t]) \in Nat
      /\ \A i \in DOMAIN frames[t] : s[i] = frames[t][i]
  BY <1>2
<1>4. frames' = [frames EXCEPT ![t] = s]
  OBVIOUS
<1> HIDE DEF s
<1>5. frames'[t] = s /\ \A u \in Thread : u # t => frames'[u] = frames[u]
  BY <1>1, <1>4
<1>6. frames' \in [Thread -> Seq(FrameType)]
  BY <1>1, <1>3, <1>4
<1>7. Top(t)' = f /\ \A u \in Thread : u # t => Top(u)' = Top(u)
  BY <1>3, <1>5 DEF Top
<1>8. QED
  BY <1>3, <1>5, <1>6, <1>7

(* WorkersDec takes the top frame off. *)
LEMMA PopFacts ==
  ASSUME TypeOK, NEW t \in Thread, frames[t] # << >>,
         frames' = [frames EXCEPT ![t] = SubSeq(@, 1, Len(@) - 1)]
  PROVE  /\ frames' \in [Thread -> Seq(FrameType)]
         /\ \A u \in Thread : u # t => frames'[u] = frames[u] /\ Top(u)' = Top(u)
         /\ Len(frames'[t]) = Len(frames[t]) - 1
         /\ DOMAIN frames'[t] = 1 .. Len(frames[t]) - 1
         /\ \A i \in DOMAIN frames'[t] : i \in DOMAIN frames[t] /\ frames'[t][i] = frames[t][i]
         /\ frames'[t] = << >> <=> Len(frames[t]) = 1
         /\ frames'[t] # << >> => Top(t)' = frames[t][Len(frames[t]) - 1]
<1>1. frames \in [Thread -> Seq(FrameType)]
  BY DEF TypeOK
<1> DEFINE s == SubSeq(frames[t], 1, Len(frames[t]) - 1)
<1>2. frames[t] \in Seq(FrameType) /\ Len(frames[t]) \in Nat \ {0}
  BY <1>1, TopFacts
<1>3. s \in Seq(FrameType) /\ Len(s) = Len(frames[t]) - 1 /\ DOMAIN s = 1 .. Len(frames[t]) - 1
      /\ (s = << >> <=> Len(frames[t]) = 1)
      /\ DOMAIN frames[t] = 1 .. Len(frames[t])
      /\ \A i \in DOMAIN s : i \in DOMAIN frames[t] /\ s[i] = frames[t][i]
  <2>1. /\ s \in Seq(FrameType) /\ Len(s) = Len(frames[t]) - 1
        /\ DOMAIN s = 1 .. Len(frames[t]) - 1
        /\ DOMAIN frames[t] = 1 .. Len(frames[t])
        /\ \A i \in 1 .. Len(frames[t]) - 1 : s[i] = frames[t][i]
    BY <1>2, WithoutLast
  <2> HIDE DEF s
  <2>2. s = << >> <=> Len(s) = 0
    BY <2>1, EmptySeq, Zenon
  <2>3. \A i \in DOMAIN s : i \in DOMAIN frames[t]
    BY <1>2, <2>1
  <2>4. QED
    BY <1>2, <2>1, <2>2, <2>3
<1>4. frames' = [frames EXCEPT ![t] = s]
  OBVIOUS
<1> HIDE DEF s
<1>5. frames'[t] = s /\ \A u \in Thread : u # t => frames'[u] = frames[u]
  BY <1>1, <1>4
<1>6. frames' \in [Thread -> Seq(FrameType)]
  BY <1>1, <1>3, <1>4
<1>7. \A u \in Thread : u # t => Top(u)' = Top(u)
  BY <1>5 DEF Top
<1>8. ASSUME frames'[t] # << >>
      PROVE  Top(t)' = frames[t][Len(frames[t]) - 1]
  <2>1. Len(s) \in DOMAIN s
    BY <1>2, <1>3, <1>5, <1>8
  <2>2. QED
    BY <2>1, <1>3, <1>5 DEF Top
<1>9. QED
  BY <1>3, <1>5, <1>6, <1>7, <1>8

(* An operation is its name and its argument. *)
LEMMA OpPair ==
  ASSUME NEW op \in Operation
  PROVE  op = <<op[1], op[2]>>
BY DEF Operation

(* Most operations leave the open scopes as they are. *)
LEMMA ScopePlain ==
  ASSUME TypeOK, NEW b \in Body, NEW k \in DOMAIN load.body[b],
         load.body[b][k][1] \notin {"group", "endgroup"}
  PROVE  OpenAt(b, k + 1) = OpenAt(b, k) /\ ScopeAt(b, k + 1) = ScopeAt(b, k)
<1>1. load.body[b] \in Seq(Operation)
  BY LoadFacts
<1>2. k \in Nat \ {0}
  BY <1>1
<1>3. OpenAt(b, k + 1) = OpenAt(b, k)
  BY <1>2 DEF OpenAt
<1>4. QED
  BY <1>3 DEF ScopeAt

(* The scope that is opened is then the innermost. *)
LEMMA ScopeOpened ==
  ASSUME TypeOK, NEW b \in Body, NEW k \in DOMAIN load.body[b], load.body[b][k][1] = "group"
  PROVE  /\ OpenAt(b, k + 1) = OpenAt(b, k) \union {k}
         /\ ScopeAt(b, k + 1) = load.body[b][k][2]
<1>1. load.body[b] \in Seq(Operation)
  BY LoadFacts
<1>2. k \in Nat \ {0}
  BY <1>1
<1>3. OpenAt(b, k + 1) = OpenAt(b, k) \union {k}
  BY <1>2 DEF OpenAt
<1>4. \A n \in OpenAt(b, k + 1) : n \in Nat /\ n =< k
  BY <1>2 DEF OpenAt
<1> DEFINE last == Innermost(OpenAt(b, k + 1))
<1>5. last \in OpenAt(b, k + 1) /\ \A n \in OpenAt(b, k + 1) : n =< last
  <2>1. \E m \in OpenAt(b, k + 1) : \A n \in OpenAt(b, k + 1) : n =< m
    BY <1>3, <1>4
  <2>2. QED
    BY <2>1, Zenon DEF Innermost
<1>6. ScopeAt(b, k + 1) = load.body[b][last][2]
  BY <1>3 DEF ScopeAt
<1> HIDE DEF last
<1>7. last = k
  BY <1>2, <1>3, <1>4, <1>5
<1>8. QED
  BY <1>3, <1>6, <1>7

(* The scope that is ended was open, and the scopes around it are open again. *)
LEMMA ScopeEnded ==
  ASSUME TypeOK, NEW b \in Body, NEW k \in DOMAIN load.body[b], load.body[b][k][1] = "endgroup"
  PROVE  \E m \in OpenAt(b, k) : /\ load.body[b][m][2] = load.body[b][k][2]
                                 /\ OpenAt(b, k + 1) = OpenAt(b, m)
                                 /\ OpenAt(b, k + 1) \subseteq OpenAt(b, k)
                                 /\ ScopeAt(b, k + 1) = ScopeAt(b, m)
<1>1. load.body[b] \in Seq(Operation) /\ MadeOnce(load) /\ ScopesNest(load)
  BY LoadFacts
<1>2. k \in Nat \ {0} /\ DOMAIN load.body[b] = 1 .. Len(load.body[b]) /\ Len(load.body[b]) \in Nat
  BY <1>1
<1> DEFINE B == load.body[b]
           g == B[k][2]
<1>3. \A j \in DOMAIN B : B[j] = <<B[j][1], B[j][2]>>
  BY OpFacts, OpPair
<1>4. \A i, j \in DOMAIN B : B[i] = B[j] /\ B[i][1] \in {"spawn", "group", "endgroup"} => i = j
  BY <1>1 DEF MadeOnce
<1>5. \A n \in DOMAIN B : B[n][1] = "endgroup" =>
        \E j \in 1 .. n - 1 :
          /\ B[j] = <<"group", B[n][2]>>
          /\ \A i \in j + 1 .. n - 1 : B[i][1] = "group" =>
               \E e \in i + 1 .. n - 1 : B[e] = <<"endgroup", B[i][2]>>
  BY <1>1 DEF ScopesNest
<1>6. PICK m \in 1 .. k - 1 :
          /\ B[m] = <<"group", g>>
          /\ \A i \in m + 1 .. k - 1 : B[i][1] = "group" =>
               \E e \in i + 1 .. k - 1 : B[e] = <<"endgroup", B[i][2]>>
  BY <1>5
<1>7. m \in DOMAIN B /\ m \in Nat \ {0} /\ m < k
  BY <1>2
<1>8. m \in OpenAt(b, k)
  <2>1. ASSUME NEW n \in m + 1 .. k - 1, B[n] = <<"endgroup", B[m][2]>>
        PROVE  FALSE
    <3>1. n \in DOMAIN B /\ n < k /\ B[n] = <<"endgroup", g>>
      BY <2>1, <1>2, <1>6, <1>7
    <3>2. B[n] = B[k] /\ B[k][1] = "endgroup"
      BY <3>1, <1>3
    <3>3. QED
      BY <3>1, <3>2, <1>2, <1>4
  <2>2. QED
    BY <2>1, <1>6, <1>7 DEF OpenAt
<1>9. OpenAt(b, k + 1) \subseteq OpenAt(b, m)
  <2>1. SUFFICES ASSUME NEW j \in OpenAt(b, k + 1)
                 PROVE  j \in OpenAt(b, m)
    OBVIOUS
  <2>2. /\ j \in 1 .. k /\ B[j][1] = "group"
        /\ \A n \in j + 1 .. k : B[n] # <<"endgroup", B[j][2]>>
    BY <1>2 DEF OpenAt
  <2>3. j # k
    BY <2>2
  <2>4. j # m
    <3>1. B[k] = <<"endgroup", g>> /\ k \in m + 1 .. k
      BY <1>2, <1>3, <1>7
    <3>2. QED
      BY <3>1, <2>2, <1>6
  <2>5. ~(j > m)
    <3>1. SUFFICES ASSUME j > m PROVE FALSE
      OBVIOUS
    <3>2. j \in m + 1 .. k - 1
      BY <3>1, <2>2, <2>3, <1>7, <1>2
    <3>3. PICK e \in j + 1 .. k - 1 : B[e] = <<"endgroup", B[j][2]>>
      BY <3>2, <2>2, <1>6
    <3>4. QED
      BY <3>3, <2>2, <1>2
  <2>6. j \in 1 .. m - 1
    BY <2>2, <2>4, <2>5, <1>7
  <2>7. QED
    BY <2>6, <2>2, <1>2, <1>7 DEF OpenAt
<1>10. OpenAt(b, m) \subseteq OpenAt(b, k + 1)
  <2> SUFFICES ASSUME NEW j \in OpenAt(b, m)
               PROVE  j \in OpenAt(b, k + 1)
    OBVIOUS
  <2>0. j \in 1 .. (k + 1) - 1 /\ B[j][1] = "group"
    BY <1>2, <1>7 DEF OpenAt
  <2>1. SUFFICES ASSUME NEW n \in j + 1 .. (k + 1) - 1, B[n] = <<"endgroup", B[j][2]>>
                 PROVE  FALSE
    BY <2>0 DEF OpenAt
  <2>2. /\ j \in 1 .. m - 1 /\ B[j][1] = "group" /\ j \in DOMAIN B /\ n \in DOMAIN B
        /\ n >= m
    BY <2>1, <1>2, <1>7 DEF OpenAt
  <2>3. n # m
    BY <2>1, <1>6
  <2>4. n # k
    <3>1. SUFFICES ASSUME n = k PROVE FALSE
      OBVIOUS
    <3>2. B[j][2] = g
      BY <3>1, <2>1
    <3>3. B[j] = B[m]
      BY <3>2, <2>2, <1>3, <1>6
    <3>4. j = m
      BY <3>3, <2>2, <1>4, <1>7
    <3>5. QED
      BY <3>4, <2>2, <1>7
  <2>5. PICK i \in 1 .. n - 1 :
          /\ B[i] = <<"group", B[n][2]>>
          /\ \A p \in i + 1 .. n - 1 : B[p][1] = "group" =>
               \E e \in p + 1 .. n - 1 : B[e] = <<"endgroup", B[p][2]>>
    <3>1. B[n][1] = "endgroup"
      BY <2>1
    <3>2. QED
      BY <3>1, <2>2, <1>5
  <2>6. i = j
    <3>1. B[i] = B[j] /\ i \in DOMAIN B
      BY <2>1, <2>2, <2>5, <1>2, <1>3
    <3>2. QED
      BY <3>1, <2>2, <1>4
  <2>7. m \in i + 1 .. n - 1
    BY <2>2, <2>3, <2>6, <1>2, <1>7
  <2>8. PICK e \in m + 1 .. n - 1 : B[e] = <<"endgroup", g>>
    BY <2>5, <2>7, <1>6
  <2>9. e \in DOMAIN B /\ e < k
    BY <2>8, <2>2, <1>2, <1>7
  <2>10. B[e] = B[k]
    BY <2>8, <1>3
  <2>11. QED
    BY <2>9, <2>10, <1>2, <1>4
<1>11. OpenAt(b, k + 1) = OpenAt(b, m)
  BY <1>9, <1>10
<1>12. OpenAt(b, k + 1) \subseteq OpenAt(b, k)
  BY <1>2 DEF OpenAt
<1>13. QED
  BY <1>6, <1>8, <1>11, <1>12 DEF ScopeAt

------------------------------------------------------------------------------
(* Steps that move threads and leave tasks, groups and call stacks alone *)

Returning == {"broadcast", "dec"}

\* No thread starts or stops to return, and a spawn that is under way goes on.
Quiet ==
    /\ \A u \in Thread : pc[u] \in Returning <=> pc'[u] \in Returning
    /\ \A u \in Thread : Publishing(u) => Publishing(u)'
    /\ pc'[Main] \notin {"take", "steal", "cas"}

stable == <<load, frames, group, deque, inject, started, inflight, done>>

(* The stacks decide what the tops are. *)
LEMMA SameTops ==
  ASSUME UNCHANGED <<load, frames>>, NEW u
  PROVE  Top(u)' = Top(u) /\ Finished(u)' = Finished(u) /\ Op(u)' = Op(u)
BY DEF Top, Finished, Op

(* A thread that did not move is still where it was. *)
LEMMA StaysLocated ==
  ASSUME NEW u \in Thread, LocatedAt(u), load' = load, frames'[u] = frames[u],
         pc'[u] = pc[u], look'[u] = look[u], started \subseteq started', done \subseteq done'
  PROVE  LocatedAt(u)'
BY DEF LocatedAt, Top, Finished, Op

(* What does not depend on where threads are is kept by a quiet step. *)
LEMMA QuietKeeps ==
  ASSUME IInv, UNCHANGED stable, TypeOK', Located', Quiet
  PROVE  IInv'
<1> USE DEF stable
<1>1. MainRunsRoot'
  BY DEF IInv, MainRunsRoot, Quiet
<1>2. InBody'
  BY DEF IInv, InBody
<1>3. StartedOrDone'
  BY DEF IInv, StartedOrDone, Quiet, Returning
<1>4. OnePlace'
  BY DEF IInv, OnePlace
<1>5. SpawnsBehind'
  <2>1. ASSUME NEW b, NEW k PROVE Passed(b, k)' = Passed(b, k)
    BY DEF Passed
  <2>2. \A u \in Thread : Top(u)' = Top(u)
    BY SameTops
  <2>3. \A b \in Body : \A k \in DOMAIN load.body[b] :
          load.body[b][k][1] = "spawn" /\ load.body[b][k][2] \in started =>
            \/ Passed(b, k)
            \/ \E t \in Thread : /\ Publishing(t) /\ frames[t] # << >>
                                 /\ Top(t).task = b /\ Top(t).at = k
    BY DEF IInv, SpawnsBehind
  <2>4. \A u \in Thread : Publishing(u) => Publishing(u)'
    BY DEF Quiet
  <2>5. QED
    BY <2>1, <2>2, <2>3, <2>4 DEF SpawnsBehind
<1>6. Counted'
  BY DEF IInv, Counted, Live, Queued, Running
<1>7. GroupsSaved'
  <2>1. ASSUME NEW b, NEW k PROVE ScopeAt(b, k)' = ScopeAt(b, k) /\ OpenAt(b, k)' = OpenAt(b, k)
    BY DEF ScopeAt, OpenAt
  <2>2. \A u \in Thread : Top(u)' = Top(u)
    BY SameTops
  <2>3. QED
    BY <2>1, <2>2, SMTT(30) DEF IInv, GroupsSaved, Quiet, Returning, Scope
<1>8. QED
  BY <1>1, <1>2, <1>3, <1>4, <1>5, <1>6, <1>7 DEF IInv

(* A pool worker or an elastic one is not main. *)
LEMMA NotMain ==
  ASSUME IInv, NEW t \in Thread, frames[t] = << >> \/ pc[t] \in {"take", "steal", "cas"}
  PROVE  t # Main
<1>1. Len(<< >>) = 0
  OBVIOUS
<1>2. Len(frames[Main]) = 1 /\ pc[Main] \notin {"take", "steal", "cas"}
  BY DEF IInv, MainRunsRoot
<1>3. QED
  BY <1>1, <1>2

(* Main does not return from a task. *)
LEMMA MainStays ==
  ASSUME IInv
  PROVE  pc[Main] \notin Returning /\ frames[Main] # << >> /\ Main \in Thread
<1>1. Main \in Thread /\ Root \notin Task
  BY NameFacts
<1>2. Top(Main).task = Root /\ frames[Main] # << >>
  BY NotMain, <1>1 DEF IInv, MainRunsRoot, Top
<1>3. Root \notin done
  BY <1>1 DEF IInv, TypeOK
<1>4. QED
  BY <1>1, <1>2, <1>3 DEF IInv, Located, LocatedAt, Returning

(* SignalPool moves its thread and wakes at most one parked worker. *)
LEMMA SignalPoolFacts ==
  ASSUME IInv, NEW t \in Thread, NEW l \in Label, SignalPool(t, l), pc[t] # "parked"
  PROVE  /\ pc' \in [Thread -> Label]
         /\ pc'[t] = l
         /\ \A u \in Thread : u # t => pc'[u] = pc[u] \/ (pc[u] = "parked" /\ pc'[u] = "woken")
<1>1. pc \in [Thread -> Label] /\ Worker \subseteq Thread
  BY NameFacts DEF IInv, TypeOK
<1>2. "woken" \in Label
  BY DEF Label
<1>3. CASE Parked = {}
  <2>1. pc' = [pc EXCEPT ![t] = l]
    BY <1>3 DEF SignalPool, Goto
  <2>2. QED
    BY <1>1, <2>1
<1>4. CASE Parked # {}
  <2>1. PICK w \in Parked : pc' = [pc EXCEPT ![t] = l, ![w] = "woken"]
    BY <1>4 DEF SignalPool
  <2>2. w \in Thread /\ w # t /\ pc[w] = "parked"
    BY <1>1 DEF Parked
  <2>3. QED
    BY <1>1, <1>2, <2>1, <2>2
<1>5. QED
  BY <1>3, <1>4

(* StartElastic moves its thread and starts at most one elastic worker. *)
LEMMA StartElasticFacts ==
  ASSUME IInv, NEW t \in Thread, NEW l \in Label, NEW want, StartElastic(t, l, want),
         pc[t] # "off"
  PROVE  /\ pc' \in [Thread -> Label]
         /\ pc'[t] = l
         /\ \A u \in Thread : u # t => pc'[u] = pc[u] \/ (pc[u] = "off" /\ pc'[u] = "take")
<1>1. pc \in [Thread -> Label] /\ Elastic \subseteq Thread
  BY DEF IInv, TypeOK, Thread
<1>2. "take" \in Label
  BY DEF Label
<1>3. CASE ~(want /\ {e \in Elastic : pc[e] = "off"} # {})
  <2>1. pc' = [pc EXCEPT ![t] = l]
    BY <1>3 DEF StartElastic, Goto
  <2>2. QED
    BY <1>1, <2>1
<1>4. CASE want /\ {e \in Elastic : pc[e] = "off"} # {}
  <2>1. PICK e \in {e \in Elastic : pc[e] = "off"} : pc' = [pc EXCEPT ![t] = l, ![e] = "take"]
    BY <1>4 DEF StartElastic
  <2>2. e \in Thread /\ e # t /\ pc[e] = "off"
    BY <1>1
  <2>3. QED
    BY <1>1, <1>2, <2>1, <2>2
<1>5. QED
  BY <1>3, <1>4

(* SignalChan moves its thread and wakes at most one blocked thread. *)
LEMMA SignalChanFacts ==
  ASSUME IInv, NEW t \in Thread, NEW w, SignalChan(t, w), pc[t] # "blocked"
  PROVE  /\ pc' \in [Thread -> Label]
         /\ pc'[t] = "body"
         /\ \A u \in Thread : u # t => pc'[u] = pc[u] \/ (pc[u] = "blocked" /\ pc'[u] = "wait")
<1>1. pc \in [Thread -> Label]
  BY DEF IInv, TypeOK
<1>2. "body" \in Label /\ "wait" \in Label
  BY DEF Label
<1>3. BlockedOn(w) \subseteq Thread /\ \A u \in BlockedOn(w) : pc[u] = "blocked"
  BY DEF BlockedOn
<1>4. CASE BlockedOn(w) = {}
  <2>1. pc' = [pc EXCEPT ![t] = "body"]
    BY <1>4 DEF SignalChan, Goto
  <2>2. QED
    BY <1>1, <1>2, <2>1
<1>5. CASE BlockedOn(w) # {}
  <2>1. PICK u \in BlockedOn(w) : pc' = [pc EXCEPT ![t] = "body", ![u] = "wait"]
    BY <1>5 DEF SignalChan
  <2>2. u \in Thread /\ u # t /\ pc[u] = "blocked"
    BY <1>3
  <2>3. QED
    BY <1>1, <1>2, <2>1, <2>2
<1>6. QED
  BY <1>4, <1>5

\* What a step of t may do to the other threads: wake them, or start one.
Others(t) ==
    \A u \in Thread : u # t =>
      \/ pc'[u] = pc[u]
      \/ pc[u] = "parked" /\ pc'[u] = "woken"
      \/ pc[u] = "off" /\ pc'[u] = "take"
      \/ pc[u] = "blocked" /\ pc'[u] \in {"wait", "body"}

(* Threads that are woken or started are where they should be. *)
LEMMA OthersLocated ==
  ASSUME IInv, NEW t \in Thread, Others(t), load' = load,
         \A u \in Thread : u # t => frames'[u] = frames[u] /\ look'[u] = look[u],
         started \subseteq started', done \subseteq done'
  PROVE  /\ \A u \in Thread : u # t => LocatedAt(u)'
         /\ \A u \in Thread : u # t => (pc[u] \in Returning <=> pc'[u] \in Returning)
         /\ \A u \in Thread : u # t => (Publishing(u) => Publishing(u)')
         /\ t # Main => pc'[Main] \notin {"take", "steal", "cas"}
<1>1. SUFFICES ASSUME NEW u \in Thread, u # t
               PROVE  /\ LocatedAt(u)'
                      /\ pc[u] \in Returning <=> pc'[u] \in Returning
                      /\ Publishing(u) => Publishing(u)'
                      /\ u = Main => pc'[u] \notin {"take", "steal", "cas"}
  BY NameFacts
<1>2. LocatedAt(u)
  BY DEF IInv, Located
<1>3. u = Main => pc[u] \notin {"take", "steal", "cas", "off"}
  BY <1>2, MainStays DEF IInv, MainRunsRoot, LocatedAt
<1>4. CASE pc'[u] = pc[u]
  BY <1>1, <1>2, <1>3, <1>4, StaysLocated DEF Publishing
<1>5. CASE pc'[u] # pc[u]
  <2>1. \/ pc[u] = "parked" /\ pc'[u] = "woken"
        \/ pc[u] = "off" /\ pc'[u] = "take"
        \/ pc[u] = "blocked" /\ pc'[u] \in {"wait", "body"}
    BY <1>1, <1>5 DEF Others
  <2>2. frames'[u] = frames[u]
    BY <1>1
  <2>3. LocatedAt(u)'
    BY <1>2, <2>1, <2>2 DEF LocatedAt, Top, Finished, Op
  <2>4. QED
    BY <2>1, <2>3, <1>3 DEF Returning, Publishing
<1>6. QED
  BY <1>4, <1>5

(* A step that moves its own thread, and wakes or starts others. *)
LEMMA MoveKeeps ==
  ASSUME IInv, NEW t \in Thread, UNCHANGED stable, TypeOK', Others(t), LocatedAt(t)',
         \A u \in Thread : u # t => look'[u] = look[u],
         pc[t] \in Returning <=> pc'[t] \in Returning,
         Publishing(t) => Publishing(t)',
         t = Main => pc'[t] \notin {"take", "steal", "cas"}
  PROVE  IInv'
<1>1. /\ \A u \in Thread : u # t => LocatedAt(u)'
      /\ \A u \in Thread : u # t => (pc[u] \in Returning <=> pc'[u] \in Returning)
      /\ \A u \in Thread : u # t => (Publishing(u) => Publishing(u)')
      /\ t # Main => pc'[Main] \notin {"take", "steal", "cas"}
  BY OthersLocated DEF stable
<1>2. Located'
  BY <1>1 DEF Located
<1>3. Quiet
  BY <1>1 DEF Quiet
<1>4. QED
  BY <1>2, <1>3, QuietKeeps

(* The same when nothing but the thread's place changes. *)
LEMMA GotoFacts ==
  ASSUME IInv, NEW t \in Thread, NEW l \in Label, Goto(t, l)
  PROVE  pc' \in [Thread -> Label] /\ pc'[t] = l /\ Others(t)
BY DEF IInv, TypeOK, Goto, Others

(* A thief looks at a victim. *)
LEMMA StealLookKeeps ==
  ASSUME IInv, NEW t \in Thread, StealLook(t)
  PROVE  IInv'
<1>1. UNCHANGED stable /\ UNCHANGED <<final, children, left, count, closed, shutdown>>
  BY DEF StealLook, stable, queueVars, taskVars, chanVars
<1>2. pc[t] = "steal" /\ look[t].victims \subseteq Worker /\ LocatedAt(t) /\ t # Main
  BY NotMain DEF StealLook, IInv, TypeOK, Located
<1>3. PICK v \in look[t].victims :
         \/ /\ deque[v] = << >>
            /\ look' = [look EXCEPT ![t].victims = @ \ {v}]
            /\ UNCHANGED pc
         \/ /\ deque[v] # << >>
            /\ look' = [look EXCEPT ![t].from = v, ![t].item = Head(deque[v])]
            /\ Goto(t, "cas")
  BY DEF StealLook
<1>4. v \in Worker
  BY <1>2, <1>3
<1>5. CASE deque[v] = << >>
  <2>1. look' = [look EXCEPT ![t].victims = @ \ {v}] /\ UNCHANGED pc
    BY <1>3, <1>5
  <2>2. TypeOK'
    BY <1>1, <1>4, <2>1 DEF IInv, TypeOK, stable
  <2>3. LocatedAt(t)'
    BY <1>1, <1>2, <2>1, SameTops DEF LocatedAt, stable
  <2>4. QED
    BY <1>1, <1>2, <2>1, <2>2, <2>3, MoveKeeps DEF Others, Publishing, IInv, TypeOK
<1>6. CASE deque[v] # << >>
  <2>1. look' = [look EXCEPT ![t].from = v, ![t].item = Head(deque[v])] /\ Goto(t, "cas")
    BY <1>3, <1>6
  <2>2. pc' \in [Thread -> Label] /\ pc'[t] = "cas" /\ Others(t)
    BY <2>1, GotoFacts DEF Label
  <2>3. Head(deque[v]) \in Task
    BY <1>4, <1>6 DEF IInv, TypeOK
  <2>4. look'[t].from = v /\ \A u \in Thread : u # t => look'[u] = look[u]
    BY <2>1 DEF IInv, TypeOK
  <2>5. TypeOK'
    BY <1>1, <1>4, <2>1, <2>2, <2>3, ZenonT(60) DEF IInv, TypeOK, stable
  <2>6. LocatedAt(t)'
    BY <1>1, <1>2, <1>4, <2>2, <2>4, SameTops DEF LocatedAt, stable
  <2>7. QED
    BY <1>1, <1>2, <2>2, <2>4, <2>5, <2>6, MoveKeeps DEF Returning, Publishing
<1>7. QED
  BY <1>5, <1>6

(* A step that changes nothing but places and flags. *)
LEMMA PlacesKeep ==
  ASSUME IInv, NEW t \in Thread, UNCHANGED stable,
         UNCHANGED <<look, children, left, count, closed>>,
         final' \in [Thread -> BOOLEAN], shutdown' \in BOOLEAN,
         pc' \in [Thread -> Label], Others(t), LocatedAt(t)',
         pc[t] \in Returning <=> pc'[t] \in Returning,
         Publishing(t) => Publishing(t)',
         t = Main => pc'[t] \notin {"take", "steal", "cas"}
  PROVE  IInv'
<1>1. TypeOK'
  BY DEF IInv, TypeOK, stable
<1>2. QED
  BY <1>1, MoveKeeps

(* A pool worker without work parks, or notes the shutdown and exits. *)
LEMMA WorkerIdleKeeps ==
  ASSUME IInv, NEW t \in Thread, WorkerIdle(t)
  PROVE  IInv'
<1>1. /\ UNCHANGED stable /\ UNCHANGED <<look, children, left, count, closed, shutdown>>
      /\ pc[t] = "none"
  BY DEF WorkerIdle, stable, queueVars, taskVars, chanVars
<1>2. LocatedAt(t) /\ frames[t] = << >> /\ t # Main
  BY <1>1, NotMain DEF IInv, Located, LocatedAt
<1>3. final' \in [Thread -> BOOLEAN] /\ shutdown' \in BOOLEAN
  BY <1>1 DEF WorkerIdle, IInv, TypeOK
<1>4. PICK l \in {"park", "take", "exited"} : Goto(t, l)
  <2>1. CASE ~shutdown
    BY <2>1 DEF WorkerIdle
  <2>2. CASE shutdown /\ ~final[t]
    BY <2>2 DEF WorkerIdle
  <2>3. CASE shutdown /\ final[t]
    BY <2>3 DEF WorkerIdle
  <2>4. QED
    BY <2>1, <2>2, <2>3 DEF IInv, TypeOK
<1>5. pc' \in [Thread -> Label] /\ pc'[t] = l /\ Others(t)
  BY <1>4, GotoFacts DEF Label
<1>6. LocatedAt(t)'
  BY <1>1, <1>2, <1>5 DEF LocatedAt, stable
<1>7. QED
  BY <1>1, <1>2, <1>3, <1>5, <1>6, PlacesKeep DEF Returning, Publishing

(* An elastic worker without work ends. *)
LEMMA ElasticExitKeeps ==
  ASSUME IInv, NEW t \in Thread, ElasticExit(t)
  PROVE  IInv'
<1>1. /\ UNCHANGED stable /\ UNCHANGED <<look, final, children, left, count, closed, shutdown>>
      /\ pc[t] = "none"
  BY DEF ElasticExit, stable, queueVars, taskVars, chanVars
<1>2. frames[t] = << >> /\ t # Main
  BY <1>1, NotMain DEF IInv, Located, LocatedAt
<1>3. pc' \in [Thread -> Label] /\ pc'[t] = "off" /\ Others(t)
  BY GotoFacts DEF Label, ElasticExit
<1>4. LocatedAt(t)'
  BY <1>1, <1>2, <1>3 DEF LocatedAt, stable
<1>5. QED
  BY <1>1, <1>2, <1>3, <1>4, PlacesKeep DEF Returning, Publishing, IInv, TypeOK

(* A worker parks, or goes back to look for work. *)
LEMMA ParkUntilWorkKeeps ==
  ASSUME IInv, NEW t \in Thread, ParkUntilWork(t)
  PROVE  IInv'
<1>1. /\ UNCHANGED stable /\ UNCHANGED <<look, final, children, left, count, closed, shutdown>>
      /\ pc[t] \in {"park", "woken"}
  BY DEF ParkUntilWork, stable, queueVars, taskVars, chanVars
<1>2. frames[t] = << >> /\ t # Main
  BY <1>1, NotMain DEF IInv, Located, LocatedAt
<1>3. PICK l \in {"take", "parked"} : Goto(t, l)
  BY DEF ParkUntilWork
<1>4. pc' \in [Thread -> Label] /\ pc'[t] = l /\ Others(t)
  BY <1>3, GotoFacts DEF Label
<1>5. LocatedAt(t)'
  BY <1>1, <1>2, <1>4 DEF LocatedAt, stable
<1>6. QED
  BY <1>1, <1>2, <1>4, <1>5, PlacesKeep DEF Returning, Publishing, IInv, TypeOK

(* A worker that pushed to its own deque wakes a parked peer. *)
LEMMA SpawnSignalKeeps ==
  ASSUME IInv, NEW t \in Thread, SpawnSignal(t)
  PROVE  IInv'
<1>1. /\ UNCHANGED stable /\ UNCHANGED <<look, final, children, left, count, closed, shutdown>>
      /\ pc[t] = "signal" /\ SignalPool(t, "attach")
  BY DEF SpawnSignal, stable, queueVars, taskVars, chanVars
<1>2. LocatedAt(t)
  BY DEF IInv, Located
<1>3. pc' \in [Thread -> Label] /\ pc'[t] = "attach" /\ Others(t)
  BY <1>1, SignalPoolFacts DEF Label, Others
<1>4. LocatedAt(t)'
  BY <1>1, <1>2, <1>3, SameTops DEF LocatedAt, stable
<1>5. QED
  BY <1>1, <1>3, <1>4, PlacesKeep DEF Returning, Publishing, IInv, TypeOK

(* A thread that waits has its operation before it. *)
LEMMA AtFacts ==
  ASSUME IInv, NEW t \in Thread, NEW name, At(t, name)
  PROVE  /\ pc[t] = "body" /\ ~Finished(t) /\ Op(t)[1] = name /\ frames[t] # << >>
         /\ Top(t).at \in DOMAIN load.body[Top(t).task]
         /\ Top(t).task \in Body
BY AtOp, TopFacts DEF At, IInv, Located, LocatedAt

(* A pool worker starts to help; others go to sleep. *)
LEMMA JoinPendingKeeps ==
  ASSUME IInv, NEW t \in Thread, JoinPending(t)
  PROVE  IInv'
<1>1. /\ UNCHANGED stable /\ UNCHANGED <<look, final, children, left, count, closed, shutdown>>
      /\ Waiting(t)
  BY DEF JoinPending, stable, queueVars, taskVars, chanVars
<1>2. pc[t] = "body" /\ ~Finished(t) /\ frames[t] # << >>
  BY <1>1, AtFacts DEF Waiting
<1>3. IsPool(t) => t # Main
  BY LoadFacts, NameFacts DEF IsPool, Pool, IInv
<1>4. PICK l \in {"take", "wait"} : Goto(t, l) /\ (l = "take" => t # Main)
  BY <1>3 DEF JoinPending
<1>5. pc' \in [Thread -> Label] /\ pc'[t] = l /\ Others(t)
  BY <1>4, GotoFacts DEF Label
<1>6. LocatedAt(t)'
  BY <1>1, <1>2, <1>5, SameTops DEF LocatedAt, stable
<1>7. QED
  BY <1>1, <1>2, <1>4, <1>5, <1>6, PlacesKeep DEF Returning, Publishing, IInv, TypeOK

(* The wait under the handle's mutex. *)
LEMMA JoinWaitKeeps ==
  ASSUME IInv, NEW t \in Thread, JoinWait(t)
  PROVE  IInv'
<1>1. /\ UNCHANGED stable /\ UNCHANGED <<look, final, children, left, count, closed, shutdown>>
      /\ pc[t] = "wait"
  BY DEF JoinWait, stable, queueVars, taskVars, chanVars
<1>2. ~Finished(t) /\ frames[t] # << >>
  BY <1>1 DEF IInv, Located, LocatedAt
<1>3. PICK l \in {"body", "blocked"} : Goto(t, l)
  BY DEF JoinWait
<1>4. pc' \in [Thread -> Label] /\ pc'[t] = l /\ Others(t)
  BY <1>3, GotoFacts DEF Label
<1>5. LocatedAt(t)'
  BY <1>1, <1>2, <1>4, SameTops DEF LocatedAt, stable
<1>6. QED
  BY <1>1, <1>4, <1>5, PlacesKeep DEF Returning, Publishing, IInv, TypeOK

(* A worker that is about to block may start an elastic one. *)
LEMMA NotifyBlockingWaitKeeps ==
  ASSUME IInv, NEW t \in Thread, NotifyBlockingWait(t)
  PROVE  IInv'
<1>1. /\ UNCHANGED stable /\ UNCHANGED <<look, final, children, left, count, closed, shutdown>>
      /\ pc[t] = "notify"
  BY DEF NotifyBlockingWait, stable, queueVars, taskVars, chanVars
<1>2. ~Finished(t) /\ frames[t] # << >>
  BY <1>1 DEF IInv, Located, LocatedAt
<1>3. pc' \in [Thread -> Label] /\ pc'[t] = "wait" /\ Others(t)
  BY <1>1, StartElasticFacts DEF Label, Others, NotifyBlockingWait
<1>4. LocatedAt(t)'
  BY <1>1, <1>2, <1>3, SameTops DEF LocatedAt, stable
<1>5. QED
  BY <1>1, <1>3, <1>4, PlacesKeep DEF Returning, Publishing, IInv, TypeOK

(* The joiners of a task are woken. *)
LEMMA BroadcastKeeps ==
  ASSUME IInv, NEW t \in Thread, Broadcast(t)
  PROVE  IInv'
<1>1. /\ UNCHANGED stable /\ UNCHANGED <<look, final, children, left, count, closed, shutdown>>
      /\ pc[t] = "broadcast"
  BY DEF Broadcast, stable, queueVars, taskVars, chanVars
<1>2. LocatedAt(t)
  BY DEF IInv, Located
<1> DEFINE W == BlockedOn(<<"join", Top(t).task>>)
<1>3. pc' = [u \in Thread |-> CASE u = t -> "dec" [] u \in W -> "body" [] OTHER -> pc[u]]
  BY DEF Broadcast
<1>4. \A u \in W : pc[u] = "blocked"
  BY DEF BlockedOn
<1> HIDE DEF W
<1>5. pc'[t] = "dec" /\ \A u \in Thread : u # t => pc'[u] = IF u \in W THEN "body" ELSE pc[u]
  BY <1>1, <1>3, <1>4
<1>6. pc' \in [Thread -> Label]
  <2>1. \A u \in Thread : pc'[u] \in Label
    BY <1>5 DEF Label, IInv, TypeOK
  <2>2. QED
    BY <1>3, <2>1
<1>7. Others(t)
  BY <1>4, <1>5 DEF Others
<1>8. LocatedAt(t)'
  BY <1>1, <1>2, <1>5, SameTops DEF LocatedAt, stable
<1>9. t # Main
  BY <1>1, MainStays DEF Returning
<1>10. QED
  BY <1>1, <1>5, <1>6, <1>7, <1>8, <1>9, PlacesKeep DEF Returning, Publishing, IInv, TypeOK

(* Main has returned: the workers are told. *)
LEMMA ShutdownKeeps ==
  ASSUME IInv, Shutdown
  PROVE  IInv'
<1>1. /\ UNCHANGED stable /\ UNCHANGED <<look, final, children, left, count, closed>>
      /\ pc[Main] = "body" /\ shutdown' = TRUE
  BY DEF Shutdown, stable, queueVars, taskVars, chanVars
<1>2. Main \in Thread
  BY NameFacts
<1>3. pc' = [u \in Thread |-> CASE u = Main -> "joinPool" [] u \in Parked -> "woken"
                                [] OTHER -> pc[u]]
  BY DEF Shutdown
<1>4. \A u \in Parked : pc[u] = "parked"
  BY DEF Parked
<1>5. pc'[Main] = "joinPool"
      /\ \A u \in Thread : u # Main => pc'[u] = IF u \in Parked THEN "woken" ELSE pc[u]
  BY <1>1, <1>2, <1>3, <1>4
<1>6. pc' \in [Thread -> Label]
  <2>1. \A u \in Thread : pc'[u] \in Label
    BY <1>5 DEF Label, IInv, TypeOK
  <2>2. QED
    BY <1>3, <2>1
<1>7. Others(Main)
  BY <1>4, <1>5 DEF Others
<1>8. LocatedAt(Main)'
  BY <1>5 DEF LocatedAt
<1>9. QED
  BY <1>1, <1>2, <1>5, <1>6, <1>7, <1>8, PlacesKeep DEF Returning, Publishing, IInv, TypeOK

(* Main ends, normally or in an abort. *)
LEMMA EndKeeps ==
  ASSUME IInv, NEW l \in {"gone", "aborted"}, Goto(Main, l), UNCHANGED stable,
         UNCHANGED <<look, final, children, left, count, closed, shutdown>>,
         l = "gone" => pc[Main] = "joinPool"
  PROVE  IInv'
<1>1. Main \in Thread /\ pc[Main] \notin Returning
  BY MainStays
<1>2. pc' \in [Thread -> Label] /\ pc'[Main] = l /\ Others(Main)
  BY <1>1, GotoFacts DEF Label
<1>3. LocatedAt(Main)'
  BY <1>2 DEF LocatedAt
<1>4. QED
  BY <1>1, <1>2, <1>3, PlacesKeep DEF Returning, Publishing, IInv, TypeOK

(* The pool is gone. *)
LEMMA ExitKeeps ==
  ASSUME IInv, Exit
  PROVE  IInv'
BY EndKeeps DEF Exit, stable, queueVars, taskVars, chanVars

(* A wake-up that nobody asked for. *)
LEMMA SpuriousWakeKeeps ==
  ASSUME IInv, NEW t \in Thread, SpuriousWake(t)
  PROVE  IInv'
<1>1. UNCHANGED stable /\ UNCHANGED <<look, final, children, left, count, closed, shutdown>>
  BY DEF SpuriousWake, stable, queueVars, taskVars, chanVars
<1>2. LocatedAt(t)
  BY DEF IInv, Located
<1>3. PICK l \in {"woken", "wait", "body"} :
        Goto(t, l) /\ pc[t] = (IF l = "woken" THEN "parked" ELSE "blocked")
  BY DEF SpuriousWake
<1>4. pc' \in [Thread -> Label] /\ pc'[t] = l /\ Others(t)
  BY <1>3, GotoFacts DEF Label
<1>5. LocatedAt(t)'
  BY <1>1, <1>2, <1>3, <1>4, SameTops DEF LocatedAt, stable
<1>6. QED
  BY <1>1, <1>3, <1>4, <1>5, PlacesKeep DEF Returning, Publishing, IInv, TypeOK

------------------------------------------------------------------------------
(* Steps of a body *)

(* What a step of t does to the other threads, in the words of the invariant. *)
LEMMA OthersSaved ==
  ASSUME IInv, NEW t \in Thread, Others(t)
  PROVE  \A u \in Thread : u # t => (pc[u] \in Returning <=> pc'[u] \in Returning)
BY DEF Others, Returning

(* The scopes depend on the program only. *)
LEMMA SameScopes ==
  ASSUME load' = load
  PROVE  \A b, k : ScopeAt(b, k)' = ScopeAt(b, k) /\ OpenAt(b, k)' = OpenAt(b, k)
BY DEF ScopeAt, OpenAt

(* A body goes on, or marks its frame, and its task stays what it was. *)
LEMMA TopKeeps ==
  ASSUME IInv, NEW t \in Thread, frames[t] # << >>, NEW f \in FrameType,
         frames' = SetTop(t, f), f.task = Top(t).task, f.at >= Top(t).at,
         f.at =< Len(load.body[f.task]) + 1,
         UNCHANGED <<load, deque, inject, started, inflight, done>>,
         TypeOK', Others(t), \A u \in Thread : u # t => look'[u] = look[u],
         LocatedAt(t)', pc[t] \notin Returning, pc'[t] \notin Returning,
         t = Main => pc'[t] \notin {"take", "steal", "cas"},
         Publishing(t) => f.at > Top(t).at,
         GroupsSaved'
  PROVE  IInv'
<1>1. TypeOK /\ Len(frames[t]) \in DOMAIN frames[t] /\ Top(t) = frames[t][Len(frames[t])]
  BY TopFacts DEF IInv
<1>2. /\ \A u \in Thread : /\ Len(frames'[u]) = Len(frames[u])
                           /\ DOMAIN frames'[u] = DOMAIN frames[u]
                           /\ frames'[u] = << >> <=> frames[u] = << >>
                           /\ u # t => frames'[u] = frames[u]
      /\ \A u \in Thread : \A i \in DOMAIN frames[u] :
           ~(u = t /\ i = Len(frames[t])) => frames'[u][i] = frames[u][i]
      /\ frames'[t][Len(frames[t])] = f
      /\ Top(t)' = f
      /\ \A u \in Thread : u # t => Top(u)' = Top(u)
  BY <1>1, SetTopFacts
<1>3. \A u \in Thread : \A i \in DOMAIN frames[u] :
        frames'[u][i].task = frames[u][i].task /\ frames'[u][i].at >= frames[u][i].at
  <2>1. SUFFICES ASSUME NEW u \in Thread, NEW i \in DOMAIN frames[u]
                 PROVE  frames'[u][i].task = frames[u][i].task /\ frames'[u][i].at >= frames[u][i].at
    OBVIOUS
  <2>2. CASE u = t /\ i = Len(frames[t])
    BY <2>2, <1>1, <1>2
  <2>3. CASE ~(u = t /\ i = Len(frames[t]))
    <3>1. frames'[u][i] = frames[u][i]
      BY <2>3, <1>2
    <3>2. frames[u][i].at \in Nat
      BY <1>1, FrameFacts
    <3>3. QED
      BY <3>1, <3>2
  <2>4. QED
    BY <2>2, <2>3
<1>4. /\ \A u \in Thread : u # t => LocatedAt(u)'
      /\ \A u \in Thread : pc[u] \in Returning <=> pc'[u] \in Returning
      /\ \A u \in Thread : u # t => (Publishing(u) => Publishing(u)')
      /\ pc'[Main] \notin {"take", "steal", "cas"}
  BY <1>2, OthersLocated
<1>5. Located'
  BY <1>4 DEF Located
<1>6. MainRunsRoot'
  BY <1>2, <1>3, <1>4, NameFacts, FrameFacts, TopFacts, MainStays DEF IInv, MainRunsRoot
<1>7. InBody'
  <2>1. SUFFICES ASSUME NEW u \in Thread, NEW i \in DOMAIN frames[u]
                 PROVE  frames'[u][i].at =< Len(load.body[frames'[u][i].task]) + 1
    BY <1>2 DEF InBody
  <2>2. CASE u = t /\ i = Len(frames[t])
    BY <2>2, <1>2
  <2>3. CASE ~(u = t /\ i = Len(frames[t]))
    BY <2>3, <1>2 DEF IInv, InBody
  <2>4. QED
    BY <2>2, <2>3
<1>8. StartedOrDone'
  BY <1>2, <1>3, <1>4 DEF IInv, StartedOrDone, Returning
<1>9. OnePlace'
  BY <1>2, <1>3, SMTT(30) DEF IInv, OnePlace
<1>10. SpawnsBehind'
  <2>1. SUFFICES ASSUME NEW b \in Body, NEW k \in DOMAIN load.body[b],
                        load.body[b][k][1] = "spawn", load.body[b][k][2] \in started
                 PROVE  \/ Passed(b, k)'
                        \/ \E u \in Thread : /\ Publishing(u)' /\ frames'[u] # << >>
                                             /\ Top(u)'.task = b /\ Top(u)'.at = k
    BY DEF SpawnsBehind
  <2>2. k \in Nat
    BY <1>1, LoadFacts
  <2>3. Passed(b, k) => Passed(b, k)'
    <3>1. ASSUME NEW u \in Thread, NEW i \in DOMAIN frames[u],
                 frames[u][i].task = b, frames[u][i].at > k
          PROVE  frames'[u][i].task = b /\ frames'[u][i].at > k /\ i \in DOMAIN frames'[u]
      <4>1. frames[u][i].at \in Nat /\ frames'[u][i].at \in Nat
        <5>1. frames' \in [Thread -> Seq(FrameType)]
          BY DEF TypeOK
        <5>2. frames'[u][i] \in FrameType
          BY <5>1, <3>1, <1>2
        <5>3. QED
          BY <5>2, <3>1, <1>1, FrameFacts DEF FrameType
      <4>2. QED
        BY <3>1, <4>1, <2>2, <1>2, <1>3
    <3>2. QED
      BY <3>1 DEF Passed
  <2>4. CASE Passed(b, k)
    BY <2>3, <2>4
  <2>5. ASSUME NEW u \in Thread, Publishing(u), frames[u] # << >>, Top(u).task = b, Top(u).at = k
        PROVE  \/ Passed(b, k)'
               \/ Publishing(u)' /\ frames'[u] # << >> /\ Top(u)'.task = b /\ Top(u)'.at = k
    <3>1. CASE u = t
      <4>1. frames'[t][Len(frames[t])].task = b /\ frames'[t][Len(frames[t])].at > k
        BY <3>1, <2>5, <1>2
      <4>2. QED
        BY <4>1, <1>1, <1>2 DEF Passed
    <3>2. CASE u # t
      BY <3>2, <2>5, <1>2, <1>4
    <3>3. QED
      BY <3>1, <3>2
  <2>6. QED
    BY <2>1, <2>4, <2>5 DEF IInv, SpawnsBehind
<1>11. Counted'
  <2>1. \A u \in Thread : Running(u)' = Running(u)
    BY <1>2, <1>3 DEF Running
  <2>2. Live' = Live
    BY <2>1 DEF Live, Queued
  <2>3. QED
    BY <2>2 DEF IInv, Counted
<1>12. QED
  BY <1>5, <1>6, <1>7, <1>8, <1>9, <1>10, <1>11 DEF IInv

(* The groups saved in the frames, when the top frame of t becomes f. *)
LEMMA TopGroups ==
  ASSUME IInv, NEW t \in Thread, frames[t] # << >>, NEW f \in FrameType,
         frames' = SetTop(t, f), f.task = Top(t).task, f.prev = Top(t).prev,
         load' = load, Others(t), pc'[t] \notin Returning,
         \A u \in Thread : u # t => group'[u] = group[u],
         group'[t] = Scope(f),
         \A m \in OpenAt(f.task, f.at) : f.outer[load.body[f.task][m][2]] = ScopeAt(f.task, m)
  PROVE  GroupsSaved'
<1>1. TypeOK /\ Len(frames[t]) \in DOMAIN frames[t] /\ Top(t) = frames[t][Len(frames[t])]
      /\ DOMAIN frames[t] = 1 .. Len(frames[t]) /\ Len(frames[t]) \in Nat \ {0}
  BY TopFacts DEF IInv
<1>2. /\ \A u \in Thread : /\ Len(frames'[u]) = Len(frames[u])
                           /\ DOMAIN frames'[u] = DOMAIN frames[u]
                           /\ frames'[u] = << >> <=> frames[u] = << >>
                           /\ u # t => frames'[u] = frames[u]
      /\ \A u \in Thread : \A i \in DOMAIN frames[u] :
           ~(u = t /\ i = Len(frames[t])) => frames'[u][i] = frames[u][i]
      /\ frames'[t][Len(frames[t])] = f
      /\ Top(t)' = f
      /\ \A u \in Thread : u # t => Top(u)' = Top(u)
  BY <1>1, SetTopFacts
<1>3. \A b, k : ScopeAt(b, k)' = ScopeAt(b, k) /\ OpenAt(b, k)' = OpenAt(b, k)
  BY SameScopes
<1>4. \A g : Scope(g)' = ScopeAt(g'.task, g'.at)
  BY <1>3 DEF Scope
<1>5. SUFFICES ASSUME NEW u \in Thread
               PROVE  /\ frames'[u] = << >> => group'[u] = NoGroup
                      /\ frames'[u] # << >> =>
                           /\ frames'[u][1].prev = NoGroup
                           /\ group'[u] = IF pc'[u] \in Returning THEN Top(u)'.prev
                                          ELSE ScopeAt(Top(u)'.task, Top(u)'.at)
                      /\ \A i \in 2 .. Len(frames'[u]) : frames'[u][i].prev
                           = ScopeAt(frames'[u][i - 1].task, frames'[u][i - 1].at)
                      /\ \A i \in DOMAIN frames'[u] :
                           \A m \in OpenAt(frames'[u][i].task, frames'[u][i].at) :
                             frames'[u][i].outer[load.body[frames'[u][i].task][m][2]]
                               = ScopeAt(frames'[u][i].task, m)
  BY <1>3 DEF GroupsSaved, Scope, Returning
<1>6. /\ frames[u] = << >> => group[u] = NoGroup
      /\ frames[u] # << >> =>
           /\ frames[u][1].prev = NoGroup
           /\ group[u] = IF pc[u] \in Returning THEN Top(u).prev ELSE ScopeAt(Top(u).task, Top(u).at)
      /\ \A i \in 2 .. Len(frames[u]) : frames[u][i].prev
           = ScopeAt(frames[u][i - 1].task, frames[u][i - 1].at)
      /\ \A i \in DOMAIN frames[u] : \A m \in OpenAt(frames[u][i].task, frames[u][i].at) :
           frames[u][i].outer[load.body[frames[u][i].task][m][2]] = ScopeAt(frames[u][i].task, m)
  BY DEF IInv, GroupsSaved, Scope, Returning
<1>7. CASE u # t
  <2>1. /\ frames'[u] = frames[u] /\ Top(u)' = Top(u) /\ group'[u] = group[u]
        /\ pc[u] \in Returning <=> pc'[u] \in Returning
    BY <1>2, <1>7, OthersSaved
  <2>2. QED
    BY <2>1, <1>6, SMTT(30)
<1>8. CASE u = t
  <2>1. ASSUME NEW i \in DOMAIN frames[t]
        PROVE  frames'[t][i].prev = frames[t][i].prev
    <3>1. CASE i = Len(frames[t])
      <4>1. frames'[t][i] = f /\ frames[t][i] = Top(t)
        BY <3>1, <1>1, <1>2
      <4>2. QED
        BY <4>1
    <3>2. CASE i # Len(frames[t])
      <4>1. frames'[t][i] = frames[t][i]
        BY <3>2, <1>2
      <4>2. QED
        BY <4>1
    <3>3. QED
      BY <3>1, <3>2
  <2>2. frames'[t][1].prev = NoGroup
    <3>1. 1 \in DOMAIN frames[t]
      BY <1>1, SMTT(30)
    <3>2. frames[t][1].prev = NoGroup
      BY <1>6, <1>8
    <3>3. QED
      BY <2>1, <3>1, <3>2
  <2>3. ASSUME NEW i \in 2 .. Len(frames[t])
        PROVE  frames'[t][i].prev = ScopeAt(frames'[t][i - 1].task, frames'[t][i - 1].at)
    <3>1. i \in DOMAIN frames[t] /\ i - 1 \in DOMAIN frames[t] /\ i - 1 # Len(frames[t])
      BY <1>1, SMTT(30)
    <3>2. frames'[t][i - 1] = frames[t][i - 1]
      BY <3>1, <1>2
    <3>3. QED
      BY <2>1, <3>1, <3>2, <1>6, <1>8, SMTT(30)
  <2>4. ASSUME NEW i \in DOMAIN frames[t], NEW m \in OpenAt(frames'[t][i].task, frames'[t][i].at)
        PROVE  frames'[t][i].outer[load.body[frames'[t][i].task][m][2]]
                 = ScopeAt(frames'[t][i].task, m)
    <3>1. CASE i = Len(frames[t])
      BY <3>1, <2>4, <1>2
    <3>2. CASE i # Len(frames[t])
      <4>1. frames'[t][i] = frames[t][i]
        BY <3>2, <1>2
      <4>2. QED
        BY <4>1, <2>4, <1>6, <1>8, SMTT(30)
    <3>3. QED
      BY <3>1, <3>2
  <2>5. group'[t] = ScopeAt(Top(t)'.task, Top(t)'.at)
    BY <1>2 DEF Scope
  <2>6. QED
    <3>1. /\ frames'[t] # << >> /\ Len(frames'[t]) = Len(frames[t])
          /\ DOMAIN frames'[t] = DOMAIN frames[t]
      BY <1>2
    <3>2. \A i \in 2 .. Len(frames'[t]) :
            frames'[t][i].prev = ScopeAt(frames'[t][i - 1].task, frames'[t][i - 1].at)
      BY <2>3, <3>1
    <3>3. \A i \in DOMAIN frames'[t] :
            \A m \in OpenAt(frames'[t][i].task, frames'[t][i].at) :
              frames'[t][i].outer[load.body[frames'[t][i].task][m][2]]
                = ScopeAt(frames'[t][i].task, m)
      BY <2>4, <3>1
    <3>4. QED
      BY <2>2, <2>5, <3>1, <3>2, <3>3, <1>8
<1>9. QED
  BY <1>7, <1>8

(* The same for an operation that neither opens nor ends a scope. *)
LEMMA PlainGroups ==
  ASSUME IInv, NEW t \in Thread, frames[t] # << >>, NEW f \in FrameType,
         frames' = SetTop(t, f), f.task = Top(t).task, f.prev = Top(t).prev,
         f.outer = Top(t).outer,
         \/ f.at = Top(t).at
         \/ f.at = Top(t).at + 1 /\ ~Finished(t) /\ Op(t)[1] \notin {"group", "endgroup"},
         load' = load, group' = group, Others(t),
         pc[t] \notin Returning, pc'[t] \notin Returning
  PROVE  GroupsSaved'
<1>1. TypeOK /\ Len(frames[t]) \in DOMAIN frames[t] /\ Top(t) = frames[t][Len(frames[t])]
      /\ Top(t).task \in Body
  BY TopFacts DEF IInv
<1>2. OpenAt(f.task, f.at) = OpenAt(Top(t).task, Top(t).at) /\ Scope(f) = Scope(Top(t))
  <2>1. CASE f.at = Top(t).at
    BY <2>1 DEF Scope
  <2>2. CASE f.at = Top(t).at + 1 /\ ~Finished(t) /\ Op(t)[1] \notin {"group", "endgroup"}
    BY <2>2, <1>1, AtOp, ScopePlain DEF Scope
  <2>3. QED
    BY <2>1, <2>2
<1>3. group[t] = Scope(Top(t))
  BY DEF IInv, GroupsSaved, Returning
<1>4. \A m \in OpenAt(Top(t).task, Top(t).at) :
        Top(t).outer[load.body[Top(t).task][m][2]] = ScopeAt(Top(t).task, m)
  BY <1>1, SMTT(30) DEF IInv, GroupsSaved
<1>5. QED
  BY <1>2, <1>3, <1>4, TopGroups

(* The frame of a body at its next operation. *)
LEMMA NextFrame ==
  ASSUME NEW p \in FrameType, NEW f, f = [p EXCEPT !.at = @ + 1, !.reaping = FALSE]
  PROVE  /\ f \in FrameType /\ f.task = p.task /\ f.prev = p.prev
         /\ f.outer = p.outer /\ f.kids = p.kids /\ ~f.reaping
         /\ p.at \in Nat \ {0} /\ f.at = p.at + 1 /\ f.at > p.at /\ f.at >= p.at
<1>1. p \in [task : Body, at : Nat \ {0}, prev : AnyGroup, outer : [Group -> AnyGroup],
             kids : Seq(Task), reaping : BOOLEAN]
  BY DEF FrameType
<1>2. p.at \in Nat \ {0}
  BY <1>1
<1>3. f.task = p.task /\ f.prev = p.prev /\ f.outer = p.outer /\ f.kids = p.kids
  BY <1>1
<1>4. f.at = p.at + 1 /\ f.reaping = FALSE
  BY <1>1
<1>5. p.at + 1 \in Nat \ {0}
  BY <1>2
<1>6. f \in [task : Body, at : Nat \ {0}, prev : AnyGroup, outer : [Group -> AnyGroup],
             kids : Seq(Task), reaping : BOOLEAN]
  BY <1>1, <1>5
<1>7. QED
  BY <1>2, <1>3, <1>4, <1>6 DEF FrameType

(* A body goes on to its next operation, in the same scope. *)
LEMMA AdvanceKeeps ==
  ASSUME IInv, NEW t \in Thread, frames[t] # << >>, ~Finished(t),
         Op(t)[1] \notin {"group", "endgroup"}, frames' = Advanced(t),
         UNCHANGED <<load, group, look, final, deque, inject, started, inflight, done, left,
                     shutdown>>,
         children' \in [Group -> Seq(Task)], count' \in [Chan -> Nat], closed' \subseteq Chan,
         pc' \in [Thread -> Label], Others(t), pc[t] \notin Returning, pc'[t] = "body"
  PROVE  IInv'
<1> DEFINE f == [Top(t) EXCEPT !.at = @ + 1, !.reaping = FALSE]
<1>1. TypeOK /\ Top(t) \in FrameType /\ Top(t).at \in Nat
  BY TopFacts DEF IInv
<1>2. /\ f \in FrameType /\ f.task = Top(t).task /\ f.prev = Top(t).prev
      /\ f.outer = Top(t).outer /\ f.at = Top(t).at + 1 /\ f.at > Top(t).at
      /\ f.at >= Top(t).at
  BY <1>1, NextFrame
<1>3. frames' = SetTop(t, f)
  BY DEF Advanced
<1> HIDE DEF f
<1>4. f.at =< Len(load.body[f.task]) + 1
  <2>1. load.body[f.task] \in Seq(Operation)
    BY <1>1, <1>2, LoadFacts DEF FrameType
  <2>2. QED
    BY <2>1, <1>1, <1>2, AtOp
<1>5. frames' \in [Thread -> Seq(FrameType)] /\ frames'[t] # << >>
  BY <1>1, <1>2, <1>3, SetTopFacts
<1>6. TypeOK'
  BY <1>5 DEF IInv, TypeOK
<1>7. LocatedAt(t)'
  BY <1>5 DEF LocatedAt
<1>8. GroupsSaved'
  BY <1>2, <1>3, PlainGroups DEF Returning
<1>9. pc'[t] \notin Returning /\ pc'[t] \notin {"take", "steal", "cas"}
  BY DEF Returning
<1>10. QED
  BY <1>2, <1>3, <1>4, <1>6, <1>7, <1>8, <1>9, TopKeeps

(* The spawned task is attached to its group. *)
LEMMA AttachKeeps ==
  ASSUME IInv, NEW t \in Thread, Attach(t)
  PROVE  IInv'
<1>1. pc[t] = "attach" /\ TypeOK
  BY DEF Attach, IInv
<1>2. frames[t] # << >> /\ ~Finished(t) /\ Op(t)[1] = "spawn"
  BY <1>1 DEF IInv, Located, LocatedAt
<1>3. Op(t)[2] \in Task
  BY <1>1, <1>2, AtOp
<1>4. load.group[Op(t)[2]] \in AnyGroup
  BY <1>1, <1>3, LoadFacts
<1> DEFINE x == Op(t)[2]
           g == load.group[x]
           Linked == children' = IF g = NoGroup THEN children
                                 ELSE [children EXCEPT ![g] = <<x>> \o @]
<1>5. UNCHANGED <<load, group, look, final, deque, inject, started, inflight, done, left,
                  count, closed, shutdown>>
  BY DEF Attach, queueVars, chanVars
<1>6. \/ Linked /\ frames' = Advanced(t) /\ Goto(t, "body")
      \/ Goto(Main, "aborted") /\ UNCHANGED <<children, frames>>
  BY DEF Attach
<1>7. CASE Linked /\ frames' = Advanced(t) /\ Goto(t, "body")
  <2>1. children \in [Group -> Seq(Task)] /\ x \in Task /\ g \in AnyGroup /\ Linked
    BY <1>1, <1>3, <1>4, <1>7 DEF TypeOK
  <2>2. children' \in [Group -> Seq(Task)]
    <3> HIDE DEF x, g
    <3>1. \A h \in Group : <<x>> \o children[h] \in Seq(Task)
      BY <2>1
    <3>2. QED
      BY <2>1, <3>1 DEF AnyGroup
  <2>3. pc' \in [Thread -> Label] /\ pc'[t] = "body" /\ Others(t)
    BY <1>7, GotoFacts DEF Label
  <2>4. QED
    BY <1>1, <1>2, <1>5, <1>7, <2>2, <2>3, AdvanceKeeps DEF Returning, TypeOK
<1>8. CASE Goto(Main, "aborted") /\ UNCHANGED <<children, frames>>
  BY <1>5, <1>8, EndKeeps DEF stable
<1>9. QED
  BY <1>6, <1>7, <1>8

(* The safepoint may start an elastic worker. *)
LEMMA SafepointKeeps ==
  ASSUME IInv, NEW t \in Thread, Safepoint(t)
  PROVE  IInv'
<1>1. /\ pc[t] = "body" /\ ~Finished(t) /\ Op(t)[1] = "poll" /\ frames[t] # << >>
      /\ frames' = Advanced(t)
  BY AtFacts DEF Safepoint
<1>2. pc' \in [Thread -> Label] /\ pc'[t] = "body" /\ Others(t)
  BY <1>1, StartElasticFacts DEF Safepoint, Label, Others
<1>3. QED
  BY <1>1, <1>2, AdvanceKeeps
     DEF Safepoint, queueVars, chanVars, taskVars, Returning, IInv, TypeOK

(* A thread that sends or receives has its operation before it. *)
LEMMA InChanFacts ==
  ASSUME IInv, NEW t \in Thread, NEW name \in {"send", "recv"}, InChan(t, name)
  PROVE  /\ pc[t] \in {"body", "wait"} /\ ~Finished(t) /\ frames[t] # << >>
         /\ Op(t)[1] = name /\ Op(t)[2] \in Chan
<1>1. /\ pc[t] \in {"body", "wait"} /\ ~Finished(t) /\ frames[t] # << >> /\ Op(t)[1] = name
  BY AtFacts DEF InChan, IInv, Located, LocatedAt
<1>2. QED
  BY <1>1, AtOp DEF IInv

(* A thread that cannot send or receive goes to wait. *)
LEMMA ChanBlockKeeps ==
  ASSUME IInv, NEW t \in Thread, pc[t] \in {"body", "wait"}, ~Finished(t), frames[t] # << >>,
         ChanBlock(t), UNCHANGED stable,
         UNCHANGED <<look, final, children, left, count, closed, shutdown>>
  PROVE  IInv'
<1>1. PICK l \in {"notify", "blocked"} : Goto(t, l)
  BY DEF ChanBlock
<1>2. pc' \in [Thread -> Label] /\ pc'[t] = l /\ Others(t)
  BY <1>1, GotoFacts DEF Label
<1>3. LocatedAt(t)'
  BY <1>2, SameTops DEF LocatedAt, stable
<1>4. QED
  BY <1>2, <1>3, PlacesKeep DEF Returning, Publishing, IInv, TypeOK

(* A send aborts the program, puts its value in the channel, or waits. *)
LEMMA SendKeeps ==
  ASSUME IInv, NEW t \in Thread, Send(t)
  PROVE  IInv'
<1> DEFINE c == Op(t)[2]
<1>1. /\ pc[t] \in {"body", "wait"} /\ ~Finished(t) /\ frames[t] # << >>
      /\ Op(t)[1] = "send" /\ c \in Chan
  BY InChanFacts DEF Send
<1>2. UNCHANGED <<load, group, look, final, deque, inject, started, inflight, done, children, left,
                  closed, shutdown>>
  BY DEF Send, queueVars, taskVars
<1>3. \/ Goto(Main, "aborted") /\ UNCHANGED <<frames, count>>
      \/ /\ count' = [count EXCEPT ![c] = @ + 1]
         /\ SignalChan(t, <<"recv", c>>)
         /\ frames' = Advanced(t)
      \/ ChanBlock(t) /\ UNCHANGED <<frames, count>>
  BY DEF Send
<1> HIDE DEF c
<1>4. CASE Goto(Main, "aborted") /\ UNCHANGED <<frames, count>>
  BY <1>2, <1>4, EndKeeps DEF stable
<1>5. CASE /\ count' = [count EXCEPT ![c] = @ + 1]
           /\ SignalChan(t, <<"recv", c>>)
           /\ frames' = Advanced(t)
  <2>1. pc' \in [Thread -> Label] /\ pc'[t] = "body" /\ Others(t)
    BY <1>1, <1>5, SignalChanFacts DEF Others
  <2>2. count' \in [Chan -> Nat] /\ closed' \subseteq Chan /\ children' \in [Group -> Seq(Task)]
    BY <1>1, <1>2, <1>5 DEF IInv, TypeOK
  <2>3. QED
    BY <1>1, <1>2, <1>5, <2>1, <2>2, AdvanceKeeps DEF Returning
<1>6. CASE ChanBlock(t) /\ UNCHANGED <<frames, count>>
  BY <1>1, <1>2, <1>6, ChanBlockKeeps DEF stable
<1>7. QED
  BY <1>3, <1>4, <1>5, <1>6

(* A receive takes a value, finds the channel closed, or waits. *)
LEMMA RecvKeeps ==
  ASSUME IInv, NEW t \in Thread, Recv(t)
  PROVE  IInv'
<1> DEFINE c == Op(t)[2]
<1>1. /\ pc[t] \in {"body", "wait"} /\ ~Finished(t) /\ frames[t] # << >>
      /\ Op(t)[1] = "recv" /\ c \in Chan
  BY InChanFacts DEF Recv
<1>2. UNCHANGED <<load, group, look, final, deque, inject, started, inflight, done, children, left,
                  closed, shutdown>>
  BY DEF Recv, queueVars, taskVars
<1>3. \/ /\ count[c] > 0
         /\ count' = [count EXCEPT ![c] = @ - 1]
         /\ SignalChan(t, <<"send", c>>)
         /\ frames' = Advanced(t)
      \/ Goto(t, "body") /\ frames' = Advanced(t) /\ UNCHANGED count
      \/ ChanBlock(t) /\ UNCHANGED <<frames, count>>
  BY DEF Recv
<1> HIDE DEF c
<1>4. CASE /\ count[c] > 0
           /\ count' = [count EXCEPT ![c] = @ - 1]
           /\ SignalChan(t, <<"send", c>>)
           /\ frames' = Advanced(t)
  <2>1. pc' \in [Thread -> Label] /\ pc'[t] = "body" /\ Others(t)
    BY <1>1, <1>4, SignalChanFacts DEF Others
  <2>2. count' \in [Chan -> Nat] /\ closed' \subseteq Chan /\ children' \in [Group -> Seq(Task)]
    BY <1>1, <1>2, <1>4 DEF IInv, TypeOK
  <2>3. QED
    BY <1>1, <1>2, <1>4, <2>1, <2>2, AdvanceKeeps DEF Returning
<1>5. CASE Goto(t, "body") /\ frames' = Advanced(t) /\ UNCHANGED count
  <2>1. pc' \in [Thread -> Label] /\ pc'[t] = "body" /\ Others(t)
    BY <1>5, GotoFacts DEF Label
  <2>2. count' \in [Chan -> Nat] /\ closed' \subseteq Chan /\ children' \in [Group -> Seq(Task)]
    BY <1>2, <1>5 DEF IInv, TypeOK
  <2>3. QED
    BY <1>1, <1>2, <1>5, <2>1, <2>2, AdvanceKeeps DEF Returning
<1>6. CASE ChanBlock(t) /\ UNCHANGED <<frames, count>>
  BY <1>1, <1>2, <1>6, ChanBlockKeeps DEF stable
<1>7. QED
  BY <1>3, <1>4, <1>5, <1>6

(* Closing a channel wakes everybody who waits on it. *)
LEMMA CloseKeeps ==
  ASSUME IInv, NEW t \in Thread, Close(t)
  PROVE  IInv'
<1> DEFINE c == Op(t)[2]
           W == BlockedOn(<<"recv", c>>) \union BlockedOn(<<"send", c>>)
<1>1. /\ pc[t] = "body" /\ ~Finished(t) /\ frames[t] # << >> /\ Op(t)[1] = "close"
      /\ frames' = Advanced(t)
  BY AtFacts DEF Close
<1>2. c \in Chan
  BY <1>1, AtOp DEF IInv
<1>3. UNCHANGED <<load, group, look, final, deque, inject, started, inflight, done, children, left,
                  count, shutdown>>
  BY DEF Close, queueVars, taskVars
<1>4. closed' = closed \union {c} /\ pc' = [u \in Thread |-> IF u \in W THEN "wait" ELSE pc[u]]
  BY DEF Close
<1>5. \A u \in W : pc[u] = "blocked"
  BY DEF BlockedOn
<1> HIDE DEF c, W
<1>6. pc \in [Thread -> Label] /\ "wait" \in Label
  BY DEF IInv, TypeOK, Label
<1>7. pc' \in [Thread -> Label] /\ pc'[t] = "body" /\ Others(t)
  BY <1>1, <1>4, <1>5, <1>6 DEF Others
<1>8. closed' \subseteq Chan /\ count' \in [Chan -> Nat] /\ children' \in [Group -> Seq(Task)]
  BY <1>2, <1>3, <1>4 DEF IInv, TypeOK
<1>9. QED
  BY <1>1, <1>3, <1>7, <1>8, AdvanceKeeps DEF Returning

\* The frames EnterGroup, ReapStart and JoinDone make of the top frame.
Opened(p, g, h) == [p EXCEPT !.at = @ + 1, !.outer[g] = h]
WithKids(p, s) == [p EXCEPT !.reaping = TRUE, !.kids = s]

(* The frame of a body that opens a scope. *)
LEMMA ScopeFrame ==
  ASSUME NEW p \in FrameType, NEW g \in Group, NEW h \in AnyGroup, NEW f,
         f = Opened(p, g, h)
  PROVE  /\ f \in FrameType /\ f.task = p.task /\ f.prev = p.prev /\ (f.reaping <=> p.reaping)
         /\ f.outer[g] = h /\ \A e \in Group : e # g => f.outer[e] = p.outer[e]
         /\ p.at \in Nat \ {0} /\ f.at = p.at + 1 /\ f.at > p.at /\ f.at >= p.at
<1>1. p \in [task : Body, at : Nat \ {0}, prev : AnyGroup, outer : [Group -> AnyGroup],
             kids : Seq(Task), reaping : BOOLEAN]
  BY DEF FrameType
<1>2. p.at \in Nat \ {0} /\ p.outer \in [Group -> AnyGroup]
  BY <1>1
<1> DEFINE o == [p.outer EXCEPT ![g] = h]
<1>3. o \in [Group -> AnyGroup] /\ o[g] = h /\ \A e \in Group : e # g => o[e] = p.outer[e]
  BY <1>2
<1>4. f = [p EXCEPT !.at = p.at + 1, !.outer = o]
  BY <1>1 DEF Opened
<1> HIDE DEF o
<1>5. f.task = p.task /\ f.prev = p.prev /\ f.reaping = p.reaping
  BY <1>1, <1>4
<1>6. f.at = p.at + 1 /\ f.outer = o
  BY <1>1, <1>4
<1>7. p.at + 1 \in Nat \ {0}
  BY <1>2
<1>8. f \in [task : Body, at : Nat \ {0}, prev : AnyGroup, outer : [Group -> AnyGroup],
             kids : Seq(Task), reaping : BOOLEAN]
  BY <1>1, <1>3, <1>4, <1>7
<1>9. QED
  BY <1>2, <1>3, <1>5, <1>6, <1>8 DEF FrameType

(* The frame of a body that waits for the children of a group. *)
LEMMA KidsFrame ==
  ASSUME NEW p \in FrameType, NEW s \in Seq(Task), NEW f,
         f = WithKids(p, s)
  PROVE  /\ f \in FrameType /\ f.task = p.task /\ f.prev = p.prev /\ f.outer = p.outer
         /\ f.kids = s /\ f.reaping
         /\ p.at \in Nat \ {0} /\ f.at = p.at /\ f.at >= p.at
<1>1. p \in [task : Body, at : Nat \ {0}, prev : AnyGroup, outer : [Group -> AnyGroup],
             kids : Seq(Task), reaping : BOOLEAN]
  BY DEF FrameType
<1> USE DEF WithKids
<1>2. p.at \in Nat \ {0}
  BY <1>1
<1>3. f.task = p.task /\ f.prev = p.prev /\ f.outer = p.outer /\ f.at = p.at
  BY <1>1
<1>4. f.kids = s /\ f.reaping = TRUE
  BY <1>1
<1>5. f \in [task : Body, at : Nat \ {0}, prev : AnyGroup, outer : [Group -> AnyGroup],
             kids : Seq(Task), reaping : BOOLEAN]
  BY <1>1
<1>6. QED
  BY <1>2, <1>3, <1>4, <1>5 DEF FrameType

(* The groups a running body has saved. *)
LEMMA OuterFacts ==
  ASSUME IInv, NEW t \in Thread, frames[t] # << >>
  PROVE  \A m \in OpenAt(Top(t).task, Top(t).at) :
           Top(t).outer[load.body[Top(t).task][m][2]] = ScopeAt(Top(t).task, m)
<1>1. Len(frames[t]) \in DOMAIN frames[t] /\ Top(t) = frames[t][Len(frames[t])]
  BY TopFacts DEF IInv
<1>2. QED
  BY <1>1, SMTT(30) DEF IInv, GroupsSaved

(* A step of a body that stays in its body. *)
LEMMA BodyKeeps ==
  ASSUME IInv, NEW t \in Thread, pc[t] = "body", ~Finished(t), frames[t] # << >>,
         NEW f \in FrameType, frames' = SetTop(t, f), f.task = Top(t).task,
         f.at = Top(t).at \/ f.at = Top(t).at + 1,
         UNCHANGED <<load, pc, look, final, queueVars, done, chanVars, shutdown>>,
         group' \in [Thread -> AnyGroup], children' \in [Group -> Seq(Task)], left' \subseteq Group,
         GroupsSaved'
  PROVE  IInv'
<1>1. TypeOK /\ Top(t).at \in Nat \ {0} /\ Top(t).task \in Body
      /\ Top(t).at =< Len(load.body[Top(t).task])
  BY TopFacts, AtOp DEF IInv
<1>2. f.at >= Top(t).at /\ f.at =< Len(load.body[f.task]) + 1
  <2>1. load.body[Top(t).task] \in Seq(Operation)
    BY <1>1, LoadFacts
  <2>2. Len(load.body[Top(t).task]) \in Nat
    BY <2>1
  <2>3. QED
    BY <2>2, <1>1
<1>3. frames' \in [Thread -> Seq(FrameType)] /\ frames'[t] # << >>
  BY <1>1, SetTopFacts
<1>4. TypeOK'
  BY <1>3 DEF IInv, TypeOK, queueVars, chanVars
<1>5. LocatedAt(t)'
  BY <1>3 DEF LocatedAt
<1>6. Others(t)
  BY DEF Others
<1>7. pc[t] \notin Returning /\ pc'[t] \notin Returning /\ ~Publishing(t)
      /\ pc'[t] \notin {"take", "steal", "cas"}
  BY DEF Returning, Publishing
<1>8. UNCHANGED <<load, deque, inject, started, inflight, done, look>>
  BY DEF queueVars
<1>9. QED
  BY <1>2, <1>4, <1>5, <1>6, <1>7, <1>8, TopKeeps

(* osty_rt_task_group opens a scope and saves the group around it. *)
LEMMA EnterGroupKeeps ==
  ASSUME IInv, NEW t \in Thread, EnterGroup(t)
  PROVE  IInv'
<1> DEFINE b == Top(t).task
           k == Top(t).at
           g == Op(t)[2]
           f == Opened(Top(t), g, group[t])
<1>1. /\ pc[t] = "body" /\ ~Finished(t) /\ Op(t)[1] = "group" /\ frames[t] # << >>
      /\ k \in DOMAIN load.body[b] /\ b \in Body /\ Top(t) \in FrameType /\ TypeOK
  BY AtFacts, TopFacts DEF EnterGroup, IInv
<1>2. /\ frames' = SetTop(t, f) /\ group' = [group EXCEPT ![t] = g]
      /\ UNCHANGED <<load, pc, look, final, queueVars, done, children, left, chanVars, shutdown>>
  BY DEF EnterGroup, taskVars, Opened
<1>3. g \in Group /\ group \in [Thread -> AnyGroup] /\ group[t] \in AnyGroup
      /\ Op(t) = load.body[b][k]
  BY <1>1, AtOp DEF TypeOK
<1>4. /\ f \in FrameType /\ f.task = b /\ f.prev = Top(t).prev
      /\ f.outer[g] = group[t] /\ \A e \in Group : e # g => f.outer[e] = Top(t).outer[e]
      /\ f.at = k + 1
  BY <1>1, <1>3, ScopeFrame, SMTT(30)
<1> HIDE DEF f
<1>5. OpenAt(b, k + 1) = OpenAt(b, k) \union {k} /\ ScopeAt(b, k + 1) = g
  BY <1>1, <1>3, ScopeOpened
<1>6. group[t] = ScopeAt(b, k)
  BY <1>1 DEF IInv, GroupsSaved, Scope
<1>7. \A m \in OpenAt(b, k) : Top(t).outer[load.body[b][m][2]] = ScopeAt(b, m)
  BY <1>1, OuterFacts
<1>8. ASSUME NEW m \in OpenAt(b, k)
      PROVE  load.body[b][m][2] \in Group /\ load.body[b][m][2] # g
  <2>1. load.body[b] \in Seq(Operation) /\ MadeOnce(load)
    BY <1>1, LoadFacts
  <2>2. m \in 1 .. k - 1 /\ load.body[b][m][1] = "group" /\ k \in 1 .. Len(load.body[b])
        /\ Len(load.body[b]) \in Nat
    BY <2>1, <1>1 DEF OpenAt
  <2>3. m \in DOMAIN load.body[b] /\ m # k
    BY <2>1, <2>2
  <2>4. load.body[b][m] = <<"group", load.body[b][m][2]>> /\ load.body[b][k] = <<"group", g>>
    BY <2>2, <2>3, <1>1, <1>3, OpFacts, OpPair
  <2>5. load.body[b][m] # load.body[b][k]
    BY <2>1, <2>2, <2>3, <1>1 DEF MadeOnce
  <2>6. QED
    BY <2>2, <2>3, <2>4, <2>5, <1>1, OpFacts
<1>9. \A m \in OpenAt(f.task, f.at) : f.outer[load.body[f.task][m][2]] = ScopeAt(f.task, m)
  <2>1. ASSUME NEW m \in OpenAt(b, k)
        PROVE  f.outer[load.body[b][m][2]] = ScopeAt(b, m)
    BY <1>4, <1>7, <1>8
  <2>2. f.outer[load.body[b][k][2]] = ScopeAt(b, k)
    BY <1>3, <1>4, <1>6
  <2>3. QED
    BY <2>1, <2>2, <1>4, <1>5
<1>10. group'[t] = Scope(f) /\ group' \in [Thread -> AnyGroup]
       /\ \A u \in Thread : u # t => group'[u] = group[u]
  BY <1>2, <1>3, <1>4, <1>5 DEF Scope, AnyGroup
<1>11. GroupsSaved'
  BY <1>1, <1>2, <1>4, <1>9, <1>10, TopGroups DEF Others, Returning
<1>12. QED
  BY <1>1, <1>2, <1>4, <1>10, <1>11, BodyKeeps DEF TypeOK

(* The children of a group are taken off its list. *)
LEMMA ReapStartKeeps ==
  ASSUME IInv, NEW t \in Thread, ReapStart(t)
  PROVE  IInv'
<1> DEFINE g == Op(t)[2]
           f == WithKids(Top(t), children[g])
<1>1. /\ pc[t] = "body" /\ ~Finished(t) /\ Op(t)[1] = "endgroup" /\ frames[t] # << >>
      /\ Top(t) \in FrameType /\ TypeOK
  BY AtFacts, TopFacts DEF ReapStart, IInv
<1>2. /\ frames' = SetTop(t, f) /\ children' = [children EXCEPT ![g] = << >>]
      /\ UNCHANGED <<load, pc, group, look, final, queueVars, done, left, chanVars, shutdown>>
  BY DEF ReapStart, WithKids
<1>3. g \in Group /\ children[g] \in Seq(Task)
  BY <1>1, AtOp DEF TypeOK
<1>4. /\ f \in FrameType /\ f.task = Top(t).task /\ f.prev = Top(t).prev
      /\ f.outer = Top(t).outer /\ f.at = Top(t).at
  BY <1>1, <1>3, KidsFrame
<1> HIDE DEF f
<1>5. children' \in [Group -> Seq(Task)]
  <2>1. << >> \in Seq(Task)
    OBVIOUS
  <2>2. QED
    BY <2>1, <1>1, <1>2 DEF TypeOK
<1>6. GroupsSaved'
  BY <1>1, <1>2, <1>4, PlainGroups DEF Others, Returning
<1>7. QED
  BY <1>1, <1>2, <1>4, <1>5, <1>6, BodyKeeps DEF TypeOK

(* A scope is left, and the group around it is current again. *)
LEMMA LeaveGroupKeeps ==
  ASSUME IInv, NEW t \in Thread, LeaveGroup(t)
  PROVE  IInv'
<1> DEFINE b == Top(t).task
           k == Top(t).at
           g == Op(t)[2]
           f == [Top(t) EXCEPT !.at = @ + 1, !.reaping = FALSE]
<1>1. /\ pc[t] = "body" /\ ~Finished(t) /\ Op(t)[1] = "endgroup" /\ frames[t] # << >>
      /\ k \in DOMAIN load.body[b] /\ b \in Body /\ Top(t) \in FrameType /\ TypeOK
  BY AtFacts, TopFacts DEF LeaveGroup, IInv
<1>2. /\ frames' = SetTop(t, f) /\ group' = [group EXCEPT ![t] = Top(t).outer[g]]
      /\ left' = left \union {g}
      /\ UNCHANGED <<load, pc, look, final, queueVars, done, children, chanVars, shutdown>>
  BY DEF LeaveGroup, Advanced
<1>3. g \in Group /\ group \in [Thread -> AnyGroup] /\ Op(t) = load.body[b][k]
  BY <1>1, AtOp DEF TypeOK
<1>4. Top(t).outer[g] \in AnyGroup
  BY <1>1, <1>3 DEF FrameType
<1>5. /\ f \in FrameType /\ f.task = b /\ f.prev = Top(t).prev
      /\ f.outer = Top(t).outer /\ f.at = k + 1
  BY <1>1, NextFrame
<1> HIDE DEF f
<1>6. PICK m \in OpenAt(b, k) : /\ load.body[b][m][2] = g
                                /\ OpenAt(b, k + 1) \subseteq OpenAt(b, k)
                                /\ ScopeAt(b, k + 1) = ScopeAt(b, m)
  BY <1>1, <1>3, ScopeEnded
<1>7. \A n \in OpenAt(b, k) : Top(t).outer[load.body[b][n][2]] = ScopeAt(b, n)
  BY <1>1, OuterFacts
<1>8. \A n \in OpenAt(f.task, f.at) : f.outer[load.body[f.task][n][2]] = ScopeAt(f.task, n)
  BY <1>5, <1>6, <1>7
<1>9. group'[t] = Scope(f) /\ group' \in [Thread -> AnyGroup]
      /\ \A u \in Thread : u # t => group'[u] = group[u]
  BY <1>2, <1>3, <1>4, <1>5, <1>6, <1>7 DEF Scope
<1>10. GroupsSaved'
  BY <1>1, <1>2, <1>5, <1>8, <1>9, TopGroups DEF Others, Returning
<1>11. QED
  BY <1>1, <1>2, <1>3, <1>5, <1>9, <1>10, BodyKeeps DEF TypeOK

(* The handle that was waited for is done. *)
LEMMA JoinDoneKeeps ==
  ASSUME IInv, NEW t \in Thread, JoinDone(t)
  PROVE  IInv'
<1>1. /\ pc[t] = "body" /\ ~Finished(t) /\ frames[t] # << >>
      /\ Top(t) \in FrameType /\ TypeOK
      /\ \/ Op(t)[1] = "join"
         \/ Op(t)[1] = "endgroup" /\ Top(t).reaping /\ Top(t).kids # << >>
  BY AtFacts, TopFacts DEF JoinDone, IInv, Waiting
<1>2. /\ frames' = IF Op(t)[1] = "join" THEN Advanced(t)
                   ELSE SetTop(t, [Top(t) EXCEPT !.kids = Tail(@)])
      /\ UNCHANGED <<load, pc, group, look, final, queueVars, done, children, left, chanVars, shutdown>>
  BY DEF JoinDone, taskVars
<1>3. CASE Op(t)[1] = "join"
  BY <1>1, <1>2, <1>3, AdvanceKeeps DEF queueVars, chanVars, Returning, TypeOK, Others
<1>4. CASE Op(t)[1] = "endgroup" /\ Top(t).reaping /\ Top(t).kids # << >>
  <2> DEFINE s == Tail(Top(t).kids)
             f == WithKids(Top(t), s)
  <2>1. s \in Seq(Task)
    BY <1>1, <1>4 DEF FrameType
  <2>2. f = [Top(t) EXCEPT !.kids = Tail(@)]
    BY <1>1, <1>4, <2>1 DEF FrameType, WithKids
  <2>4. frames' = SetTop(t, f)
    BY <1>2, <1>4, <2>2
  <2> HIDE DEF s
  <2>3. /\ f \in FrameType /\ f.task = Top(t).task /\ f.prev = Top(t).prev
        /\ f.outer = Top(t).outer /\ f.at = Top(t).at
    <3>1. Top(t) \in FrameType
      BY <1>1
    <3>2. QED
      BY <3>1, <2>1, KidsFrame
  <2> HIDE DEF f
  <2>5. GroupsSaved'
    BY <1>1, <1>2, <2>3, <2>4, PlainGroups DEF Others, Returning
  <2>6. QED
    BY <1>1, <1>2, <2>3, <2>4, <2>5, BodyKeeps DEF TypeOK
<1>5. QED
  BY <1>1, <1>3, <1>4

------------------------------------------------------------------------------
(* Steps that start, end or spawn a task *)

(* A body is on one stack only, and in one place of it. *)
LEMMA OneFrame ==
  ASSUME IInv, NEW t \in Thread, NEW i \in DOMAIN frames[t],
         NEW u \in Thread, NEW j \in DOMAIN frames[u], frames[t][i].task = frames[u][j].task
  PROVE  t = u /\ i = j
BY DEF IInv, OnePlace

(* Who is queued or runs. *)
LEMMA LiveMember ==
  ASSUME NEW x
  PROVE  x \in Live <=> \/ \E w \in Worker : \E i \in DOMAIN deque[w] : deque[w][i] = x
                        \/ \E i \in DOMAIN inject : inject[i] = x
                        \/ x # Root /\ \E t \in Thread : \E i \in DOMAIN frames[t] : frames[t][i].task = x
<1>1. x \in Queued <=> \/ \E w \in Worker : \E i \in DOMAIN deque[w] : deque[w][i] = x
                       \/ \E i \in DOMAIN inject : inject[i] = x
  <2>1. x \in Range(inject) <=> \E i \in DOMAIN inject : inject[i] = x
    BY DEF Range
  <2>2. \A w \in Worker : x \in Range(deque[w]) <=> \E i \in DOMAIN deque[w] : deque[w][i] = x
    BY DEF Range
  <2>3. QED
    BY <2>1, <2>2 DEF Queued
<1>2. \A t \in Thread : x \in Running(t) <=> /\ x # Root
                                             /\ \E i \in DOMAIN frames[t] : frames[t][i].task = x
  BY DEF Running
<1>3. QED
  BY <1>1, <1>2 DEF Live

(* The same after a step. *)
LEMMA LiveMemberNext ==
  ASSUME NEW x
  PROVE  x \in Live' <=> \/ \E w \in Worker : \E i \in DOMAIN deque'[w] : deque'[w][i] = x
                         \/ \E i \in DOMAIN inject' : inject'[i] = x
                         \/ x # Root /\ \E t \in Thread : \E i \in DOMAIN frames'[t] : frames'[t][i].task = x
<1>1. x \in Queued' <=> \/ \E w \in Worker : \E i \in DOMAIN deque'[w] : deque'[w][i] = x
                        \/ \E i \in DOMAIN inject' : inject'[i] = x
  <2>1. x \in Range(inject') <=> \E i \in DOMAIN inject' : inject'[i] = x
    BY DEF Range
  <2>2. \A w \in Worker : x \in Range(deque'[w]) <=> \E i \in DOMAIN deque'[w] : deque'[w][i] = x
    BY DEF Range
  <2>3. QED
    BY <2>1, <2>2 DEF Queued
<1>2. x \in Live' <=> \/ x \in Queued'
                      \/ \E t \in Thread : x \in {frames'[t][i].task : i \in DOMAIN frames'[t]} \ {Root}
  BY DEF Live, Running
<1>3. QED
  BY <1>1, <1>2

(* What is queued or runs has been spawned: there are finitely many. *)
LEMMA LiveFacts ==
  ASSUME IInv
  PROVE  /\ Live \subseteq started /\ IsFiniteSet(Live)
         /\ inflight = Cardinality(Live) /\ Cardinality(Live) \in Nat
<1>1. ASSUME NEW x \in Live PROVE x \in started
  BY LiveMember DEF IInv, StartedOrDone
<1>2. Live \subseteq started /\ IsFiniteSet(started) /\ inflight = Cardinality(Live)
  BY <1>1 DEF IInv, Counted
<1>3. IsFiniteSet(Live)
  BY <1>2, FS_Subset
<1>4. QED
  BY <1>2, <1>3, FS_CardinalityType

(* A body has returned: its handle is done, and its caller's group current. *)
LEMMA ReturnKeeps ==
  ASSUME IInv, NEW t \in Thread, Return(t)
  PROVE  IInv'
<1> DEFINE n == Len(frames[t])
           x == Top(t).task
<1>1. /\ pc[t] = "body" /\ Finished(t) /\ x # Root /\ frames[t] # << >> /\ TypeOK
      /\ group' = [group EXCEPT ![t] = Top(t).prev] /\ done' = done \union {x}
      /\ UNCHANGED <<load, frames, look, final, queueVars, children, left, chanVars, shutdown>>
  BY DEF Return, RestoredGroup, IInv, Located, LocatedAt
<1>2. n \in DOMAIN frames[t] /\ Top(t) = frames[t][n] /\ Top(t) \in FrameType
  BY <1>1, TopFacts
<1>3. x \in started /\ Top(t).prev \in AnyGroup
  BY <1>1, <1>2 DEF IInv, StartedOrDone, FrameType
<1>4. pc' \in [Thread -> Label] /\ pc'[t] = "broadcast" /\ Others(t)
  BY GotoFacts DEF Return, Label
<1>5. TypeOK'
  BY <1>1, <1>3, <1>4 DEF TypeOK, queueVars, chanVars
<1> HIDE DEF n, x
<1>6. \A u \in Thread : Top(u)' = Top(u) /\ Finished(u)' = Finished(u)
  BY <1>1, SameTops
<1>7. LocatedAt(t)'
  BY <1>1, <1>4, <1>6 DEF LocatedAt, x
<1>8. t # Main
  <2>1. Top(Main).task = Root
    BY NameFacts DEF IInv, MainRunsRoot, Top
  <2>2. QED
    BY <2>1, <1>1 DEF x
<1>9. /\ \A u \in Thread : u # t => LocatedAt(u)'
      /\ \A u \in Thread : u # t => (pc[u] \in Returning <=> pc'[u] \in Returning)
      /\ \A u \in Thread : u # t => (Publishing(u) => Publishing(u)')
      /\ pc'[Main] \notin {"take", "steal", "cas"}
  BY <1>1, <1>4, <1>8, OthersLocated DEF queueVars
<1>10. Located'
  BY <1>7, <1>9 DEF Located
<1>11. MainRunsRoot' /\ InBody' /\ OnePlace'
  BY <1>1, <1>9 DEF IInv, MainRunsRoot, InBody, OnePlace, queueVars
<1>12. StartedOrDone'
  <2>1. /\ \A w \in Worker : \A i \in DOMAIN deque[w] : deque[w][i] # x
        /\ \A i \in DOMAIN inject : inject[i] # x
    BY <1>2 DEF IInv, OnePlace, x
  <2>2. ASSUME NEW u \in Thread, NEW i \in DOMAIN frames[u], frames[u][i].task \in done'
        PROVE  i = Len(frames[u]) /\ pc'[u] \in Returning
    <3>1. CASE frames[u][i].task = x
      <4>1. u = t /\ i = n
        BY <3>1, <1>2, OneFrame DEF x
      <4>2. QED
        BY <4>1, <1>4 DEF n, Returning
    <3>2. CASE frames[u][i].task # x
      <4>1. i = Len(frames[u]) /\ pc[u] \in Returning
        BY <3>2, <2>2, <1>1 DEF IInv, StartedOrDone, Returning
      <4>2. u # t
        BY <4>1, <1>1 DEF Returning
      <4>3. QED
        BY <4>1, <4>2, <1>9
    <3>3. QED
      BY <3>1, <3>2
  <2>3. QED
    BY <2>1, <2>2, <1>1 DEF IInv, StartedOrDone, queueVars, Returning
<1>13. SpawnsBehind'
  <2>1. ASSUME NEW b, NEW k, Passed(b, k) PROVE Passed(b, k)'
    BY <2>1, <1>1 DEF Passed
  <2>2. \A u \in Thread : Publishing(u) => Publishing(u)'
    BY <1>1, <1>9 DEF Publishing
  <2>3. QED
    BY <2>1, <2>2, <1>1, <1>6 DEF IInv, SpawnsBehind, queueVars
<1>14. Counted'
  BY <1>1 DEF IInv, Counted, Live, Queued, Running, queueVars
<1>15. GroupsSaved'
  <2>1. \A b, k : ScopeAt(b, k)' = ScopeAt(b, k) /\ OpenAt(b, k)' = OpenAt(b, k)
    BY <1>1, SameScopes
  <2>2. group'[t] = Top(t).prev /\ \A u \in Thread : u # t => group'[u] = group[u]
    BY <1>1 DEF TypeOK
  <2>3. frames' = frames /\ load' = load
    BY <1>1
  <2>4. SUFFICES ASSUME NEW u \in Thread
                 PROVE  /\ frames[u] = << >> => group'[u] = NoGroup
                        /\ frames[u] # << >> =>
                             /\ frames[u][1].prev = NoGroup
                             /\ group'[u] = IF pc'[u] \in Returning THEN Top(u).prev
                                            ELSE ScopeAt(Top(u).task, Top(u).at)
                        /\ \A i \in 2 .. Len(frames[u]) : frames[u][i].prev
                             = ScopeAt(frames[u][i - 1].task, frames[u][i - 1].at)
                        /\ \A i \in DOMAIN frames[u] :
                             \A m \in OpenAt(frames[u][i].task, frames[u][i].at) :
                               frames[u][i].outer[load.body[frames[u][i].task][m][2]]
                                 = ScopeAt(frames[u][i].task, m)
    BY <2>1, <2>3, <1>6 DEF GroupsSaved, Scope, Returning
  <2>5. /\ frames[u] = << >> => group[u] = NoGroup
        /\ frames[u] # << >> =>
             /\ frames[u][1].prev = NoGroup
             /\ group[u] = IF pc[u] \in Returning THEN Top(u).prev ELSE ScopeAt(Top(u).task, Top(u).at)
        /\ \A i \in 2 .. Len(frames[u]) : frames[u][i].prev
             = ScopeAt(frames[u][i - 1].task, frames[u][i - 1].at)
        /\ \A i \in DOMAIN frames[u] : \A m \in OpenAt(frames[u][i].task, frames[u][i].at) :
             frames[u][i].outer[load.body[frames[u][i].task][m][2]] = ScopeAt(frames[u][i].task, m)
    BY DEF IInv, GroupsSaved, Scope, Returning
  <2>6. CASE u = t
    <3>1. frames[t] # << >> /\ pc'[t] \in Returning
      BY <1>1, <1>4 DEF Returning
    <3>2. QED
      BY <3>1, <2>2, <2>5, <2>6
  <2>7. CASE u # t
    <3>1. pc[u] \in Returning <=> pc'[u] \in Returning
      BY <2>7, <1>9
    <3>2. QED
      BY <3>1, <2>2, <2>5, <2>7
  <2>8. QED
    BY <2>6, <2>7
<1>16. QED
  BY <1>5, <1>10, <1>11, <1>12, <1>13, <1>14, <1>15 DEF IInv

(* The task is counted off, and its frame goes. *)
LEMMA WorkersDecKeeps ==
  ASSUME IInv, NEW t \in Thread, WorkersDec(t)
  PROVE  IInv'
<1> DEFINE n == Len(frames[t])
           x == Top(t).task
<1>1. /\ pc[t] = "dec" /\ frames[t] # << >> /\ x \in done /\ TypeOK
      /\ inflight' = inflight - 1
      /\ frames' = [frames EXCEPT ![t] = SubSeq(@, 1, Len(@) - 1)]
      /\ UNCHANGED <<load, group, look, final, deque, inject, started, done, children, left,
                     chanVars, shutdown>>
  BY DEF WorkersDec, Decremented, taskVars, IInv, Located, LocatedAt
<1>2. /\ n \in DOMAIN frames[t] /\ Top(t) = frames[t][n] /\ n \in Nat \ {0}
      /\ DOMAIN frames[t] = 1 .. n
  BY <1>1, TopFacts
<1>3. x \in started /\ x \in Task /\ x # Root
  BY <1>1, NameFacts DEF TypeOK
<1>4. /\ frames' \in [Thread -> Seq(FrameType)]
      /\ \A u \in Thread : u # t => frames'[u] = frames[u] /\ Top(u)' = Top(u)
      /\ Len(frames'[t]) = n - 1
      /\ DOMAIN frames'[t] = 1 .. n - 1
      /\ \A i \in DOMAIN frames'[t] : i \in DOMAIN frames[t] /\ frames'[t][i] = frames[t][i]
      /\ frames'[t] = << >> <=> n = 1
      /\ frames'[t] # << >> => Top(t)' = frames[t][n - 1]
  BY <1>1, PopFacts
<1>5. PICK l \in {"take", "body"} : Goto(t, l) /\ (l = "take" <=> n = 1)
  BY DEF WorkersDec
<1>6. pc' \in [Thread -> Label] /\ pc'[t] = l /\ Others(t)
  BY <1>5, GotoFacts DEF Label
<1> HIDE DEF n, x
<1>7. Live' = Live \ {x} /\ x \in Live
  <2>1. ASSUME NEW y
        PROVE  y \in Live' <=> y \in Live /\ y # x
    <3>1. y \in Live' <=> \/ \E w \in Worker : \E i \in DOMAIN deque[w] : deque[w][i] = y
                          \/ \E i \in DOMAIN inject : inject[i] = y
                          \/ y # Root /\ \E u \in Thread : \E i \in DOMAIN frames'[u] : frames'[u][i].task = y
      <4>1. deque' = deque /\ inject' = inject
        BY <1>1
      <4>2. y \in Live' <=> \/ \E w \in Worker : \E i \in DOMAIN deque'[w] : deque'[w][i] = y
                            \/ \E i \in DOMAIN inject' : inject'[i] = y
                            \/ /\ y # Root
                               /\ \E u \in Thread : \E i \in DOMAIN frames'[u] : frames'[u][i].task = y
        BY LiveMemberNext
      <4>3. QED
        BY <4>1, <4>2
    <3>2. CASE y = x
      <4>1. /\ \A w \in Worker : \A i \in DOMAIN deque[w] : deque[w][i] # x
            /\ \A i \in DOMAIN inject : inject[i] # x
        BY <1>2 DEF IInv, OnePlace, x
      <4>2. ASSUME NEW u \in Thread, NEW i \in DOMAIN frames'[u], frames'[u][i].task = x
            PROVE  FALSE
        <5>1. i \in DOMAIN frames[u] /\ frames'[u][i] = frames[u][i]
          BY <1>4, <4>2
        <5>2. u = t /\ i = n
          BY <5>1, <4>2, <1>2, OneFrame DEF x
        <5>3. QED
          BY <5>2, <4>2, <1>2, <1>4
      <4>3. QED
        BY <3>1, <3>2, <4>1, <4>2
    <3>3. CASE y # x
      <4>1. ASSUME NEW u \in Thread
            PROVE  (\E i \in DOMAIN frames'[u] : frames'[u][i].task = y)
                     <=> \E i \in DOMAIN frames[u] : frames[u][i].task = y
        <5>1. CASE u # t
          BY <5>1, <1>4
        <5>2. CASE u = t
          <6>1. ASSUME NEW i \in DOMAIN frames[t], frames[t][i].task = y
                PROVE  i \in DOMAIN frames'[t] /\ frames'[t][i].task = y
            <7>1. i # n
              BY <6>1, <3>3, <1>2 DEF x
            <7>2. QED
              BY <7>1, <6>1, <1>2, <1>4
          <6>2. QED
            BY <5>2, <6>1, <1>4
        <5>3. QED
          BY <5>1, <5>2
      <4>2. QED
        BY <3>1, <3>3, <4>1, LiveMember
    <3>4. QED
      BY <3>2, <3>3
  <2>2. x \in Live
    BY <1>2, <1>3, LiveMember DEF x
  <2>3. QED
    BY <2>1, <2>2
<1>8. Counted' /\ inflight' \in Nat
  <2>1. Cardinality(Live') = Cardinality(Live) - 1 /\ Cardinality(Live) \in Nat
        /\ Cardinality(Live') \in Nat /\ inflight = Cardinality(Live)
    BY <1>7, LiveFacts, FS_RemoveElement, FS_CardinalityType
  <2>2. QED
    BY <2>1, <1>1 DEF IInv, Counted
<1>9. TypeOK'
  BY <1>1, <1>4, <1>6, <1>8 DEF TypeOK, chanVars
<1>10. LocatedAt(t)'
  BY <1>4, <1>5, <1>6 DEF LocatedAt
<1>11. t # Main
  BY <1>1, MainStays DEF Returning
<1>12. /\ \A u \in Thread : u # t => LocatedAt(u)'
       /\ \A u \in Thread : u # t => (pc[u] \in Returning <=> pc'[u] \in Returning)
       /\ \A u \in Thread : u # t => (Publishing(u) => Publishing(u)')
       /\ pc'[Main] \notin {"take", "steal", "cas"}
  BY <1>1, <1>4, <1>6, <1>11, OthersLocated
<1>13. Located'
  BY <1>10, <1>12 DEF Located
<1>14. MainRunsRoot'
  BY <1>4, <1>11, <1>12, NameFacts DEF IInv, MainRunsRoot
<1>15. \A u \in Thread : \A i \in DOMAIN frames'[u] :
         /\ i \in DOMAIN frames[u] /\ frames'[u][i] = frames[u][i]
         /\ u = t => i # n
  BY <1>2, <1>4
<1>16. InBody'
  BY <1>1, <1>15 DEF IInv, InBody
<1>17. StartedOrDone'
  <2>1. ASSUME NEW u \in Thread, NEW i \in DOMAIN frames'[u], frames'[u][i].task \in done
        PROVE  i = Len(frames'[u]) /\ pc'[u] \in Returning
    <3>1. i = Len(frames[u]) /\ pc[u] \in Returning
      BY <2>1, <1>15 DEF IInv, StartedOrDone, Returning
    <3>2. u # t
      BY <3>1, <1>15 DEF n
    <3>3. QED
      BY <3>1, <3>2, <1>4, <1>12
  <2>2. QED
    BY <2>1, <1>1, <1>15 DEF IInv, StartedOrDone, Returning
<1>18. OnePlace'
  BY <1>1, <1>15 DEF IInv, OnePlace
<1>19. SpawnsBehind'
  <2>1. ASSUME NEW b, NEW k, Passed(b, k) PROVE Passed(b, k)'
    <3>1. CASE b = x
      BY <3>1, <1>1 DEF Passed, x
    <3>2. CASE b # x
      <4>1. ASSUME NEW u \in Thread, NEW i \in DOMAIN frames[u], frames[u][i].task = b
            PROVE  i \in DOMAIN frames'[u] /\ frames'[u][i] = frames[u][i]
        <5>1. ~(u = t /\ i = n)
          BY <4>1, <3>2, <1>2 DEF x
        <5>2. QED
          BY <5>1, <4>1, <1>2, <1>4
      <4>2. QED
        BY <4>1, <2>1, <1>1 DEF Passed
    <3>3. QED
      BY <3>1, <3>2
  <2>2. \A u \in Thread : Publishing(u) => Publishing(u)' /\ u # t
    BY <1>1, <1>12 DEF Publishing
  <2>3. QED
    BY <2>1, <2>2, <1>1, <1>4 DEF IInv, SpawnsBehind
<1>20. GroupsSaved'
  <2>1. \A b, k : ScopeAt(b, k)' = ScopeAt(b, k) /\ OpenAt(b, k)' = OpenAt(b, k)
    BY <1>1, SameScopes
  <2>2. SUFFICES ASSUME NEW u \in Thread
               PROVE  /\ frames'[u] = << >> => group'[u] = NoGroup
                      /\ frames'[u] # << >> =>
                           /\ frames'[u][1].prev = NoGroup
                           /\ group'[u] = IF pc'[u] \in Returning THEN Top(u)'.prev
                                          ELSE ScopeAt(Top(u)'.task, Top(u)'.at)
                      /\ \A i \in 2 .. Len(frames'[u]) : frames'[u][i].prev
                           = ScopeAt(frames'[u][i - 1].task, frames'[u][i - 1].at)
                      /\ \A i \in DOMAIN frames'[u] :
                           \A m \in OpenAt(frames'[u][i].task, frames'[u][i].at) :
                             frames'[u][i].outer[load.body[frames'[u][i].task][m][2]]
                               = ScopeAt(frames'[u][i].task, m)
    <3>1. load' = load
      BY <1>1
    <3>2. QED
      BY <3>1, <2>1 DEF GroupsSaved, Scope, Returning
  <2>3. /\ frames[u] = << >> => group[u] = NoGroup
        /\ frames[u] # << >> =>
             /\ frames[u][1].prev = NoGroup
             /\ group[u] = IF pc[u] \in Returning THEN Top(u).prev ELSE ScopeAt(Top(u).task, Top(u).at)
        /\ \A i \in 2 .. Len(frames[u]) : frames[u][i].prev
             = ScopeAt(frames[u][i - 1].task, frames[u][i - 1].at)
        /\ \A i \in DOMAIN frames[u] : \A m \in OpenAt(frames[u][i].task, frames[u][i].at) :
             frames[u][i].outer[load.body[frames[u][i].task][m][2]] = ScopeAt(frames[u][i].task, m)
    BY DEF IInv, GroupsSaved, Scope, Returning
  <2>4. CASE u # t
    <3>1. /\ frames'[u] = frames[u] /\ Top(u)' = Top(u) /\ group'[u] = group[u]
          /\ pc[u] \in Returning <=> pc'[u] \in Returning
      BY <2>4, <1>1, <1>4, <1>12
    <3>2. QED
      BY <3>1, <2>3
  <2>5. CASE u = t
    <3>1. group[t] = frames[t][n].prev
      BY <2>3, <2>5, <1>1, <1>2 DEF Returning
    <3>2. \A i \in DOMAIN frames'[t] : frames'[t][i] = frames[t][i] /\ i \in DOMAIN frames[t]
      BY <1>4
    <3>3. \A i \in 2 .. Len(frames'[t]) : i \in DOMAIN frames'[t] /\ i - 1 \in DOMAIN frames'[t]
                                         /\ i \in 2 .. Len(frames[t])
      BY <1>2, <1>4 DEF n
    <3>4. \A i \in 2 .. Len(frames'[t]) : frames'[t][i].prev
             = ScopeAt(frames'[t][i - 1].task, frames'[t][i - 1].at)
      BY <3>2, <3>3, <2>3, <2>5
    <3>5. frames'[t] = << >> => group[t] = NoGroup
      BY <3>1, <2>3, <2>5, <1>1, <1>4
    <3>6. ASSUME frames'[t] # << >>
          PROVE  /\ frames'[t][1].prev = NoGroup
                 /\ pc'[t] \notin Returning
                 /\ group[t] = ScopeAt(Top(t)'.task, Top(t)'.at)
      <4>1. n \in 2 .. n /\ 1 \in DOMAIN frames'[t]
        BY <3>6, <1>2, <1>4
      <4>2. frames[t][n].prev = ScopeAt(frames[t][n - 1].task, frames[t][n - 1].at)
        BY <4>1, <2>3, <2>5 DEF n
      <4>3. QED
        BY <4>1, <4>2, <3>1, <3>2, <3>6, <2>3, <2>5, <1>1, <1>4, <1>5, <1>6 DEF Returning
    <3>7. \A i \in DOMAIN frames'[t] : \A m \in OpenAt(frames'[t][i].task, frames'[t][i].at) :
            frames'[t][i].outer[load.body[frames'[t][i].task][m][2]] = ScopeAt(frames'[t][i].task, m)
      <4>1. \A i \in DOMAIN frames[t] : \A m \in OpenAt(frames[t][i].task, frames[t][i].at) :
              frames[t][i].outer[load.body[frames[t][i].task][m][2]] = ScopeAt(frames[t][i].task, m)
        BY <2>3, <2>5
      <4>2. QED
        BY <4>1, <3>2
    <3>8. group'[t] = group[t]
      BY <1>1
    <3>9. QED
      BY <3>4, <3>5, <3>6, <3>7, <3>8, <2>5
  <2>6. QED
    BY <2>4, <2>5
<1>21. QED
  BY <1>8, <1>9, <1>13, <1>14, <1>16, <1>17, <1>18, <1>19, <1>20 DEF IInv

(* The frame of a task that starts. *)
LEMMA NewFrame ==
  ASSUME NEW x \in Task, NEW g \in AnyGroup, NEW f, f = Frame(x, g)
  PROVE  /\ f \in FrameType /\ f.task = x /\ f.at = 1 /\ f.prev = g /\ f.kids = << >>
         /\ ~f.reaping
<1>1. [h \in Group |-> NoGroup] \in [Group -> AnyGroup] /\ << >> \in Seq(Task) /\ x \in Body
  BY DEF AnyGroup, Body
<1>2. QED
  BY <1>1 DEF Frame, FrameType

(* A body that starts is in the group of its task. *)
LEMMA ScopeOfTask ==
  ASSUME NEW x \in Task
  PROVE  OpenAt(x, 1) = {} /\ ScopeAt(x, 1) = load.group[x]
<1>1. OpenAt(x, 1) = {}
  BY DEF OpenAt
<1>2. QED
  BY <1>1, NameFacts DEF ScopeAt

\* The queues are as they were, without x: what is left of each has moved up by
\* the number of places that offset says.
Loses(x, offset) ==
    /\ deque' \in [Worker -> Seq(Task)] /\ inject' \in Seq(Task)
    /\ \A w \in Worker : \A i \in DOMAIN deque'[w] :
         /\ i + offset[w] \in DOMAIN deque[w] /\ deque'[w][i] = deque[w][i + offset[w]]
         /\ deque'[w][i] # x
    /\ \A i \in DOMAIN inject' :
         /\ i + offset[Main] \in DOMAIN inject /\ inject'[i] = inject[i + offset[Main]]
         /\ inject'[i] # x
    /\ \A w \in Worker : \A i \in DOMAIN deque[w] :
         deque[w][i] # x => \E j \in DOMAIN deque'[w] : deque'[w][j] = deque[w][i]
    /\ \A i \in DOMAIN inject :
         inject[i] # x => \E j \in DOMAIN inject' : inject'[j] = inject[i]

(* A thread starts a task it has taken off a queue. *)
LEMMA RunKeeps ==
  ASSUME IInv, NEW t \in Thread, NEW x \in Task, Run(t, x),
         pc[t] \in {"take", "steal", "cas"},
         NEW offset \in [Worker \union {Main} -> {0, 1}], Loses(x, offset), x \in Queued,
         UNCHANGED <<load, started, inflight, taskVars, chanVars, shutdown>>
  PROVE  IInv'
<1> DEFINE n == Len(frames[t])
           f == Frame(x, group[t])
<1>1. /\ TypeOK /\ group[t] \in AnyGroup /\ load.group \in [Task -> AnyGroup]
      /\ UNCHANGED <<load, started, inflight, done, children, left, count, closed, shutdown>>
      /\ frames' = [frames EXCEPT ![t] = Append(@, f)]
      /\ group' = [group EXCEPT ![t] = load.group[x]]
      /\ look' = [look EXCEPT ![t] = NoLook]
      /\ final' = [final EXCEPT ![t] = FALSE]
  BY LoadFacts DEF IInv, TypeOK, Run, taskVars, chanVars
<1>2. /\ f \in FrameType /\ f.task = x /\ f.at = 1 /\ f.prev = group[t] /\ f.kids = << >>
      /\ ~f.reaping
  BY <1>1, NewFrame
<1>3. /\ frames' \in [Thread -> Seq(FrameType)]
      /\ \A u \in Thread : u # t => frames'[u] = frames[u] /\ Top(u)' = Top(u)
      /\ n \in Nat
      /\ Len(frames'[t]) = n + 1
      /\ DOMAIN frames'[t] = 1 .. n + 1
      /\ DOMAIN frames[t] = 1 .. n
      /\ \A i \in DOMAIN frames[t] : frames'[t][i] = frames[t][i]
      /\ frames'[t][n + 1] = f
      /\ frames'[t] # << >>
      /\ Top(t)' = f
  BY <1>1, <1>2, PushFacts
<1> HIDE DEF n, f
<1>4. pc' \in [Thread -> Label] /\ pc'[t] = "body" /\ Others(t)
  BY GotoFacts DEF Run, Label
<1>5. \A u \in Thread : u # t => look'[u] = look[u] /\ group'[u] = group[u]
  BY <1>1 DEF TypeOK
<1>6. group'[t] = load.group[x] /\ load.group[x] \in AnyGroup
  BY <1>1 DEF TypeOK
<1>7. TypeOK'
  <2>1. look' \in [Thread -> [victims : SUBSET Worker, from : Worker \union {Main},
                              item : Task \union {NoTask}]]
    BY <1>1 DEF TypeOK, NoLook
  <2>2. group' \in [Thread -> AnyGroup] /\ final' \in [Thread -> BOOLEAN]
    BY <1>1, <1>6 DEF TypeOK
  <2>3. QED
    BY <1>1, <1>3, <1>4, <2>1, <2>2 DEF TypeOK, Loses
<1>8. t # Main
  BY NotMain
<1>9. LocatedAt(t)'
  BY <1>3, <1>4 DEF LocatedAt
<1>10. /\ \A u \in Thread : u # t => LocatedAt(u)'
       /\ \A u \in Thread : u # t => (pc[u] \in Returning <=> pc'[u] \in Returning)
       /\ \A u \in Thread : u # t => (Publishing(u) => Publishing(u)')
       /\ pc'[Main] \notin {"take", "steal", "cas"}
  BY <1>1, <1>3, <1>4, <1>5, <1>8, OthersLocated
<1>11. Located'
  BY <1>9, <1>10 DEF Located
<1>12. MainRunsRoot'
  BY <1>3, <1>8, <1>10, NameFacts DEF IInv, MainRunsRoot
<1>13. x \in started \ done /\ x # Root
  <2>1. \/ \E w \in Worker : \E i \in DOMAIN deque[w] : deque[w][i] = x
        \/ \E i \in DOMAIN inject : inject[i] = x
    BY DEF Queued, Range
  <2>2. QED
    BY <2>1, NameFacts DEF IInv, StartedOrDone
<1>14. \A u \in Thread : \A i \in DOMAIN frames[u] : frames[u][i].task # x
  <2>1. \/ \E w \in Worker : \E i \in DOMAIN deque[w] : deque[w][i] = x
        \/ \E i \in DOMAIN inject : inject[i] = x
    BY DEF Queued, Range
  <2>2. QED
    BY <2>1 DEF IInv, OnePlace
<1>15. \A u \in Thread : \A i \in DOMAIN frames'[u] :
         \/ u = t /\ i = n + 1 /\ frames'[u][i] = f
         \/ /\ i \in DOMAIN frames[u] /\ frames'[u][i] = frames[u][i]
            /\ ~(u = t /\ i = n + 1)
  BY <1>3
<1>16. InBody'
  <2>1. load.body[x] \in Seq(Operation)
    BY <1>1, LoadFacts DEF Body
  <2>2. f.at =< Len(load.body[f.task]) + 1
    BY <2>1, <1>2
  <2>3. QED
    BY <2>2, <1>1, <1>15 DEF IInv, InBody
<1>17. StartedOrDone'
  <2>1. /\ \A w \in Worker : \A i \in DOMAIN deque'[w] : deque'[w][i] \in started \ done
        /\ \A i \in DOMAIN inject' : inject'[i] \in started \ done
    BY DEF Loses, IInv, StartedOrDone
  <2>2. ASSUME NEW u \in Thread, NEW i \in DOMAIN frames'[u]
        PROVE  /\ frames'[u][i].task \in started \union {Root}
               /\ frames'[u][i].task \in done => i = Len(frames'[u]) /\ pc'[u] \in Returning
    <3>1. CASE u = t /\ i = n + 1 /\ frames'[u][i] = f
      BY <3>1, <1>2, <1>13
    <3>2. CASE i \in DOMAIN frames[u] /\ frames'[u][i] = frames[u][i]
      <4>1. /\ frames[u][i].task \in started \union {Root}
            /\ frames[u][i].task \in done => i = Len(frames[u]) /\ pc[u] \in Returning
        BY <3>2 DEF IInv, StartedOrDone, Returning
      <4>2. u = t => pc[u] \notin Returning
        BY DEF Returning
      <4>3. QED
        BY <4>1, <4>2, <3>2, <1>3, <1>10
    <3>3. QED
      BY <3>1, <3>2, <1>15
  <2>3. QED
    BY <2>1, <2>2, <1>1 DEF StartedOrDone, Returning
<1>18. OnePlace'
  <2>1. \A w \in Worker \union {Main} : offset[w] \in Nat
    OBVIOUS
  <2>2. \A w, v \in Worker : \A i \in DOMAIN deque'[w], j \in DOMAIN deque'[v] :
          deque'[w][i] = deque'[v][j] => w = v /\ i = j
    <3>1. SUFFICES ASSUME NEW w \in Worker, NEW v \in Worker, NEW i \in DOMAIN deque'[w],
                          NEW j \in DOMAIN deque'[v], deque'[w][i] = deque'[v][j]
                   PROVE  w = v /\ i = j
      OBVIOUS
    <3>2. deque'[w] \in Seq(Task) /\ deque'[v] \in Seq(Task)
      BY <1>7 DEF TypeOK
    <3>3. i \in Nat /\ j \in Nat /\ offset[w] \in Nat /\ offset[v] \in Nat
      BY <2>1, <3>2
    <3>4. w = v /\ i + offset[w] = j + offset[v]
      BY <3>1 DEF IInv, OnePlace, Loses
    <3>5. QED
      BY <3>3, <3>4
  <2>3. \A i, j \in DOMAIN inject' : inject'[i] = inject'[j] => i = j
    <3>1. SUFFICES ASSUME NEW i \in DOMAIN inject', NEW j \in DOMAIN inject', inject'[i] = inject'[j]
                   PROVE  i = j
      OBVIOUS
    <3>2. i \in Nat /\ j \in Nat /\ offset[Main] \in Nat
      BY <2>1, <1>7 DEF TypeOK
    <3>3. i + offset[Main] = j + offset[Main]
      BY <3>1 DEF IInv, OnePlace, Loses
    <3>4. QED
      BY <3>2, <3>3
  <2>4. \A u, v \in Thread : \A i \in DOMAIN frames'[u], j \in DOMAIN frames'[v] :
          frames'[u][i].task = frames'[v][j].task => u = v /\ i = j
    <3>1. SUFFICES ASSUME NEW u \in Thread, NEW v \in Thread, NEW i \in DOMAIN frames'[u],
                          NEW j \in DOMAIN frames'[v], frames'[u][i].task = frames'[v][j].task
                   PROVE  u = v /\ i = j
      OBVIOUS
    <3>2. CASE u = t /\ i = n + 1 /\ frames'[u][i] = f
      BY <3>1, <3>2, <1>2, <1>14, <1>15
    <3>3. CASE v = t /\ j = n + 1 /\ frames'[v][j] = f
      BY <3>1, <3>3, <1>2, <1>14, <1>15
    <3>4. CASE /\ i \in DOMAIN frames[u] /\ frames'[u][i] = frames[u][i]
               /\ j \in DOMAIN frames[v] /\ frames'[v][j] = frames[v][j]
      BY <3>1, <3>4, OneFrame
    <3>5. QED
      BY <3>2, <3>3, <3>4, <1>15
  <2>5. \A w \in Worker : \A i \in DOMAIN deque'[w] :
          /\ \A j \in DOMAIN inject' : deque'[w][i] # inject'[j]
          /\ \A u \in Thread : \A j \in DOMAIN frames'[u] : deque'[w][i] # frames'[u][j].task
    <3>1. \A w \in Worker : \A i \in DOMAIN deque'[w] : \A j \in DOMAIN inject' :
            deque'[w][i] # inject'[j]
      BY DEF IInv, OnePlace, Loses
    <3>2. \A w \in Worker : \A i \in DOMAIN deque'[w] :
            \A u \in Thread : \A j \in DOMAIN frames[u] : deque'[w][i] # frames[u][j].task
      BY DEF IInv, OnePlace, Loses
    <3>3. \A w \in Worker : \A i \in DOMAIN deque'[w] : deque'[w][i] # x
      BY DEF Loses
    <3>4. QED
      BY <3>1, <3>2, <3>3, <1>2, <1>15
  <2>6. \A i \in DOMAIN inject' : \A u \in Thread : \A j \in DOMAIN frames'[u] :
          inject'[i] # frames'[u][j].task
    <3>1. \A i \in DOMAIN inject' : \A u \in Thread : \A j \in DOMAIN frames[u] :
            inject'[i] # frames[u][j].task
      BY DEF IInv, OnePlace, Loses
    <3>2. \A i \in DOMAIN inject' : inject'[i] # x
      BY DEF Loses
    <3>3. QED
      BY <3>1, <3>2, <1>2, <1>15
  <2>7. QED
    BY <2>2, <2>3, <2>4, <2>5, <2>6 DEF OnePlace
<1>19. SpawnsBehind'
  <2>1. ASSUME NEW b, NEW k, Passed(b, k) PROVE Passed(b, k)'
    <3>1. \A u \in Thread : \A i \in DOMAIN frames[u] :
            i \in DOMAIN frames'[u] /\ frames'[u][i] = frames[u][i]
      BY <1>3
    <3>2. QED
      BY <2>1, <3>1, <1>1 DEF Passed
  <2>2. \A u \in Thread : Publishing(u) => Publishing(u)' /\ u # t
    BY <1>10 DEF Publishing
  <2>3. QED
    BY <2>1, <2>2, <1>1, <1>3 DEF IInv, SpawnsBehind
<1>20. Counted'
  <2>1. ASSUME NEW y PROVE y \in Live' <=> y \in Live
    <3>1. CASE y = x
      <4>1. x \in Live
        BY DEF Live
      <4>2. n + 1 \in DOMAIN frames'[t] /\ frames'[t][n + 1].task = x
        BY <1>2, <1>3
      <4>3. x \in Live'
        BY <4>2, <1>13, LiveMemberNext
      <4>4. QED
        BY <3>1, <4>1, <4>3
    <3>2. CASE y # x
      <4>1. (\E w \in Worker : \E i \in DOMAIN deque'[w] : deque'[w][i] = y)
              <=> \E w \in Worker : \E i \in DOMAIN deque[w] : deque[w][i] = y
        BY <3>2 DEF Loses
      <4>2. (\E i \in DOMAIN inject' : inject'[i] = y) <=> \E i \in DOMAIN inject : inject[i] = y
        BY <3>2 DEF Loses
      <4>3. ASSUME NEW u \in Thread
            PROVE  (\E i \in DOMAIN frames'[u] : frames'[u][i].task = y)
                     <=> \E i \in DOMAIN frames[u] : frames[u][i].task = y
        <5>1. \A i \in DOMAIN frames[u] : i \in DOMAIN frames'[u] /\ frames'[u][i] = frames[u][i]
          BY <1>3
        <5>2. \A i \in DOMAIN frames'[u] : frames'[u][i].task = y =>
                i \in DOMAIN frames[u] /\ frames'[u][i] = frames[u][i]
          BY <3>2, <1>2, <1>15
        <5>3. QED
          BY <5>1, <5>2
      <4>4. QED
        BY <4>1, <4>2, <4>3, LiveMember, LiveMemberNext
    <3>3. QED
      BY <3>1, <3>2
  <2>2. Live' = Live
    BY <2>1
  <2>3. QED
    BY <2>2, <1>1 DEF IInv, Counted
<1>21. GroupsSaved'
  <2>1. \A b, k : ScopeAt(b, k)' = ScopeAt(b, k) /\ OpenAt(b, k)' = OpenAt(b, k)
    BY <1>1, SameScopes
  <2>2. SUFFICES ASSUME NEW u \in Thread
               PROVE  /\ frames'[u] = << >> => group'[u] = NoGroup
                      /\ frames'[u] # << >> =>
                           /\ frames'[u][1].prev = NoGroup
                           /\ group'[u] = IF pc'[u] \in Returning THEN Top(u)'.prev
                                          ELSE ScopeAt(Top(u)'.task, Top(u)'.at)
                      /\ \A i \in 2 .. Len(frames'[u]) : frames'[u][i].prev
                           = ScopeAt(frames'[u][i - 1].task, frames'[u][i - 1].at)
                      /\ \A i \in DOMAIN frames'[u] :
                           \A m \in OpenAt(frames'[u][i].task, frames'[u][i].at) :
                             frames'[u][i].outer[load.body[frames'[u][i].task][m][2]]
                               = ScopeAt(frames'[u][i].task, m)
    <3>1. load' = load
      BY <1>1
    <3>2. QED
      BY <3>1, <2>1, SMTT(30) DEF GroupsSaved, Scope, Returning
  <2>3. /\ frames[u] = << >> => group[u] = NoGroup
        /\ frames[u] # << >> =>
             /\ frames[u][1].prev = NoGroup
             /\ group[u] = IF pc[u] \in Returning THEN Top(u).prev ELSE ScopeAt(Top(u).task, Top(u).at)
        /\ \A i \in 2 .. Len(frames[u]) : frames[u][i].prev
             = ScopeAt(frames[u][i - 1].task, frames[u][i - 1].at)
        /\ \A i \in DOMAIN frames[u] : \A m \in OpenAt(frames[u][i].task, frames[u][i].at) :
             frames[u][i].outer[load.body[frames[u][i].task][m][2]] = ScopeAt(frames[u][i].task, m)
    BY DEF IInv, GroupsSaved, Scope, Returning
  <2>4. CASE u # t
    <3>1. /\ frames'[u] = frames[u] /\ Top(u)' = Top(u) /\ group'[u] = group[u]
          /\ pc[u] \in Returning <=> pc'[u] \in Returning
      BY <2>4, <1>3, <1>5, <1>10
    <3>2. QED
      BY <3>1, <2>3
  <2>5. CASE u = t
    <3>1. pc[t] \notin Returning /\ pc'[t] \notin Returning
      BY <1>4 DEF Returning
    <3>2. OpenAt(x, 1) = {} /\ ScopeAt(x, 1) = load.group[x]
      BY ScopeOfTask
    <3>3. group'[t] = ScopeAt(Top(t)'.task, Top(t)'.at)
      BY <3>2, <1>2, <1>3, <1>6
    <3>4. n = 0 \/ n \in 1 .. n
      BY <1>3
    <3>5. n = 0 <=> frames[t] = << >>
      <4>1. frames[t] \in Seq(FrameType)
        BY <1>1 DEF TypeOK
      <4>2. QED
        BY <4>1, EmptySeq, Zenon DEF n
    <3>6. n # 0 => group[t] = ScopeAt(frames[t][n].task, frames[t][n].at)
      BY <3>1, <3>5, <2>3, <2>5 DEF Top, n
    <3>7. n = 0 => group[t] = NoGroup
      BY <3>5, <2>3, <2>5
    <3>8. frames'[t][1].prev = NoGroup
      <4>1. CASE n = 0
        BY <4>1, <3>7, <1>2, <1>3
      <4>2. CASE n # 0
        <5>1. 1 \in DOMAIN frames[t] /\ frames[t] # << >>
          BY <4>2, <3>5, <1>3
        <5>2. QED
          BY <5>1, <2>3, <2>5, <1>3
      <4>3. QED
        BY <4>1, <4>2
    <3>9. ASSUME NEW i \in 2 .. Len(frames'[t])
          PROVE  frames'[t][i].prev = ScopeAt(frames'[t][i - 1].task, frames'[t][i - 1].at)
      <4>1. i \in 2 .. n + 1 /\ i - 1 \in DOMAIN frames[t]
        BY <1>3
      <4>2. frames'[t][i - 1] = frames[t][i - 1]
        BY <4>1, <1>3
      <4>3. CASE i = n + 1
        <5>1. i - 1 = n /\ n # 0
          BY <4>1, <4>3, <1>3
        <5>2. QED
          BY <5>1, <4>2, <4>3, <3>6, <1>2, <1>3
      <4>4. CASE i # n + 1
        <5>1. i \in 2 .. Len(frames[t]) /\ i \in DOMAIN frames[t]
          BY <4>1, <4>4, <1>3 DEF n
        <5>2. frames'[t][i] = frames[t][i]
          BY <5>1, <1>3
        <5>3. QED
          BY <5>1, <5>2, <4>2, <2>3, <2>5
      <4>5. QED
        BY <4>3, <4>4
    <3>10. ASSUME NEW i \in DOMAIN frames'[t], NEW m \in OpenAt(frames'[t][i].task, frames'[t][i].at)
           PROVE  frames'[t][i].outer[load.body[frames'[t][i].task][m][2]]
                    = ScopeAt(frames'[t][i].task, m)
      <4>1. CASE i = n + 1
        BY <4>1, <3>2, <3>10, <1>2, <1>3
      <4>2. CASE i # n + 1
        <5>1. i \in DOMAIN frames[t] /\ frames'[t][i] = frames[t][i]
          BY <4>2, <1>15
        <5>2. QED
          BY <5>1, <3>10, <2>3, <2>5, SMTT(30)
      <4>3. QED
        BY <4>1, <4>2
    <3>11. QED
      BY <3>1, <3>3, <3>8, <3>9, <3>10, <2>5, <1>3
  <2>6. QED
    BY <2>4, <2>5
<1>22. QED
  BY <1>7, <1>11, <1>12, <1>16, <1>17, <1>18, <1>19, <1>20, <1>21 DEF IInv

(* A pool worker takes its newest task, or looks at the other deques. *)
LEMMA TakeOwnKeeps ==
  ASSUME IInv, NEW t \in Thread, TakeOwn(t)
  PROVE  IInv'
<1>1. pc[t] = "take" /\ TypeOK /\ t # Main /\ Pool \subseteq Worker
      /\ UNCHANGED <<load, inject, started, inflight, taskVars, chanVars, shutdown>>
  BY NotMain, LoadFacts DEF TakeOwn, IInv, Pool
<1>2. CASE IsPool(t) /\ deque[t] # << >>
  <2> DEFINE s == deque[t]
             n == Len(s)
             x == s[n]
  <2>1. t \in Worker /\ deque \in [Worker -> Seq(Task)] /\ s \in Seq(Task) /\ s # << >>
    BY <1>1, <1>2 DEF IsPool, TypeOK
  <2>2. Run(t, x) /\ deque' = [deque EXCEPT ![t] = SubSeq(s, 1, n - 1)]
    BY <1>2 DEF TakeOwn
  <2>3. /\ deque'[t] \in Seq(Task) /\ n \in Nat \ {0} /\ DOMAIN s = 1 .. n
        /\ DOMAIN deque'[t] = 1 .. n - 1
        /\ \A i \in 1 .. n - 1 : deque'[t][i] = s[i]
    BY <2>1, <2>2, WithoutLast
  <2>4. x \in Task /\ n \in DOMAIN deque[t]
    BY <2>1, <2>3
  <2>5. \A w \in Worker : w # t => deque'[w] = deque[w]
    BY <2>1, <2>2
  <2>6. deque' \in [Worker -> Seq(Task)] /\ inject' \in Seq(Task) /\ inject' = inject
    BY <2>1, <2>2, <2>3, <1>1 DEF TypeOK
  <2> HIDE DEF n
  <2>7. /\ \A w \in Worker : \A i \in DOMAIN deque[w] : deque[w][i] = x => w = t /\ i = n
        /\ \A i \in DOMAIN inject : inject[i] # x
    BY <2>1, <2>4 DEF IInv, OnePlace
  <2> HIDE DEF x
  <2>8. \A w \in Worker : \A i \in DOMAIN deque'[w] :
          i \in DOMAIN deque[w] /\ deque'[w][i] = deque[w][i] /\ deque'[w][i] # x /\ i + 0 = i
    <3>1. SUFFICES ASSUME NEW w \in Worker, NEW i \in DOMAIN deque'[w]
                   PROVE  /\ i \in DOMAIN deque[w] /\ deque'[w][i] = deque[w][i]
                          /\ deque'[w][i] # x /\ i + 0 = i
      OBVIOUS
    <3>2. deque'[w] \in Seq(Task) /\ i \in Nat
      BY <2>6
    <3>3. CASE w = t
      BY <3>1, <3>2, <3>3, <2>3, <2>7
    <3>4. CASE w # t
      BY <3>1, <3>2, <3>4, <2>5, <2>7
    <3>5. QED
      BY <3>3, <3>4
  <2>9. \A w \in Worker : \A i \in DOMAIN deque[w] :
          deque[w][i] # x => \E j \in DOMAIN deque'[w] : deque'[w][j] = deque[w][i]
    <3>1. SUFFICES ASSUME NEW w \in Worker, NEW i \in DOMAIN deque[w], deque[w][i] # x
                   PROVE  i \in DOMAIN deque'[w] /\ deque'[w][i] = deque[w][i]
      OBVIOUS
    <3>2. CASE w = t
      <4>1. i \in 1 .. n /\ i # n
        BY <3>1, <3>2, <2>3 DEF x
      <4>2. QED
        BY <4>1, <3>2, <2>3
    <3>3. CASE w # t
      BY <3>3, <2>5
    <3>4. QED
      BY <3>2, <3>3
  <2>10. \A i \in DOMAIN inject' : i + 0 = i
    BY <2>6
  <2> DEFINE offset == [w \in Worker \union {Main} |-> 0]
  <2>11. offset \in [Worker \union {Main} -> {0, 1}] /\ \A w \in Worker \union {Main} : offset[w] = 0
    OBVIOUS
  <2> HIDE DEF offset
  <2>12. Loses(x, offset)
    BY <2>6, <2>7, <2>8, <2>9, <2>10, <2>11 DEF Loses
  <2>13. x \in Queued
    BY <2>1, <2>4 DEF Queued, Range, x
  <2>14. QED
    BY <2>2, <2>4, <2>11, <2>12, <2>13, <1>1, RunKeeps DEF x
<1>3. CASE ~(IsPool(t) /\ deque[t] # << >>)
  <2> DEFINE V == IF Cardinality(Pool) =< 1 THEN {} ELSE Pool \ {t}
  <2>1. /\ look' = [look EXCEPT ![t].victims = V]
        /\ Goto(t, "steal") /\ UNCHANGED <<frames, group, final, deque>>
    BY <1>3 DEF TakeOwn
  <2>2. V \in SUBSET Worker
    BY <1>1
  <2> HIDE DEF V
  <2>3. pc' \in [Thread -> Label] /\ pc'[t] = "steal" /\ Others(t)
    BY <2>1, GotoFacts DEF Label
  <2>4. UNCHANGED stable /\ UNCHANGED <<final, children, left, count, closed, shutdown>>
    BY <1>1, <2>1 DEF stable, taskVars, chanVars
  <2>5. TypeOK' /\ \A u \in Thread : u # t => look'[u] = look[u]
    BY <1>1, <2>1, <2>2, <2>3, <2>4 DEF TypeOK, stable
  <2>6. LocatedAt(t)
    BY DEF IInv, Located
  <2>7. LocatedAt(t)'
    BY <1>1, <2>3, <2>4, <2>6, SameTops DEF LocatedAt, stable
  <2>8. QED
    BY <1>1, <2>3, <2>4, <2>5, <2>7, MoveKeeps DEF Returning, Publishing
<1>4. QED
  BY <1>2, <1>3

(* A thief gets the oldest task of its victim, or goes on to the next victim. *)
LEMMA StealCasKeeps ==
  ASSUME IInv, NEW t \in Thread, StealCas(t)
  PROVE  IInv'
<1> DEFINE v == look[t].from
<1>1. pc[t] = "cas" /\ TypeOK /\ t # Main
      /\ UNCHANGED <<load, inject, started, inflight, taskVars, chanVars, shutdown>>
  BY NotMain DEF StealCas, IInv
<1>2. v \in Worker /\ LocatedAt(t)
  BY <1>1 DEF IInv, Located, LocatedAt
<1>3. CASE StillOldest(t)
  <2> DEFINE s == deque[v]
             n == Len(s)
             x == look[t].item
  <2>1. v \in Worker /\ deque \in [Worker -> Seq(Task)] /\ s \in Seq(Task) /\ s # << >>
        /\ Head(s) = x
    BY <1>1, <1>2, <1>3 DEF TypeOK, StillOldest
  <2>2. Run(t, x) /\ deque' = [deque EXCEPT ![v] = SubSeq(s, 2, n)]
    BY <1>3 DEF StealCas
  <2> HIDE DEF v
  <2>3. /\ deque'[v] \in Seq(Task) /\ n \in Nat \ {0} /\ DOMAIN s = 1 .. n /\ Head(s) = s[1]
        /\ DOMAIN deque'[v] = 1 .. n - 1
        /\ \A i \in 1 .. n - 1 : deque'[v][i] = s[i + 1]
    BY <2>1, <2>2, WithoutFirst
  <2>4. x \in Task /\ 1 \in DOMAIN deque[v] /\ deque[v][1] = x
    BY <2>1, <2>3
  <2>5. \A w \in Worker : w # v => deque'[w] = deque[w]
    BY <2>1, <2>2
  <2>6. deque' \in [Worker -> Seq(Task)] /\ inject' \in Seq(Task) /\ inject' = inject
    BY <2>1, <2>2, <2>3, <1>1 DEF TypeOK
  <2> HIDE DEF n, x
  <2>7. /\ \A w \in Worker : \A i \in DOMAIN deque[w] : deque[w][i] = x => w = v /\ i = 1
        /\ \A i \in DOMAIN inject : inject[i] # x
    BY <2>1, <2>4 DEF IInv, OnePlace
  <2> DEFINE offset == [w \in Worker \union {Main} |-> IF w = v THEN 1 ELSE 0]
  <2>8. /\ offset \in [Worker \union {Main} -> {0, 1}]
        /\ offset[v] = 1 /\ \A w \in Worker \union {Main} : w # v => offset[w] = 0
    BY <2>1
  <2> HIDE DEF offset
  <2>9. \A w \in Worker : \A i \in DOMAIN deque'[w] :
          /\ i + offset[w] \in DOMAIN deque[w] /\ deque'[w][i] = deque[w][i + offset[w]]
          /\ deque'[w][i] # x
    <3>1. SUFFICES ASSUME NEW w \in Worker, NEW i \in DOMAIN deque'[w]
                   PROVE  /\ i + offset[w] \in DOMAIN deque[w] /\ deque'[w][i] = deque[w][i + offset[w]]
                          /\ deque'[w][i] # x
      OBVIOUS
    <3>2. deque'[w] \in Seq(Task) /\ i \in Nat
      BY <2>6
    <3>3. CASE w = v
      <4>1. i \in 1 .. n - 1 /\ i + 1 \in DOMAIN deque[v] /\ i + 1 # 1
        BY <3>1, <3>3, <2>3
      <4>2. QED
        BY <4>1, <3>3, <2>3, <2>7, <2>8
    <3>4. CASE w # v
      <4>1. offset[w] = 0 /\ i + 0 = i
        BY <3>2, <3>4, <2>8
      <4>2. QED
        BY <4>1, <3>1, <3>4, <2>5, <2>7
    <3>5. QED
      BY <3>3, <3>4
  <2>10. \A w \in Worker : \A i \in DOMAIN deque[w] :
          deque[w][i] # x => \E j \in DOMAIN deque'[w] : deque'[w][j] = deque[w][i]
    <3>1. SUFFICES ASSUME NEW w \in Worker, NEW i \in DOMAIN deque[w], deque[w][i] # x
                   PROVE  \E j \in DOMAIN deque'[w] : deque'[w][j] = deque[w][i]
      OBVIOUS
    <3>2. CASE w = v
      <4>1. i \in 1 .. n /\ i # 1
        BY <3>1, <3>2, <2>3, <2>4
      <4>2. i - 1 \in 1 .. n - 1 /\ (i - 1) + 1 = i
        BY <4>1, <2>3
      <4>3. deque'[w][i - 1] = deque[w][i] /\ i - 1 \in DOMAIN deque'[w]
        BY <4>2, <3>2, <2>3
      <4>4. QED
        BY <4>3
    <3>3. CASE w # v
      BY <3>3, <2>5
    <3>4. QED
      BY <3>2, <3>3
  <2>11. \A i \in DOMAIN inject' : i + offset[Main] = i
    <3>1. offset[Main] = 0
      BY <2>1, <2>8, NameFacts
    <3>2. QED
      BY <3>1, <2>6
  <2>12. Loses(x, offset)
    BY <2>6, <2>7, <2>9, <2>10, <2>11 DEF Loses
  <2>13. x \in Queued
    BY <2>1, <2>4 DEF Queued, Range
  <2>14. QED
    BY <2>2, <2>4, <2>8, <2>12, <2>13, <1>1, RunKeeps
<1>4. CASE ~StillOldest(t)
  <2> DEFINE V == look[t].victims \ {v}
             L == [NoLook EXCEPT !.victims = V]
  <2>1. /\ look' = [look EXCEPT ![t] = L]
        /\ Goto(t, "steal") /\ UNCHANGED <<frames, group, final, deque>>
    BY <1>4 DEF StealCas
  <2>2. L \in [victims : SUBSET Worker, from : Worker \union {Main}, item : Task \union {NoTask}]
    <3>1. look[t].victims \in SUBSET Worker
      BY <1>1 DEF TypeOK
    <3>2. V \in SUBSET Worker
      BY <3>1
    <3> HIDE DEF V
    <3>3. QED
      BY <3>2 DEF NoLook
  <2> HIDE DEF L
  <2>3. pc' \in [Thread -> Label] /\ pc'[t] = "steal" /\ Others(t)
    BY <2>1, GotoFacts DEF Label
  <2>4. UNCHANGED stable /\ UNCHANGED <<final, children, left, count, closed, shutdown>>
    BY <1>1, <2>1 DEF stable, taskVars, chanVars
  <2>5. TypeOK' /\ \A u \in Thread : u # t => look'[u] = look[u]
    BY <1>1, <2>1, <2>2, <2>3, <2>4 DEF TypeOK, stable
  <2>6. LocatedAt(t)'
    BY <1>1, <1>2, <2>3, <2>4, SameTops DEF LocatedAt, stable
  <2>7. QED
    BY <1>1, <2>3, <2>4, <2>5, <2>6, MoveKeeps DEF Returning, Publishing
<1>5. QED
  BY <1>3, <1>4

(* The oldest task of the inject queue is taken, or there is nothing to do. *)
LEMMA TakeInjectKeeps ==
  ASSUME IInv, NEW t \in Thread, TakeInject(t)
  PROVE  IInv'
<1>1. pc[t] = "steal" /\ TypeOK /\ t # Main /\ LocatedAt(t)
      /\ UNCHANGED <<load, deque, started, inflight, taskVars, chanVars, shutdown>>
  BY NotMain DEF TakeInject, IInv, Located
<1>2. CASE inject # << >>
  <2> DEFINE n == Len(inject)
             x == Head(inject)
  <2>1. inject \in Seq(Task) /\ deque' \in [Worker -> Seq(Task)]
    BY <1>1 DEF TypeOK
  <2>2. Run(t, x) /\ inject' = Tail(inject)
    BY <1>2 DEF TakeInject
  <2>3. /\ inject' \in Seq(Task) /\ n \in Nat \ {0} /\ DOMAIN inject = 1 .. n /\ x = inject[1]
        /\ DOMAIN inject' = 1 .. n - 1
        /\ \A i \in 1 .. n - 1 : inject'[i] = inject[i + 1]
    BY <2>1, <2>2, <1>2, WithoutFirst
  <2>4. x \in Task /\ 1 \in DOMAIN inject
    BY <2>1, <2>3
  <2> HIDE DEF n, x
  <2>5. /\ \A w \in Worker : \A i \in DOMAIN deque[w] : deque[w][i] # x
        /\ \A i \in DOMAIN inject : inject[i] = x => i = 1
    BY <2>3, <2>4 DEF IInv, OnePlace
  <2> DEFINE offset == [w \in Worker \union {Main} |-> IF w = Main THEN 1 ELSE 0]
  <2>6. /\ offset \in [Worker \union {Main} -> {0, 1}]
        /\ offset[Main] = 1 /\ \A w \in Worker : offset[w] = 0
    BY NameFacts
  <2> HIDE DEF offset
  <2>7. \A w \in Worker : \A i \in DOMAIN deque'[w] :
          /\ i + offset[w] \in DOMAIN deque[w] /\ deque'[w][i] = deque[w][i + offset[w]]
          /\ deque'[w][i] # x
    <3>1. SUFFICES ASSUME NEW w \in Worker, NEW i \in DOMAIN deque[w]
                   PROVE  i + offset[w] = i
      BY <2>5, <1>1
    <3>2. deque[w] \in Seq(Task)
      BY <1>1 DEF TypeOK
    <3>3. QED
      BY <3>2, <2>6
  <2>8. \A i \in DOMAIN inject' :
          /\ i + offset[Main] \in DOMAIN inject /\ inject'[i] = inject[i + offset[Main]]
          /\ inject'[i] # x
    <3>1. SUFFICES ASSUME NEW i \in 1 .. n - 1
                   PROVE  /\ i + 1 \in DOMAIN inject /\ inject'[i] = inject[i + 1]
                          /\ inject'[i] # x
      BY <2>3, <2>6
    <3>2. i + 1 \in DOMAIN inject /\ i + 1 # 1
      BY <3>1, <2>3
    <3>3. QED
      BY <3>1, <3>2, <2>3, <2>5
  <2>9. \A i \in DOMAIN inject :
          inject[i] # x => \E j \in DOMAIN inject' : inject'[j] = inject[i]
    <3>1. SUFFICES ASSUME NEW i \in DOMAIN inject, inject[i] # x
                   PROVE  \E j \in DOMAIN inject' : inject'[j] = inject[i]
      OBVIOUS
    <3>2. i \in 1 .. n /\ i # 1
      BY <3>1, <2>3
    <3>3. i - 1 \in 1 .. n - 1 /\ (i - 1) + 1 = i
      BY <3>2, <2>3
    <3>4. inject'[i - 1] = inject[i] /\ i - 1 \in DOMAIN inject'
      BY <3>3, <2>3
    <3>5. QED
      BY <3>4
  <2>10. \A w \in Worker : \A i \in DOMAIN deque[w] :
          deque[w][i] # x => \E j \in DOMAIN deque'[w] : deque'[w][j] = deque[w][i]
    BY <1>1
  <2>11. Loses(x, offset)
    BY <2>1, <2>3, <2>7, <2>8, <2>9, <2>10 DEF Loses
  <2>12. x \in Queued
    BY <2>3, <2>4 DEF Queued, Range
  <2>13. QED
    BY <2>2, <2>4, <2>6, <2>11, <2>12, <1>1, RunKeeps
<1>3. CASE inject = << >>
  <2>1. PICK l \in {"none", "notify"} : Goto(t, l) /\ (l = "none" <=> frames[t] = << >>)
    BY <1>3 DEF TakeInject
  <2>2. pc' \in [Thread -> Label] /\ pc'[t] = l /\ Others(t)
    BY <2>1, GotoFacts DEF Label
  <2>3. /\ UNCHANGED stable
        /\ UNCHANGED <<look, final, children, left, count, closed, shutdown>>
    BY <1>1, <1>3 DEF TakeInject, stable, taskVars, chanVars
  <2>4. LocatedAt(t)'
    BY <1>1, <2>1, <2>2, <2>3, SameTops DEF LocatedAt, stable
  <2>5. QED
    BY <1>1, <2>2, <2>3, <2>4, PlacesKeep DEF Returning, Publishing, TypeOK
<1>4. QED
  BY <1>2, <1>3

(* A body that is about to spawn a task has not spawned it before. *)
LEMMA NotSpawnedYet ==
  ASSUME IInv, NEW t \in Thread, At(t, "spawn")
  PROVE  Op(t)[2] \notin started
<1> DEFINE n == Len(frames[t])
           b == Top(t).task
           k == Top(t).at
<1>1. /\ pc[t] = "body" /\ ~Finished(t) /\ Op(t)[1] = "spawn" /\ frames[t] # << >>
      /\ k \in DOMAIN load.body[b] /\ b \in Body
  BY AtFacts
<1>2. n \in DOMAIN frames[t] /\ Top(t) = frames[t][n] /\ k \in Nat
  BY <1>1, TopFacts DEF IInv
<1>3. Op(t) = load.body[b][k]
  BY DEF Op
<1>4. SUFFICES ASSUME load.body[b][k][2] \in started
               PROVE  FALSE
  BY <1>3
<1>5. \/ Passed(b, k)
      \/ \E u \in Thread : Publishing(u) /\ frames[u] # << >> /\ Top(u).task = b /\ Top(u).at = k
  BY <1>1, <1>3, <1>4 DEF IInv, SpawnsBehind
<1>6. b \notin done
  BY <1>1, <1>2 DEF IInv, StartedOrDone
<1>7. ~Passed(b, k)
  <2>1. ASSUME NEW u \in Thread, NEW i \in DOMAIN frames[u], frames[u][i].task = b, frames[u][i].at > k
        PROVE  FALSE
    <3>1. u = t /\ i = n
      BY <2>1, <1>2, OneFrame
    <3>2. QED
      BY <3>1, <2>1, <1>2
  <2>2. QED
    BY <2>1, <1>6 DEF Passed
<1>8. PICK u \in Thread : Publishing(u) /\ frames[u] # << >> /\ Top(u).task = b
  BY <1>5, <1>7
<1>9. Len(frames[u]) \in DOMAIN frames[u] /\ Top(u) = frames[u][Len(frames[u])]
  BY <1>8, TopFacts DEF IInv
<1>10. u = t
  BY <1>2, <1>8, <1>9, OneFrame
<1>11. QED
  BY <1>1, <1>8, <1>10 DEF Publishing

\* The queues are as they were, with x at one new place.
Gains(x) ==
    /\ deque' \in [Worker -> Seq(Task)] /\ inject' \in Seq(Task)
    /\ \/ /\ inject' = inject
          /\ \E v \in Worker : \E n \in Nat :
               /\ DOMAIN deque[v] = 1 .. n /\ DOMAIN deque'[v] = 1 .. n + 1
               /\ deque'[v][n + 1] = x /\ \A i \in 1 .. n : deque'[v][i] = deque[v][i]
               /\ \A w \in Worker : w # v => deque'[w] = deque[w]
       \/ /\ deque' = deque
          /\ \E n \in Nat :
               /\ DOMAIN inject = 1 .. n /\ DOMAIN inject' = 1 .. n + 1
               /\ inject'[n + 1] = x /\ \A i \in 1 .. n : inject'[i] = inject[i]

(* A task that is nowhere yet is then in one place. *)
LEMMA GainsOnePlace ==
  ASSUME OnePlace, NEW x, Gains(x), UNCHANGED frames,
         \A w \in Worker : \A i \in DOMAIN deque[w] : deque[w][i] # x,
         \A i \in DOMAIN inject : inject[i] # x,
         \A u \in Thread : \A i \in DOMAIN frames[u] : frames[u][i].task # x
  PROVE  OnePlace'
<1>1. CASE inject' = inject
  <2>1. CASE deque' = deque
    BY <2>1, <1>1 DEF OnePlace
  <2>2. CASE deque' # deque
    <3>1. PICK v \in Worker : \E n \in Nat :
               /\ DOMAIN deque[v] = 1 .. n /\ DOMAIN deque'[v] = 1 .. n + 1
               /\ deque'[v][n + 1] = x /\ \A i \in 1 .. n : deque'[v][i] = deque[v][i]
               /\ \A w \in Worker : w # v => deque'[w] = deque[w]
      BY <2>2 DEF Gains
    <3>2. PICK n \in Nat :
               /\ DOMAIN deque[v] = 1 .. n /\ DOMAIN deque'[v] = 1 .. n + 1
               /\ deque'[v][n + 1] = x /\ \A i \in 1 .. n : deque'[v][i] = deque[v][i]
               /\ \A w \in Worker : w # v => deque'[w] = deque[w]
      BY <3>1
    <3>3. \A w \in Worker : \A i \in DOMAIN deque'[w] :
            \/ w = v /\ i = n + 1 /\ deque'[w][i] = x
            \/ i \in DOMAIN deque[w] /\ deque'[w][i] = deque[w][i]
      BY <3>2
    <3>4. \A w, y \in Worker : \A i \in DOMAIN deque'[w], j \in DOMAIN deque'[y] :
            deque'[w][i] = deque'[y][j] => w = y /\ i = j
      BY <3>3 DEF OnePlace
    <3>5. \A w \in Worker : \A i \in DOMAIN deque'[w] :
            /\ \A j \in DOMAIN inject : deque'[w][i] # inject[j]
            /\ \A t \in Thread : \A j \in DOMAIN frames[t] : deque'[w][i] # frames[t][j].task
      BY <3>3 DEF OnePlace
    <3>6. QED
      BY <3>4, <3>5, <1>1 DEF OnePlace
  <2>3. QED
    BY <2>1, <2>2
<1>2. CASE inject' # inject
  <2>1. deque' = deque
    BY <1>2 DEF Gains
  <2>2. PICK n \in Nat :
          /\ DOMAIN inject = 1 .. n /\ DOMAIN inject' = 1 .. n + 1
          /\ inject'[n + 1] = x /\ \A i \in 1 .. n : inject'[i] = inject[i]
    BY <1>2 DEF Gains
  <2>3. \A i \in DOMAIN inject' : \/ i = n + 1 /\ inject'[i] = x
                                  \/ i \in DOMAIN inject /\ inject'[i] = inject[i]
    BY <2>2
  <2>4. \A i, j \in DOMAIN inject' : inject'[i] = inject'[j] => i = j
    BY <2>3 DEF OnePlace
  <2>5. /\ \A w \in Worker : \A i \in DOMAIN deque[w] : \A j \in DOMAIN inject' :
             deque[w][i] # inject'[j]
        /\ \A i \in DOMAIN inject' : \A t \in Thread : \A j \in DOMAIN frames[t] :
             inject'[i] # frames[t][j].task
    BY <2>3 DEF OnePlace
  <2>6. QED
    BY <2>1, <2>4, <2>5 DEF OnePlace
<1>3. QED
  BY <1>1, <1>2

(* Who is queued after a spawn. *)
LEMMA GainsQueued ==
  ASSUME NEW x, Gains(x), NEW y
  PROVE  /\ (\E w \in Worker : \E i \in DOMAIN deque[w] : deque[w][i] = y)
              => \E w \in Worker : \E i \in DOMAIN deque'[w] : deque'[w][i] = y
         /\ (\E i \in DOMAIN inject : inject[i] = y) => \E i \in DOMAIN inject' : inject'[i] = y
         /\ (\E w \in Worker : \E i \in DOMAIN deque'[w] : deque'[w][i] = y)
              => y = x \/ \E w \in Worker : \E i \in DOMAIN deque[w] : deque[w][i] = y
         /\ (\E i \in DOMAIN inject' : inject'[i] = y)
              => y = x \/ \E i \in DOMAIN inject : inject[i] = y
         /\ \/ \E w \in Worker : \E i \in DOMAIN deque'[w] : deque'[w][i] = x
            \/ \E i \in DOMAIN inject' : inject'[i] = x
<1>1. CASE /\ inject' = inject
           /\ \E v \in Worker : \E n \in Nat :
               /\ DOMAIN deque[v] = 1 .. n /\ DOMAIN deque'[v] = 1 .. n + 1
               /\ deque'[v][n + 1] = x /\ \A i \in 1 .. n : deque'[v][i] = deque[v][i]
               /\ \A w \in Worker : w # v => deque'[w] = deque[w]
  <2>1. PICK v \in Worker, n \in Nat :
               /\ DOMAIN deque[v] = 1 .. n /\ DOMAIN deque'[v] = 1 .. n + 1
               /\ deque'[v][n + 1] = x /\ \A i \in 1 .. n : deque'[v][i] = deque[v][i]
               /\ \A w \in Worker : w # v => deque'[w] = deque[w]
    BY <1>1
  <2>2. \A w \in Worker : \A i \in DOMAIN deque'[w] :
          \/ w = v /\ i = n + 1 /\ deque'[w][i] = x
          \/ i \in DOMAIN deque[w] /\ deque'[w][i] = deque[w][i]
    BY <2>1
  <2>3. \A w \in Worker : \A i \in DOMAIN deque[w] :
          i \in DOMAIN deque'[w] /\ deque'[w][i] = deque[w][i]
    BY <2>1
  <2>4. n + 1 \in DOMAIN deque'[v] /\ deque'[v][n + 1] = x
    BY <2>1
  <2>5. inject' = inject
    BY <1>1
  <2>6. (\E w \in Worker : \E i \in DOMAIN deque[w] : deque[w][i] = y)
          => \E w \in Worker : \E i \in DOMAIN deque'[w] : deque'[w][i] = y
    BY <2>3
  <2>7. (\E w \in Worker : \E i \in DOMAIN deque'[w] : deque'[w][i] = y)
          => y = x \/ \E w \in Worker : \E i \in DOMAIN deque[w] : deque[w][i] = y
    BY <2>2
  <2>8. QED
    BY <2>4, <2>5, <2>6, <2>7
<1>2. CASE /\ deque' = deque
           /\ \E n \in Nat :
               /\ DOMAIN inject = 1 .. n /\ DOMAIN inject' = 1 .. n + 1
               /\ inject'[n + 1] = x /\ \A i \in 1 .. n : inject'[i] = inject[i]
  BY <1>2
<1>3. QED
  BY <1>1, <1>2 DEF Gains

(* The task that is spawned is counted before anybody sees it. *)
LEMMA SpawnKeeps ==
  ASSUME IInv, NEW t \in Thread, Spawn(t)
  PROVE  IInv'
<1> DEFINE b == Top(t).task
           k == Top(t).at
           x == Op(t)[2]
<1>1. /\ pc[t] = "body" /\ ~Finished(t) /\ Op(t)[1] = "spawn" /\ frames[t] # << >>
      /\ k \in DOMAIN load.body[b] /\ b \in Body /\ TypeOK /\ x \notin started
      /\ started' = started \union {x} /\ inflight' = inflight + 1
      /\ UNCHANGED <<load, frames, group, look, final, done, children, left, count, closed, shutdown>>
  BY AtFacts, NotSpawnedYet DEF Spawn, IInv, Incremented, taskVars, chanVars
<1>2. x \in Task /\ Op(t) = load.body[b][k] /\ x # Root
  BY <1>1, AtOp, NameFacts
<1> HIDE DEF x
<1>3. /\ Gains(x)
      /\ pc' \in [Thread -> Label] /\ pc'[t] \in {"signal", "attach"} /\ Others(t)
  <2>1. deque \in [Worker -> Seq(Task)] /\ inject \in Seq(Task)
    BY <1>1 DEF TypeOK
  <2>2. CASE IsPool(t) /\ Len(deque[t]) < DequeCap
    <3>1. /\ deque' = [deque EXCEPT ![t] = Append(@, x)] /\ inject' = inject /\ Goto(t, "signal")
      BY <2>2 DEF Spawn, x
    <3>2. t \in Worker
      BY <2>2, <1>1, LoadFacts DEF IsPool, Pool
    <3>3. deque[t] \in Seq(Task) /\ deque'[t] = Append(deque[t], x)
          /\ \A w \in Worker : w # t => deque'[w] = deque[w]
      BY <3>1, <3>2, <2>1
    <3> DEFINE n == Len(deque[t])
    <3>4. /\ deque'[t] \in Seq(Task) /\ n \in Nat
          /\ DOMAIN deque[t] = 1 .. n /\ DOMAIN deque'[t] = 1 .. n + 1
          /\ deque'[t][n + 1] = x /\ \A i \in 1 .. n : deque'[t][i] = deque[t][i]
      BY <3>3, <1>2
    <3>5. deque' \in [Worker -> Seq(Task)]
      BY <3>1, <3>2, <3>3, <3>4, <2>1
    <3> HIDE DEF n
    <3>6. Gains(x)
      BY <3>1, <3>2, <3>3, <3>4, <3>5, <2>1 DEF Gains
    <3>7. QED
      BY <3>1, <3>6, GotoFacts DEF Label
  <2>3. CASE ~(IsPool(t) /\ Len(deque[t]) < DequeCap)
    <3>1. /\ inject' = Append(inject, x) /\ deque' = deque /\ SignalPool(t, "attach")
      BY <2>3 DEF Spawn, x
    <3> DEFINE n == Len(inject)
    <3>2. /\ inject' \in Seq(Task) /\ n \in Nat
          /\ DOMAIN inject = 1 .. n /\ DOMAIN inject' = 1 .. n + 1
          /\ inject'[n + 1] = x /\ \A i \in 1 .. n : inject'[i] = inject[i]
      BY <3>1, <2>1, <1>2
    <3> HIDE DEF n
    <3>3. Gains(x)
      BY <3>1, <3>2, <2>1 DEF Gains
    <3>4. QED
      BY <3>1, <3>3, <1>1, SignalPoolFacts DEF Label, Others
  <2>4. QED
    BY <2>2, <2>3
<1>4. TypeOK'
  BY <1>1, <1>2, <1>3 DEF TypeOK, Gains
<1>5. \A u \in Thread : Top(u)' = Top(u) /\ Finished(u)' = Finished(u) /\ Op(u)' = Op(u)
  BY <1>1, SameTops
<1>6. LocatedAt(t)'
  BY <1>1, <1>3, <1>5 DEF LocatedAt, x
<1>7. /\ \A u \in Thread : u # t => LocatedAt(u)'
      /\ \A u \in Thread : u # t => (pc[u] \in Returning <=> pc'[u] \in Returning)
      /\ \A u \in Thread : u # t => (Publishing(u) => Publishing(u)')
      /\ t # Main => pc'[Main] \notin {"take", "steal", "cas"}
  BY <1>1, <1>3, OthersLocated
<1>8. Located'
  BY <1>6, <1>7 DEF Located
<1>9. \A u \in Thread : pc[u] \in Returning <=> pc'[u] \in Returning
  BY <1>1, <1>3, <1>7 DEF Returning
<1>10. MainRunsRoot' /\ InBody'
  <2>1. pc'[Main] \notin {"take", "steal", "cas"}
    BY <1>3, <1>7
  <2>2. QED
    BY <2>1, <1>1 DEF IInv, MainRunsRoot, InBody
<1>11. /\ \A w \in Worker : \A i \in DOMAIN deque[w] : deque[w][i] # x
       /\ \A i \in DOMAIN inject : inject[i] # x
       /\ \A u \in Thread : \A i \in DOMAIN frames[u] : frames[u][i].task # x
  BY <1>1, <1>2 DEF IInv, StartedOrDone
<1>12. StartedOrDone'
  <2>1. x \in started' \ done'
    BY <1>1 DEF TypeOK
  <2>2. ASSUME NEW w \in Worker, NEW i \in DOMAIN deque'[w]
        PROVE  deque'[w][i] \in started' \ done'
    <3>1. deque'[w][i] = x \/ \E v \in Worker : \E j \in DOMAIN deque[v] : deque[v][j] = deque'[w][i]
      BY <1>3, GainsQueued
    <3>2. QED
      BY <3>1, <2>1, <1>1 DEF IInv, StartedOrDone
  <2>3. ASSUME NEW i \in DOMAIN inject'
        PROVE  inject'[i] \in started' \ done'
    <3>1. inject'[i] = x \/ \E j \in DOMAIN inject : inject[j] = inject'[i]
      BY <1>3, GainsQueued
    <3>2. QED
      BY <3>1, <2>1, <1>1 DEF IInv, StartedOrDone
  <2>4. \A u \in Thread : \A i \in DOMAIN frames'[u] :
          /\ frames'[u][i].task \in started' \union {Root}
          /\ frames'[u][i].task \in done' => i = Len(frames'[u]) /\ pc'[u] \in Returning
    BY <1>1, <1>9 DEF IInv, StartedOrDone, Returning
  <2>5. QED
    BY <2>2, <2>3, <2>4 DEF StartedOrDone, Returning
<1>13. OnePlace'
  BY <1>1, <1>3, <1>11, GainsOnePlace DEF IInv
<1>14. SpawnsBehind'
  <2>1. SUFFICES ASSUME NEW c \in Body, NEW j \in DOMAIN load.body[c],
                        load.body[c][j][1] = "spawn", load.body[c][j][2] \in started'
                 PROVE  \/ Passed(c, j)'
                        \/ \E u \in Thread : /\ Publishing(u)' /\ frames[u] # << >>
                                             /\ Top(u).task = c /\ Top(u).at = j
    BY <1>1, <1>5 DEF SpawnsBehind
  <2>2. Passed(c, j) => Passed(c, j)'
    BY <1>1 DEF Passed
  <2>3. Publishing(t)' /\ ~Publishing(t)
    BY <1>1, <1>3 DEF Publishing
  <2>4. CASE load.body[c][j][2] \in started
    BY <2>1, <2>2, <2>3, <2>4, <1>7 DEF IInv, SpawnsBehind
  <2>5. CASE load.body[c][j][2] = x
    <3>1. load.body[c][j] = <<"spawn", x>> /\ load.body[b][k] = <<"spawn", x>>
      BY <2>1, <2>5, <1>1, <1>2, OpFacts, OpPair DEF x
    <3>2. c = b /\ j = k
      <4>1. MadeOnce(load)
        BY <1>1, LoadFacts
      <4>2. load.body[c][j] = load.body[b][k] /\ load.body[c][j][1] = "spawn"
        BY <3>1
      <4>3. b \in Body /\ k \in DOMAIN load.body[b]
        BY <1>1
      <4>4. QED
        BY <4>1, <4>2, <4>3 DEF MadeOnce
    <3>3. QED
      BY <3>2, <2>3, <1>1
  <2>6. QED
    BY <2>1, <2>4, <2>5, <1>1
<1>15. Counted'
  <2>1. ASSUME NEW y PROVE y \in Live' <=> y \in Live \/ y = x
    <3>1. y \in Live' <=> \/ \E w \in Worker : \E i \in DOMAIN deque'[w] : deque'[w][i] = y
                          \/ \E i \in DOMAIN inject' : inject'[i] = y
                          \/ y # Root /\ \E u \in Thread : \E i \in DOMAIN frames[u] : frames[u][i].task = y
      BY <1>1, LiveMemberNext
    <3>2. QED
      BY <3>1, <1>3, GainsQueued, LiveMember
  <2>2. Live' = Live \union {x}
    BY <2>1
  <2>3. x \notin Live /\ IsFiniteSet(Live) /\ inflight = Cardinality(Live) /\ Cardinality(Live) \in Nat
    BY <1>1, LiveFacts
  <2>4. Cardinality(Live') = Cardinality(Live) + 1
    BY <2>2, <2>3, FS_AddElement
  <2>5. IsFiniteSet(started')
    BY <1>1, FS_AddElement DEF IInv, Counted
  <2>6. QED
    BY <2>3, <2>4, <2>5, <1>1 DEF Counted
<1>16. GroupsSaved'
  <2>1. \A c, j : ScopeAt(c, j)' = ScopeAt(c, j) /\ OpenAt(c, j)' = OpenAt(c, j)
    BY <1>1, SameScopes
  <2>2. QED
    BY <2>1, <1>1, <1>5, <1>9, SMTT(30) DEF IInv, GroupsSaved, Scope, Returning
<1>17. QED
  BY <1>4, <1>8, <1>10, <1>12, <1>13, <1>14, <1>15, <1>16 DEF IInv

------------------------------------------------------------------------------
(* The invariant of every program *)

(* Main is in its body, the pool's workers look for work, and nothing is queued. *)
LEMMA InitInv ==
  ASSUME Init
  PROVE  IInv
<1> DEFINE f == Frame(Root, NoGroup)
<1>1. /\ f \in FrameType /\ f.task = Root /\ f.at = 1 /\ f.prev = NoGroup
  <2>1. [h \in Group |-> NoGroup] \in [Group -> AnyGroup] /\ << >> \in Seq(Task) /\ Root \in Body
    BY DEF AnyGroup, Body
  <2>2. QED
    BY <2>1 DEF Frame, FrameType, AnyGroup
<1>2. /\ frames = [t \in Thread |-> IF t = Main THEN <<f>> ELSE << >>]
      /\ Main \in Thread /\ Root \notin Task
  BY NameFacts DEF Init
<1> HIDE DEF f
<1>3. /\ frames[Main] = <<f>> /\ Len(frames[Main]) = 1 /\ DOMAIN frames[Main] = {1}
      /\ frames[Main][1] = f /\ frames[Main] # << >> /\ Top(Main) = f
      /\ \A t \in Thread : t # Main => frames[t] = << >> /\ DOMAIN frames[t] = {}
  BY <1>1, <1>2 DEF Top
<1>4. \A t \in Thread : \A i \in DOMAIN frames[t] : t = Main /\ i = 1 /\ frames[t][i] = f
  BY <1>3
<1>5. /\ pc[Main] = "body"
      /\ \A t \in Thread : t # Main => pc[t] \in {"take", "off"}
  <2>1. pc = [t \in Thread |-> CASE t = Main -> "body" [] t \in load.pool -> "take" [] OTHER -> "off"]
    BY DEF Init
  <2>2. load.pool \subseteq Worker
    BY SchedulerAssumption DEF Init, Program
  <2>3. Main \notin load.pool
    BY <2>2, NameFacts
  <2>4. QED
    BY <2>1, <2>3, <1>2
<1>6. TypeOK
  <2>1. pc \in [Thread -> Label]
    <3>1. \A t \in Thread : pc[t] \in Label
      BY <1>5 DEF Label
    <3>2. QED
      BY <3>1 DEF Init
  <2>2. frames \in [Thread -> Seq(FrameType)]
    BY <1>1, <1>2
  <2>3. look \in [Thread -> [victims : SUBSET Worker, from : Worker \union {Main},
                            item : Task \union {NoTask}]]
    BY DEF Init, NoLook
  <2>4. /\ deque \in [Worker -> Seq(Task)] /\ inject \in Seq(Task)
        /\ children \in [Group -> Seq(Task)]
    BY DEF Init
  <2>5. QED
    BY <2>1, <2>2, <2>3, <2>4 DEF Init, TypeOK, AnyGroup
<1>7. Located
  BY <1>3, <1>5 DEF Located, LocatedAt
<1>8. MainRunsRoot
  BY <1>1, <1>3, <1>5 DEF MainRunsRoot
<1>9. InBody
  <2>1. load.body[Root] \in Seq(Operation)
    BY <1>6, LoadFacts DEF Body
  <2>2. QED
    BY <2>1, <1>1, <1>4 DEF InBody
<1>10. /\ \A w \in Worker : DOMAIN deque[w] = {}
       /\ DOMAIN inject = {} /\ started = {} /\ done = {}
  BY DEF Init
<1>11. StartedOrDone
  BY <1>1, <1>4, <1>10 DEF StartedOrDone
<1>12. OnePlace
  BY <1>4, <1>10 DEF OnePlace
<1>13. SpawnsBehind
  BY <1>10 DEF SpawnsBehind
<1>14. Counted
  <2>1. ASSUME NEW x \in Live PROVE FALSE
    BY <1>1, <1>4, <1>10, LiveMember
  <2>2. Live = {} /\ inflight = 0
    BY <2>1 DEF Init
  <2>3. QED
    BY <2>2, <1>10, FS_EmptySet DEF Counted
<1>15. GroupsSaved
  <2>1. OpenAt(Root, 1) = {} /\ ScopeAt(Root, 1) = NoGroup
    BY DEF OpenAt, ScopeAt
  <2>2. \A t \in Thread : group[t] = NoGroup
    BY DEF Init
  <2>3. \A t \in Thread : \A i \in 2 .. Len(frames[t]) : FALSE
    <3>1. SUFFICES ASSUME NEW t \in Thread
                   PROVE  2 .. Len(frames[t]) = {}
      OBVIOUS
    <3>2. CASE t = Main
      BY <3>2, <1>3
    <3>3. CASE t # Main
      <4>1. Len(<< >>) = 0
        OBVIOUS
      <4>2. Len(frames[t]) = 0
        BY <3>3, <4>1, <1>3
      <4>3. QED
        BY <4>2
    <3>4. QED
      BY <3>2, <3>3
  <2>4. QED
    BY <2>1, <2>2, <2>3, <1>1, <1>3, <1>4, <1>5 DEF GroupsSaved, Scope
<1>16. QED
  BY <1>6, <1>7, <1>8, <1>9, <1>11, <1>12, <1>13, <1>14, <1>15 DEF IInv

(* A step that changes nothing. *)
LEMMA StutterKeeps ==
  ASSUME IInv, UNCHANGED vars
  PROVE  IInv'
<1>1. UNCHANGED stable /\ UNCHANGED <<pc, look, final, children, left, count, closed, shutdown>>
  BY DEF vars, stable, queueVars, taskVars, chanVars
<1>2. TypeOK'
  BY <1>1 DEF IInv, TypeOK, stable
<1>3. Located'
  BY <1>1, SameTops DEF IInv, Located, LocatedAt, stable
<1>4. Quiet
  BY <1>1 DEF Quiet, Publishing, IInv, MainRunsRoot
<1>5. QED
  BY <1>1, <1>2, <1>3, <1>4, QuietKeeps

(* Every step of every thread keeps the invariant. *)
LEMMA NextInv ==
  ASSUME IInv, [Next]_vars
  PROVE  IInv'
<1>1. ASSUME NEW t \in Thread, Step(t) PROVE IInv'
  <2>1. CASE TakeOwn(t) \/ StealLook(t) \/ StealCas(t) \/ TakeInject(t)
    BY <2>1, TakeOwnKeeps, StealLookKeeps, StealCasKeeps, TakeInjectKeeps
  <2>2. CASE WorkerIdle(t) \/ ElasticExit(t) \/ ParkUntilWork(t)
    BY <2>2, WorkerIdleKeeps, ElasticExitKeeps, ParkUntilWorkKeeps
  <2>3. CASE Spawn(t) \/ SpawnSignal(t) \/ Attach(t)
    BY <2>3, SpawnKeeps, SpawnSignalKeeps, AttachKeeps
  <2>4. CASE EnterGroup(t) \/ ReapStart(t) \/ LeaveGroup(t)
    BY <2>4, EnterGroupKeeps, ReapStartKeeps, LeaveGroupKeeps
  <2>5. CASE JoinDone(t) \/ JoinPending(t) \/ JoinWait(t)
    BY <2>5, JoinDoneKeeps, JoinPendingKeeps, JoinWaitKeeps
  <2>6. CASE NotifyBlockingWait(t) \/ Safepoint(t)
    BY <2>6, NotifyBlockingWaitKeeps, SafepointKeeps
  <2>7. CASE Return(t) \/ Broadcast(t) \/ WorkersDec(t)
    BY <2>7, ReturnKeeps, BroadcastKeeps, WorkersDecKeeps
  <2>8. CASE Send(t) \/ Recv(t) \/ Close(t)
    BY <2>8, SendKeeps, RecvKeeps, CloseKeeps
  <2>9. CASE Shutdown \/ Exit
    BY <2>9, ShutdownKeeps, ExitKeeps
  <2>10. QED
    BY <1>1, <2>1, <2>2, <2>3, <2>4, <2>5, <2>6, <2>7, <2>8, <2>9 DEF Step
<1>2. ASSUME NEW t \in Thread, SpuriousWake(t) PROVE IInv'
  BY <1>2, SpuriousWakeKeeps
<1>3. QED
  BY <1>1, <1>2, StutterKeeps DEF Next

(* Whatever program runs, with any number of workers and any capacity of the     *)
(* deques, every step keeps the places, the counter and the saved groups.        *)
THEOREM SchedulerInvariant == Spec => []IInv
<1>1. Init => IInv
  BY InitInv
<1>2. IInv /\ [Next]_vars => IInv'
  BY NextInv
<1>3. QED
  BY <1>1, <1>2, PTL DEF Spec

(* osty_concurrent_workers never goes below zero, and only counted tasks are done. *)
THEOREM SchedulerTypeOK == Spec => []TypeOK
<1>1. IInv => TypeOK
  BY DEF IInv
<1>2. QED
  BY <1>1, SchedulerInvariant, PTL

(* A task is handed to one thread only, by a steal, by the inject queue or by a  *)
(* join that helps.                                                              *)
THEOREM SchedulerOnePlace == Spec => []OnePlace
<1>1. IInv => OnePlace
  BY DEF IInv
<1>2. QED
  BY <1>1, SchedulerInvariant, PTL

(* A body is back in its own group after it helped in a join and after a scope   *)
(* it opened, however deep scopes and helping nest.                              *)
THEOREM SchedulerOwnGroup == Spec => []OwnGroup
<1>1. IInv => OwnGroup
  <2>1. SUFFICES ASSUME IInv, NEW t \in Thread, pc[t] = "body"
                 PROVE  group[t] = Scope(Top(t))
    BY DEF OwnGroup
  <2>2. frames[t] # << >>
    BY <2>1 DEF IInv, Located, LocatedAt
  <2>3. QED
    BY <2>1, <2>2 DEF IInv, GroupsSaved
<1>2. QED
  BY <1>1, SchedulerInvariant, PTL

(* The counter that holds the collector off is the number of tasks that are      *)
(* queued and of tasks that a thread runs or has still to count off.             *)
THEOREM SchedulerHandlesPinned == Spec => []HandlesPinned
<1>1. IInv => HandlesPinned
  <2>1. SUFFICES ASSUME IInv
                 PROVE  HandlesPinned
    OBVIOUS
  <2> DEFINE R == UNION {Running(t) : t \in Thread}
  <2>2. Live = Queued \union R /\ IsFiniteSet(Live) /\ inflight = Cardinality(Live)
    BY <2>1, LiveFacts DEF Live
  <2>3. \A x \in Queued : x \notin R
    <3>1. SUFFICES ASSUME NEW x \in Queued, NEW t \in Thread, x \in Running(t)
                   PROVE  FALSE
      OBVIOUS
    <3>2. \/ \E w \in Worker : \E i \in DOMAIN deque[w] : deque[w][i] = x
          \/ \E i \in DOMAIN inject : inject[i] = x
      BY DEF Queued, Range
    <3>3. PICK j \in DOMAIN frames[t] : frames[t][j].task = x
      BY <3>1 DEF Running
    <3>4. QED
      BY <2>1, <3>2, <3>3 DEF IInv, OnePlace
  <2> HIDE DEF R
  <2>4. IsFiniteSet(Queued) /\ IsFiniteSet(R) /\ Queued \intersect R = {}
    BY <2>2, <2>3, FS_Subset
  <2>5. Cardinality(Queued \union R) = Cardinality(Queued) + Cardinality(R)
                                       - Cardinality(Queued \intersect R)
    BY <2>4, FS_Union
  <2>6. Cardinality(Queued) \in Nat /\ Cardinality(R) \in Nat /\ Cardinality(Queued \intersect R) = 0
    BY <2>4, FS_CardinalityType, FS_EmptySet
  <2>7. QED
    BY <2>2, <2>5, <2>6 DEF HandlesPinned, R
<1>2. QED
  BY <1>1, SchedulerInvariant, PTL

------------------------------------------------------------------------------
(* Task groups *)

(* The place of a child of a scope. *)
LEMMA ScopeChildFacts ==
  ASSUME TypeOK, NEW b \in Body, NEW i \in DOMAIN load.body[b], NEW j \in DOMAIN load.body[b],
         ScopeChild(b, i, j)
  PROVE  /\ i \in Nat /\ j \in Nat /\ i < j
         /\ load.body[b][i][1] = "spawn" /\ load.body[b][i][2] \in Task
         /\ load.body[b][j][1] = "endgroup" /\ load.body[b][j][2] \in Group
         /\ load.body[b][j][2] = load.group[load.body[b][i][2]]
         /\ load.body[b][j] = <<"endgroup", load.group[load.body[b][i][2]]>>
<1>1. load.body[b] \in Seq(Operation)
  BY LoadFacts
<1>2. i \in Nat /\ j \in Nat
  BY <1>1
<1>3. /\ load.body[b][j] = <<"endgroup", load.group[load.body[b][i][2]]>>
      /\ load.body[b][i][1] = "spawn" /\ i < j
  BY DEF ScopeChild
<1>4. load.body[b][j][1] = "endgroup" /\ load.body[b][j][2] = load.group[load.body[b][i][2]]
  BY <1>3
<1>5. QED
  BY <1>2, <1>3, <1>4, OpFacts

\* Waited after a step, of a frame as it is after the step.
WaitedNext(f, j, x) ==
    \/ x \in done'
    \/ /\ f.at =< j
       /\ x \in IF f.at = j /\ f.reaping THEN Range(f.kids) ELSE Range(children'[load.group[x]])

(* What a step has to show of the children of the scopes. *)
LEMMA ListedNext ==
  ASSUME load' = load,
         ASSUME NEW b \in Body, NEW i \in DOMAIN load.body[b], NEW j \in DOMAIN load.body[b],
                ScopeChild(b, i, j)
         PROVE  /\ b \in done' => load.body[b][i][2] \in done'
                /\ \A u \in Thread : \A n \in DOMAIN frames'[u] :
                     frames'[u][n].task = b /\ frames'[u][n].at > i =>
                       WaitedNext(frames'[u][n], j, load.body[b][i][2])
  PROVE  ChildrenListed'
<1>1. \A b, i, j : ScopeChild(b, i, j)' <=> ScopeChild(b, i, j)
  BY DEF ScopeChild
<1>2. ASSUME NEW u, NEW n, NEW j, NEW x
      PROVE  Waited(frames[u][n], j, x)' <=> WaitedNext(frames'[u][n], j, x)
  BY DEF Waited, WaitedNext
<1>3. ASSUME NEW b \in Body, NEW i \in DOMAIN load.body[b], NEW j \in DOMAIN load.body[b],
             ScopeChild(b, i, j)
      PROVE  /\ b \in done' => load.body[b][i][2] \in done'
             /\ \A u \in Thread : \A n \in DOMAIN frames'[u] :
                  frames'[u][n].task = b /\ frames'[u][n].at > i =>
                    Waited(frames[u][n], j, load.body[b][i][2])'
  BY <1>2, <1>3
<1>4. QED
  BY <1>1, <1>3 DEF ChildrenListed

(* Children stay where they are while bodies and lists do; they may be done. *)
LEMMA ListedStays ==
  ASSUME GroupInv, UNCHANGED <<load, children>>, done \subseteq done',
         \A b \in Body : \A i, j \in DOMAIN load.body[b] :
           ScopeChild(b, i, j) /\ b \in done' => b \in done \/ load.body[b][i][2] \in done,
         \A u \in Thread : \A n \in DOMAIN frames'[u] :
           \/ n \in DOMAIN frames[u] /\ frames'[u][n] = frames[u][n]
           \/ \A b \in Body : \A i \in DOMAIN load.body[b] : ~(frames'[u][n].at > i)
  PROVE  ChildrenListed'
<1>1. ASSUME NEW b \in Body, NEW i \in DOMAIN load.body[b], NEW j \in DOMAIN load.body[b],
             ScopeChild(b, i, j)
      PROVE  /\ b \in done' => load.body[b][i][2] \in done'
             /\ \A u \in Thread : \A n \in DOMAIN frames'[u] :
                  frames'[u][n].task = b /\ frames'[u][n].at > i =>
                    WaitedNext(frames'[u][n], j, load.body[b][i][2])
  <2> DEFINE x == load.body[b][i][2]
  <2>1. /\ b \in done => x \in done
        /\ \A u \in Thread : \A n \in DOMAIN frames[u] :
             frames[u][n].task = b /\ frames[u][n].at > i => Waited(frames[u][n], j, x)
    BY <1>1 DEF GroupInv, ChildrenListed
  <2>2. b \in done' => x \in done'
    BY <1>1, <2>1
  <2>3. ASSUME NEW f, Waited(f, j, x)
        PROVE  WaitedNext(f, j, x)
    BY <2>3 DEF Waited, WaitedNext
  <2> HIDE DEF x
  <2>4. QED
    BY <1>1, <2>1, <2>2, <2>3 DEF x
<1>2. QED
  BY <1>1, ListedNext

(* Steps that move threads only. *)
LEMMA QuietGroups ==
  ASSUME GroupInv, UNCHANGED <<load, frames, started, done, children, left>>,
         \A u \in Thread : Publishing(u) => Publishing(u)'
  PROVE  GroupInv'
<1>1. ReapingAtEnd' /\ ChildrenListed'
  BY ListedStays DEF GroupInv, ReapingAtEnd
<1>2. LeftBehind'
  <2>1. \A b, k : Passed(b, k) => Passed(b, k)'
    BY DEF Passed
  <2>2. QED
    BY <2>1 DEF GroupInv, LeftBehind
<1>3. Accounted'
  <2>1. \A u : Finished(u)' = Finished(u) /\ Op(u)' = Op(u)
    BY SameTops
  <2>2. QED
    BY <2>1 DEF GroupInv, Accounted, Reaping
<1>4. QED
  BY <1>1, <1>2, <1>3 DEF GroupInv

(* What is left of the invariant once the lists of children are known to be right. *)
LEMMA GroupsKeep ==
  ASSUME IInv, GroupInv, ReapingAtEnd', Accounted', ChildrenListed',
         UNCHANGED <<load, started, left>>,
         done \subseteq done',
         \A u \in Thread : \A i \in DOMAIN frames[u] :
           \/ frames[u][i].task \in done'
           \/ /\ i \in DOMAIN frames'[u] /\ frames'[u][i].task = frames[u][i].task
              /\ \A k \in Nat : frames[u][i].at > k => frames'[u][i].at > k
  PROVE  GroupInv'
<1>1. LeftBehind'
  <2>1. ASSUME NEW b \in Body, NEW k \in DOMAIN load.body[b], Passed(b, k)
        PROVE  Passed(b, k)'
    <3>1. k \in Nat
      <4>1. load.body[b] \in Seq(Operation)
        BY LoadFacts DEF IInv
      <4>2. QED
        BY <4>1
    <3>2. QED
      BY <2>1, <3>1 DEF Passed
  <2>2. QED
    BY <2>1 DEF GroupInv, LeftBehind
<1>2. QED
  BY <1>1 DEF GroupInv

(* The lists being reaped, when the top frame of t becomes f. *)
LEMMA ReapTop ==
  ASSUME IInv, NEW t \in Thread, frames[t] # << >>, NEW f \in FrameType,
         frames' = SetTop(t, f), load' = load,
         f.reaping => /\ f.at =< Len(load.body[f.task])
                      /\ load.body[f.task][f.at][1] = "endgroup",
         \A u \in Thread : \A i \in DOMAIN frames[u] :
           ~(u = t /\ i = Len(frames[t])) /\ frames[u][i].reaping =>
             /\ frames[u][i].at =< Len(load.body[frames[u][i].task])
             /\ load.body[frames[u][i].task][frames[u][i].at][1] = "endgroup"
  PROVE  ReapingAtEnd'
<1>1. /\ \A u \in Thread : DOMAIN frames'[u] = DOMAIN frames[u]
      /\ \A u \in Thread : \A i \in DOMAIN frames[u] :
           ~(u = t /\ i = Len(frames[t])) => frames'[u][i] = frames[u][i]
      /\ frames'[t][Len(frames[t])] = f
  BY SetTopFacts DEF IInv
<1>2. SUFFICES ASSUME NEW u \in Thread, NEW i \in DOMAIN frames'[u], frames'[u][i].reaping
               PROVE  /\ frames'[u][i].at =< Len(load.body[frames'[u][i].task])
                      /\ load.body[frames'[u][i].task][frames'[u][i].at][1] = "endgroup"
  BY DEF ReapingAtEnd
<1>3. CASE u = t /\ i = Len(frames[t])
  BY <1>1, <1>2, <1>3
<1>4. CASE ~(u = t /\ i = Len(frames[t]))
  <2>1. frames'[u][i] = frames[u][i] /\ i \in DOMAIN frames[u] /\ frames[u][i].reaping
    BY <1>1, <1>2, <1>4, SMTT(30)
  <2>2. QED
    BY <2>1, <1>4
<1>5. QED
  BY <1>3, <1>4

(* Who is accounted for, when the top frame of t becomes f. *)
LEMMA AccountTop ==
  ASSUME IInv, GroupInv, NEW t \in Thread, frames[t] # << >>, NEW f \in FrameType,
         frames' = SetTop(t, f), UNCHANGED <<load, started, done>>,
         \A u \in Thread : u # t => (Publishing(u) => Publishing(u)'),
         \A x \in started \ done : load.group[x] # NoGroup =>
           /\ x \in Range(children[load.group[x]]) =>
                \/ x \in Range(children'[load.group[x]])
                \/ Reaping(f, load.group[x]) /\ x \in Range(f.kids)
           /\ Reaping(Top(t), load.group[x]) /\ x \in Range(Top(t).kids) =>
                Reaping(f, load.group[x]) /\ x \in Range(f.kids)
           /\ Publishing(t) /\ ~Finished(t) /\ Op(t) = <<"spawn", x>> =>
                x \in Range(children'[load.group[x]])
  PROVE  Accounted'
<1>1. /\ \A u \in Thread : /\ DOMAIN frames'[u] = DOMAIN frames[u]
                           /\ frames'[u] = << >> <=> frames[u] = << >>
                           /\ u # t => frames'[u] = frames[u]
      /\ \A u \in Thread : \A i \in DOMAIN frames[u] :
           ~(u = t /\ i = Len(frames[t])) => frames'[u][i] = frames[u][i]
      /\ frames'[t][Len(frames[t])] = f
      /\ \A u \in Thread : u # t => Top(u)' = Top(u)
  BY SetTopFacts DEF IInv
<1>2. \A u \in Thread : u # t => Finished(u)' = Finished(u) /\ Op(u)' = Op(u)
  BY <1>1 DEF Finished, Op
<1>3. Len(frames[t]) \in DOMAIN frames[t] /\ Top(t) = frames[t][Len(frames[t])]
  BY TopFacts DEF IInv
<1>4. SUFFICES ASSUME NEW x \in started \ done, load.group[x] # NoGroup
               PROVE  \/ x \in Range(children'[load.group[x]])
                      \/ \E u \in Thread : \E i \in DOMAIN frames'[u] :
                           Reaping(frames'[u][i], load.group[x]) /\ x \in Range(frames'[u][i].kids)
                      \/ \E u \in Thread : /\ Publishing(u)' /\ frames'[u] # << >>
                                           /\ ~Finished(u)' /\ Op(u)' = <<"spawn", x>>
  BY DEF Accounted, Reaping
<1>5. CASE x \in Range(children[load.group[x]])
  BY <1>1, <1>3, <1>4, <1>5
<1>6. CASE \E u \in Thread : \E i \in DOMAIN frames[u] :
             Reaping(frames[u][i], load.group[x]) /\ x \in Range(frames[u][i].kids)
  <2>0. PICK u \in Thread : \E i \in DOMAIN frames[u] :
             Reaping(frames[u][i], load.group[x]) /\ x \in Range(frames[u][i].kids)
    BY <1>6
  <2>1. PICK i \in DOMAIN frames[u] :
             Reaping(frames[u][i], load.group[x]) /\ x \in Range(frames[u][i].kids)
    BY <2>0
  <2>2. CASE u = t /\ i = Len(frames[t])
    BY <2>1, <2>2, <1>1, <1>3, <1>4
  <2>3. CASE ~(u = t /\ i = Len(frames[t]))
    <3>1. frames'[u][i] = frames[u][i] /\ i \in DOMAIN frames'[u]
      BY <2>3, <1>1
    <3>2. QED
      BY <3>1, <2>1
  <2>4. QED
    BY <2>2, <2>3
<1>7. CASE \E u \in Thread : /\ Publishing(u) /\ frames[u] # << >>
                             /\ ~Finished(u) /\ Op(u) = <<"spawn", x>>
  <2>1. PICK u \in Thread : /\ Publishing(u) /\ frames[u] # << >>
                            /\ ~Finished(u) /\ Op(u) = <<"spawn", x>>
    BY <1>7
  <2>2. CASE u = t
    BY <2>1, <2>2, <1>4
  <2>3. CASE u # t
    BY <2>1, <2>3, <1>1, <1>2
  <2>4. QED
    BY <2>2, <2>3
<1>8. QED
  BY <1>4, <1>5, <1>6, <1>7 DEF GroupInv, Accounted

(* Where the children of the scopes are, when the top frame of t becomes f.  Only *)
(* the frame at the end of a scope may take from the list of the scope's group.   *)
LEMMA ListTop ==
  ASSUME IInv, GroupInv, NEW t \in Thread, frames[t] # << >>, NEW f \in FrameType,
         frames' = SetTop(t, f), UNCHANGED <<load, done>>, f.task = Top(t).task,
         \A g \in Group :
           \/ \A x : x \in Range(children[g]) => x \in Range(children'[g])
           \/ ~Finished(t) /\ Op(t) = <<"endgroup", g>>,
         \A i, j \in DOMAIN load.body[f.task] :
           ScopeChild(f.task, i, j) /\ f.at > i => WaitedNext(f, j, load.body[f.task][i][2])
  PROVE  ChildrenListed'
<1>1. /\ \A u \in Thread : DOMAIN frames'[u] = DOMAIN frames[u]
      /\ \A u \in Thread : \A n \in DOMAIN frames[u] :
           ~(u = t /\ n = Len(frames[t])) => frames'[u][n] = frames[u][n]
      /\ frames'[t][Len(frames[t])] = f
  BY SetTopFacts DEF IInv
<1>2. TypeOK /\ Len(frames[t]) \in DOMAIN frames[t] /\ Top(t) = frames[t][Len(frames[t])]
  BY TopFacts DEF IInv
<1>3. SUFFICES ASSUME NEW b \in Body, NEW i \in DOMAIN load.body[b], NEW j \in DOMAIN load.body[b],
                      ScopeChild(b, i, j)
               PROVE  /\ b \in done => load.body[b][i][2] \in done
                      /\ \A u \in Thread : \A n \in DOMAIN frames'[u] :
                           frames'[u][n].task = b /\ frames'[u][n].at > i =>
                             WaitedNext(frames'[u][n], j, load.body[b][i][2])
  BY ListedNext
<1> DEFINE x == load.body[b][i][2]
<1>4. b \in done => x \in done
  BY <1>3 DEF GroupInv, ChildrenListed
<1>5. ASSUME NEW u \in Thread, NEW n \in DOMAIN frames'[u],
             frames'[u][n].task = b, frames'[u][n].at > i
      PROVE  WaitedNext(frames'[u][n], j, x)
  <2>1. CASE u = t /\ n = Len(frames[t])
    BY <2>1, <1>1, <1>3, <1>5
  <2>2. CASE ~(u = t /\ n = Len(frames[t]))
    <3>1. n \in DOMAIN frames[u] /\ frames'[u][n] = frames[u][n]
      BY <2>2, <1>1
    <3>2. Waited(frames[u][n], j, x)
      BY <3>1, <1>3, <1>5 DEF GroupInv, ChildrenListed
    <3>3. load.group[x] \in Group /\ load.body[b][j] = <<"endgroup", load.group[x]>>
          /\ load.body[b][j][1] = "endgroup"
      BY <1>2, <1>3, ScopeChildFacts
    <3>4. ASSUME ~Finished(t), Op(t) = <<"endgroup", load.group[x]>>
          PROVE  FALSE
      <4>1. /\ Top(t).at \in DOMAIN load.body[Top(t).task] /\ Top(t).task \in Body
            /\ Op(t) = load.body[Top(t).task][Top(t).at]
        BY <3>4, <1>2, AtOp, TopFacts
      <4>2. Top(t).task = b
        <5>1. load.body[Top(t).task][Top(t).at] = load.body[b][j]
          BY <3>3, <3>4, <4>1
        <5>2. MadeOnce(load)
          BY <1>2, LoadFacts
        <5>3. QED
          BY <5>1, <5>2, <3>3, <4>1 DEF MadeOnce
      <4>3. QED
        BY <4>2, <3>1, <2>2, <1>2, <1>5, OneFrame
    <3>5. x \in Range(children[load.group[x]]) => x \in Range(children'[load.group[x]])
      BY <3>3, <3>4
    <3> HIDE DEF x
    <3>6. QED
      BY <3>1, <3>2, <3>5 DEF Waited, WaitedNext
  <2>3. QED
    BY <2>1, <2>2
<1>6. QED
  BY <1>4, <1>5

(* What is known of the children of the scopes of the top frame. *)
LEMMA TopListed ==
  ASSUME IInv, GroupInv, NEW t \in Thread, frames[t] # << >>,
         NEW i \in DOMAIN load.body[Top(t).task], NEW j \in DOMAIN load.body[Top(t).task],
         ScopeChild(Top(t).task, i, j), Top(t).at > i
  PROVE  Waited(Top(t), j, load.body[Top(t).task][i][2])
<1>1. /\ Len(frames[t]) \in DOMAIN frames[t] /\ Top(t) = frames[t][Len(frames[t])]
      /\ Top(t).task \in Body
  BY TopFacts DEF IInv
<1>2. QED
  BY <1>1 DEF GroupInv, ChildrenListed

(* A frame that reaps is at the end of the scope. *)
LEMMA ReapsAtEnd ==
  ASSUME IInv, GroupInv, NEW t \in Thread, frames[t] # << >>, Top(t).reaping
  PROVE  /\ ~Finished(t) /\ Op(t)[1] = "endgroup"
         /\ Top(t).at =< Len(load.body[Top(t).task])
<1>1. Len(frames[t]) \in DOMAIN frames[t] /\ Top(t) = frames[t][Len(frames[t])]
      /\ Top(t).at \in Nat /\ Top(t).task \in Body
  BY TopFacts DEF IInv
<1>2. load.body[Top(t).task] \in Seq(Operation)
  BY <1>1, LoadFacts DEF IInv
<1>3. /\ Top(t).at =< Len(load.body[Top(t).task]) /\ Op(t)[1] = "endgroup"
  BY <1>1, SMTT(30) DEF GroupInv, ReapingAtEnd, Op
<1>4. Len(load.body[Top(t).task]) \in Nat
  BY <1>2
<1>5. QED
  BY <1>1, <1>3, <1>4 DEF Finished

(* A body goes on, and the lists of children stay what they are. *)
LEMMA PlainGroupsKeep ==
  ASSUME IInv, GroupInv, NEW t \in Thread, frames[t] # << >>, ~Finished(t),
         Op(t)[1] \notin {"spawn", "endgroup"}, ~Publishing(t), NEW f \in FrameType, frames' = SetTop(t, f),
         ~f.reaping, f.task = Top(t).task, f.at = Top(t).at + 1,
         UNCHANGED <<load, started, done, children, left>>,
         \A u \in Thread : u # t => (Publishing(u) => Publishing(u)')
  PROVE  GroupInv'
<1>1. ~Top(t).reaping
  BY ReapsAtEnd
<1>2. ReapingAtEnd'
  BY ReapTop, ZenonT(60) DEF GroupInv, ReapingAtEnd
<1>3. Accounted'
  BY <1>1, AccountTop DEF Reaping
<1>4. Top(t).at \in Nat
  BY TopFacts DEF IInv
<1>5. /\ \A u \in Thread : DOMAIN frames'[u] = DOMAIN frames[u]
      /\ \A u \in Thread : \A i \in DOMAIN frames[u] :
           ~(u = t /\ i = Len(frames[t])) => frames'[u][i] = frames[u][i]
      /\ frames'[t][Len(frames[t])] = f
      /\ Top(t) = frames[t][Len(frames[t])]
  BY SetTopFacts DEF IInv, Top
<1>6. \A u \in Thread : \A i \in DOMAIN frames[u] :
        /\ i \in DOMAIN frames'[u] /\ frames'[u][i].task = frames[u][i].task
        /\ \A k \in Nat : frames[u][i].at > k => frames'[u][i].at > k
  <2>1. SUFFICES ASSUME NEW u \in Thread, NEW i \in DOMAIN frames[u]
                 PROVE  /\ frames'[u][i].task = frames[u][i].task
                        /\ \A k \in Nat : frames[u][i].at > k => frames'[u][i].at > k
    BY <1>5
  <2>2. CASE u = t /\ i = Len(frames[t])
    BY <2>2, <1>4, <1>5
  <2>3. CASE ~(u = t /\ i = Len(frames[t]))
    BY <2>3, <1>5
  <2>4. QED
    BY <2>2, <2>3
<1>7. ChildrenListed'
  <2>1. ASSUME NEW i \in DOMAIN load.body[f.task], NEW j \in DOMAIN load.body[f.task],
               ScopeChild(f.task, i, j), f.at > i
        PROVE  WaitedNext(f, j, load.body[f.task][i][2])
    <3> DEFINE b == Top(t).task
               x == load.body[b][i][2]
    <3>1. /\ TypeOK /\ b \in Body /\ f.task = b /\ f.at = Top(t).at + 1 /\ ~f.reaping
          /\ Op(t) = load.body[b][Top(t).at]
      BY TopFacts, AtOp DEF IInv
    <3>2. i \in DOMAIN load.body[b] /\ j \in DOMAIN load.body[b] /\ ScopeChild(b, i, j)
      BY <2>1, <3>1
    <3>3. /\ i \in Nat /\ j \in Nat /\ load.body[b][i][1] = "spawn"
          /\ load.body[b][j][1] = "endgroup"
      BY <3>1, <3>2, ScopeChildFacts
    <3>4. Top(t).at # i /\ Top(t).at # j
      BY <3>1, <3>3
    <3>5. Top(t).at > i
      BY <2>1, <3>1, <3>3, <3>4, <1>4
    <3>6. Waited(Top(t), j, x)
      BY <3>2, <3>5, TopListed
    <3> HIDE DEF b, x
    <3>7. WaitedNext(f, j, x)
      BY <3>1, <3>3, <3>4, <3>6, <1>4 DEF Waited, WaitedNext
    <3>8. QED
      BY <3>1, <3>7 DEF x
  <2>2. QED
    BY <2>1, ListTop
<1>8. QED
  BY <1>2, <1>3, <1>6, <1>7, GroupsKeep

(* What a step does to the other threads does not end a spawn. *)
LEMMA OthersPublish ==
  ASSUME NEW t \in Thread, Others(t)
  PROVE  \A u \in Thread : u # t => (Publishing(u) => Publishing(u)')
BY DEF Others, Publishing

(* Steps that move their own thread, and wake or start others. *)
LEMMA MoveGroups ==
  ASSUME IInv, GroupInv, NEW t \in Thread, pc[t] \notin {"signal", "attach", "aborted"}, Others(t),
         UNCHANGED <<load, frames, started, done, children, left>>
  PROVE  GroupInv'
<1>1. \A u \in Thread : Publishing(u) => Publishing(u)'
  BY OthersPublish DEF Publishing
<1>2. QED
  BY <1>1, QuietGroups

(* A body goes on after an operation that is not about groups. *)
LEMMA AdvanceGroups ==
  ASSUME IInv, GroupInv, NEW t \in Thread, frames[t] # << >>, ~Finished(t),
         Op(t)[1] \notin {"spawn", "endgroup"}, pc[t] \notin {"signal", "attach", "aborted"},
         frames' = Advanced(t), UNCHANGED <<load, started, done, children, left>>, Others(t)
  PROVE  GroupInv'
<1> DEFINE f == [Top(t) EXCEPT !.at = @ + 1, !.reaping = FALSE]
<1>1. Top(t) \in FrameType
  BY TopFacts DEF IInv
<1>2. f \in FrameType /\ f.task = Top(t).task /\ ~f.reaping /\ f.at = Top(t).at + 1
  BY <1>1, NextFrame
<1>3. frames' = SetTop(t, f)
  BY DEF Advanced
<1> HIDE DEF f
<1>4. ~Publishing(t) /\ \A u \in Thread : u # t => (Publishing(u) => Publishing(u)')
  BY OthersPublish DEF Publishing
<1>5. QED
  BY <1>2, <1>3, <1>4, PlainGroupsKeep

(* A scope is opened. *)
LEMMA EnterGroupGroups ==
  ASSUME IInv, GroupInv, NEW t \in Thread, EnterGroup(t)
  PROVE  GroupInv'
<1> DEFINE g == Op(t)[2]
           f == Opened(Top(t), g, group[t])
<1>1. /\ pc[t] = "body" /\ ~Finished(t) /\ Op(t)[1] = "group" /\ frames[t] # << >>
      /\ Top(t) \in FrameType /\ TypeOK
  BY AtFacts, TopFacts DEF EnterGroup, IInv
<1>2. /\ frames' = SetTop(t, f) /\ UNCHANGED <<load, pc, started, done, children, left>>
  BY DEF EnterGroup, taskVars, queueVars, Opened
<1>3. g \in Group /\ group[t] \in AnyGroup
  BY <1>1, AtOp DEF TypeOK
<1>4. /\ f \in FrameType /\ f.task = Top(t).task /\ (f.reaping <=> Top(t).reaping)
      /\ f.at = Top(t).at + 1
  BY <1>1, <1>3, ScopeFrame
<1> HIDE DEF f
<1>5. ~Top(t).reaping
  BY <1>1, ReapsAtEnd
<1>6. ~f.reaping
  BY <1>4, <1>5
<1>7. ~Publishing(t) /\ \A u \in Thread : u # t => (Publishing(u) => Publishing(u)')
  BY <1>1, <1>2 DEF Publishing
<1>8. f.task = Top(t).task /\ f.at = Top(t).at + 1 /\ f \in FrameType
  BY <1>4
<1>9. QED
  BY <1>1, <1>2, <1>6, <1>7, <1>8, PlainGroupsKeep

(* A task that starts reaps nobody. *)
LEMMA RunGroups ==
  ASSUME IInv, GroupInv, NEW t \in Thread, NEW x \in Task, Run(t, x),
         pc[t] \in {"take", "steal", "cas"},
         UNCHANGED <<load, started, done, children, left>>
  PROVE  GroupInv'
<1> DEFINE n == Len(frames[t])
           f == Frame(x, group[t])
<1>1. /\ TypeOK /\ group[t] \in AnyGroup
      /\ frames' = [frames EXCEPT ![t] = Append(@, f)]
  BY DEF IInv, TypeOK, Run
<1>2. f \in FrameType /\ ~f.reaping /\ f.at = 1
  BY <1>1, NewFrame
<1>3. /\ \A u \in Thread : u # t => frames'[u] = frames[u] /\ Top(u)' = Top(u)
      /\ n \in Nat /\ DOMAIN frames'[t] = 1 .. n + 1 /\ DOMAIN frames[t] = 1 .. n
      /\ \A i \in DOMAIN frames[t] : frames'[t][i] = frames[t][i]
      /\ frames'[t][n + 1] = f
  BY <1>1, <1>2, PushFacts
<1> HIDE DEF n, f
<1>4. /\ \A u \in Thread : \A i \in DOMAIN frames[u] :
           i \in DOMAIN frames'[u] /\ frames'[u][i] = frames[u][i]
      /\ \A u \in Thread : \A i \in DOMAIN frames'[u] : frames'[u][i].reaping =>
           i \in DOMAIN frames[u] /\ frames'[u][i] = frames[u][i]
  BY <1>2, <1>3
<1>5. ReapingAtEnd'
  <2>1. SUFFICES ASSUME NEW u \in Thread, NEW i \in DOMAIN frames'[u], frames'[u][i].reaping
                 PROVE  /\ frames'[u][i].at =< Len(load.body[frames'[u][i].task])
                        /\ load.body[frames'[u][i].task][frames'[u][i].at][1] = "endgroup"
    BY DEF ReapingAtEnd
  <2>2. i \in DOMAIN frames[u] /\ frames'[u][i] = frames[u][i] /\ frames[u][i].reaping
    BY <2>1, <1>4
  <2>3. QED
    BY <2>2 DEF GroupInv, ReapingAtEnd
<1>6. \A u \in Thread : u # t => Finished(u)' = Finished(u) /\ Op(u)' = Op(u)
  BY <1>3 DEF Finished, Op
<1>7. \A u \in Thread : Publishing(u) => Publishing(u)' /\ u # t
  BY DEF Publishing, Run, Goto, IInv, TypeOK
<1>8. Accounted'
  <2>1. SUFFICES ASSUME NEW y \in started \ done, load.group[y] # NoGroup
                 PROVE  \/ y \in Range(children[load.group[y]])
                        \/ \E u \in Thread : \E i \in DOMAIN frames'[u] :
                             Reaping(frames'[u][i], load.group[y]) /\ y \in Range(frames'[u][i].kids)
                        \/ \E u \in Thread : /\ Publishing(u)' /\ frames'[u] # << >>
                                             /\ ~Finished(u)' /\ Op(u)' = <<"spawn", y>>
    BY DEF Accounted, Reaping
  <2>2. ASSUME NEW u \in Thread, NEW i \in DOMAIN frames[u],
               Reaping(frames[u][i], load.group[y]), y \in Range(frames[u][i].kids)
        PROVE  /\ i \in DOMAIN frames'[u] /\ Reaping(frames'[u][i], load.group[y])
               /\ y \in Range(frames'[u][i].kids)
    BY <2>2, <1>4
  <2>3. ASSUME NEW u \in Thread, Publishing(u), frames[u] # << >>, ~Finished(u),
               Op(u) = <<"spawn", y>>
        PROVE  Publishing(u)' /\ frames'[u] # << >> /\ ~Finished(u)' /\ Op(u)' = <<"spawn", y>>
    BY <2>3, <1>3, <1>6, <1>7
  <2>4. QED
    BY <2>1, <2>2, <2>3 DEF GroupInv, Accounted
<1>9. ChildrenListed'
  <2>1. \A u \in Thread : \A i \in DOMAIN frames'[u] : frames'[u][i].at # 1 =>
          i \in DOMAIN frames[u] /\ frames'[u][i] = frames[u][i]
    BY <1>2, <1>3
  <2>2. \A b \in Body : \A i \in DOMAIN load.body[b] : i \in Nat /\ i >= 1
    <3>1. ASSUME NEW b \in Body, NEW i \in DOMAIN load.body[b]
          PROVE  i \in Nat /\ i >= 1
      <4>1. load.body[b] \in Seq(Operation)
        BY <1>1, LoadFacts
      <4>2. QED
        BY <4>1
    <3>2. QED
      BY <3>1
  <2>3. ASSUME NEW u \in Thread, NEW m \in DOMAIN frames'[u]
        PROVE  \/ m \in DOMAIN frames[u] /\ frames'[u][m] = frames[u][m]
               \/ \A b \in Body : \A i \in DOMAIN load.body[b] : ~(frames'[u][m].at > i)
    <3>1. CASE frames'[u][m].at = 1
      <4>1. \A b \in Body : \A i \in DOMAIN load.body[b] : ~(1 > i)
        BY <2>2
      <4>2. QED
        BY <3>1, <4>1
    <3>2. CASE frames'[u][m].at # 1
      BY <3>2, <2>1
    <3>3. QED
      BY <3>1, <3>2
  <2>4. QED
    BY <2>3, ListedStays
<1>10. QED
  BY <1>4, <1>5, <1>8, <1>9, GroupsKeep

(* A frame that goes reaped nobody: its body was at its end. *)
LEMMA WorkersDecGroups ==
  ASSUME IInv, GroupInv, NEW t \in Thread, WorkersDec(t)
  PROVE  GroupInv'
<1> DEFINE n == Len(frames[t])
<1>1. /\ pc[t] = "dec" /\ frames[t] # << >> /\ Finished(t) /\ Top(t).task \in done
      /\ UNCHANGED <<load, started, done, children, left>>
      /\ frames' = [frames EXCEPT ![t] = SubSeq(@, 1, Len(@) - 1)]
      /\ TypeOK
  BY DEF WorkersDec, taskVars, IInv, Located, LocatedAt
<1>2. /\ \A u \in Thread : u # t => frames'[u] = frames[u] /\ Top(u)' = Top(u)
      /\ DOMAIN frames'[t] = 1 .. n - 1
      /\ \A i \in DOMAIN frames'[t] : i \in DOMAIN frames[t] /\ frames'[t][i] = frames[t][i]
  BY <1>1, PopFacts
<1>3. n \in Nat \ {0} /\ DOMAIN frames[t] = 1 .. n /\ Top(t) = frames[t][n]
  BY <1>1, TopFacts
<1>4. ~frames[t][n].reaping
  BY <1>1, <1>3, ReapsAtEnd
<1> HIDE DEF n
<1>5. /\ \A u \in Thread : \A i \in DOMAIN frames[u] :
           ~(u = t /\ i = n) => i \in DOMAIN frames'[u] /\ frames'[u][i] = frames[u][i]
      /\ \A u \in Thread : \A i \in DOMAIN frames'[u] :
           i \in DOMAIN frames[u] /\ frames'[u][i] = frames[u][i]
  BY <1>2, <1>3
<1>6. ReapingAtEnd'
  <2>1. SUFFICES ASSUME NEW u \in Thread, NEW i \in DOMAIN frames'[u], frames'[u][i].reaping
                 PROVE  /\ frames'[u][i].at =< Len(load.body[frames'[u][i].task])
                        /\ load.body[frames'[u][i].task][frames'[u][i].at][1] = "endgroup"
    BY <1>1 DEF ReapingAtEnd
  <2>2. i \in DOMAIN frames[u] /\ frames'[u][i] = frames[u][i] /\ frames[u][i].reaping
    BY <2>1, <1>5
  <2>3. QED
    BY <2>2 DEF GroupInv, ReapingAtEnd
<1>7. \A u \in Thread : u # t => Finished(u)' = Finished(u) /\ Op(u)' = Op(u)
  BY <1>1, <1>2 DEF Finished, Op
<1>8. \A u \in Thread : Publishing(u) => Publishing(u)' /\ u # t
  BY <1>1 DEF Publishing, WorkersDec, Goto, TypeOK
<1>9. Accounted'
  <2>1. SUFFICES ASSUME NEW y \in started \ done, load.group[y] # NoGroup
                 PROVE  \/ y \in Range(children[load.group[y]])
                        \/ \E u \in Thread : \E i \in DOMAIN frames'[u] :
                             Reaping(frames'[u][i], load.group[y]) /\ y \in Range(frames'[u][i].kids)
                        \/ \E u \in Thread : /\ Publishing(u)' /\ frames'[u] # << >>
                                             /\ ~Finished(u)' /\ Op(u)' = <<"spawn", y>>
    <3>1. UNCHANGED <<load, started, done, children>>
      BY <1>1
    <3>2. QED
      BY <3>1 DEF Accounted, Reaping
  <2>2. ASSUME NEW u \in Thread, NEW i \in DOMAIN frames[u],
               Reaping(frames[u][i], load.group[y]), y \in Range(frames[u][i].kids)
        PROVE  /\ i \in DOMAIN frames'[u] /\ Reaping(frames'[u][i], load.group[y])
               /\ y \in Range(frames'[u][i].kids)
    <3>1. ~(u = t /\ i = n)
      BY <2>2, <1>4 DEF Reaping
    <3>2. QED
      BY <2>2, <3>1, <1>5
  <2>3. ASSUME NEW u \in Thread, Publishing(u), frames[u] # << >>, ~Finished(u),
               Op(u) = <<"spawn", y>>
        PROVE  Publishing(u)' /\ frames'[u] # << >> /\ ~Finished(u)' /\ Op(u)' = <<"spawn", y>>
    BY <2>3, <1>2, <1>7, <1>8
  <2>4. QED
    BY <2>1, <2>2, <2>3 DEF GroupInv, Accounted
<1>10. \A u \in Thread : \A i \in DOMAIN frames[u] :
         \/ frames[u][i].task \in done
         \/ i \in DOMAIN frames'[u] /\ frames'[u][i] = frames[u][i]
  BY <1>1, <1>3, <1>5
<1>11. ChildrenListed'
  BY <1>1, <1>5, ListedStays
<1>12. QED
  BY <1>1, <1>6, <1>9, <1>10, <1>11, GroupsKeep

(* A child that has returned is accounted for. *)
LEMMA ReturnGroups ==
  ASSUME IInv, GroupInv, NEW t \in Thread, Return(t)
  PROVE  GroupInv'
<1>1. /\ pc[t] = "body" /\ done \subseteq done'
      /\ UNCHANGED <<load, frames, started, children, left>>
  BY DEF Return, queueVars
<1>2. \A u \in Thread : Publishing(u) => Publishing(u)'
  BY <1>1 DEF Publishing, Return, Goto, IInv, TypeOK
<1>3. \A u : Finished(u)' = Finished(u) /\ Op(u)' = Op(u)
  BY <1>1, SameTops
<1>4. ReapingAtEnd'
  BY <1>1 DEF GroupInv, ReapingAtEnd
<1>5. Accounted'
  BY <1>1, <1>2, <1>3 DEF GroupInv, Accounted, Reaping
<1>6. ChildrenListed'
  <2>1. /\ pc[t] = "body" /\ Finished(t) /\ done' = done \union {Top(t).task}
        /\ UNCHANGED <<load, frames, children>>
    BY DEF Return
  <2>2. frames[t] # << >> /\ TypeOK
    BY <2>1 DEF IInv, Located, LocatedAt
  <2>3. SUFFICES ASSUME NEW b \in Body, NEW i \in DOMAIN load.body[b], NEW j \in DOMAIN load.body[b],
                        ScopeChild(b, i, j), b = Top(t).task
                 PROVE  load.body[b][i][2] \in done
    BY <2>1, ListedStays
  <2>4. load.body[b] \in Seq(Operation) /\ Top(t).at \in Nat
    BY <2>2, LoadFacts, TopFacts
  <2>5. Top(t).at > i /\ ~(Top(t).at =< j)
    BY <2>1, <2>3, <2>4 DEF Finished
  <2>6. Waited(Top(t), j, load.body[b][i][2])
    BY <2>2, <2>3, <2>5, TopListed
  <2>7. QED
    BY <2>5, <2>6 DEF Waited
<1>7. QED
  BY <1>1, <1>4, <1>5, <1>6, GroupsKeep

(* The children of a group move from its list to the list being reaped. *)
LEMMA ReapStartGroups ==
  ASSUME IInv, GroupInv, NEW t \in Thread, ReapStart(t)
  PROVE  GroupInv'
<1> DEFINE g == Op(t)[2]
           f == WithKids(Top(t), children[g])
<1>1. /\ pc[t] = "body" /\ ~Finished(t) /\ Op(t)[1] = "endgroup" /\ frames[t] # << >>
      /\ Top(t) \in FrameType /\ TypeOK /\ ~Top(t).reaping
  BY AtFacts, TopFacts DEF ReapStart, IInv
<1>2. /\ frames' = SetTop(t, f) /\ children' = [children EXCEPT ![g] = << >>]
      /\ UNCHANGED <<load, pc, started, done, left>>
  BY DEF ReapStart, WithKids, queueVars
<1>3. /\ g \in Group /\ children \in [Group -> Seq(Task)] /\ children[g] \in Seq(Task)
      /\ Op(t) = load.body[Top(t).task][Top(t).at] /\ Op(t) \in Operation
      /\ Top(t).at =< Len(load.body[Top(t).task])
  BY <1>1, AtOp DEF TypeOK
<1>4. f \in FrameType /\ f.task = Top(t).task /\ f.at = Top(t).at /\ f.kids = children[g] /\ f.reaping
  <2>1. Top(t) \in FrameType
    BY <1>1
  <2>2. children[g] \in Seq(Task)
    BY <1>3
  <2> HIDE DEF g
  <2>3. QED
    BY <2>1, <2>2, KidsFrame
<1> HIDE DEF f
<1>5. Op(t) = <<"endgroup", g>> /\ load.body[f.task][f.at] = <<"endgroup", g>>
  BY <1>1, <1>3, <1>4, OpPair
<1>6. /\ children'[g] = << >> /\ \A h \in Group : h # g => children'[h] = children[h]
  BY <1>2, <1>3
<1>7. \A u \in Thread : \A i \in DOMAIN frames[u] : frames[u][i].reaping =>
             /\ frames[u][i].at =< Len(load.body[frames[u][i].task])
             /\ load.body[frames[u][i].task][frames[u][i].at][1] = "endgroup"
  BY DEF GroupInv, ReapingAtEnd
<1>8. ReapingAtEnd'
  <2>1. /\ f.at =< Len(load.body[f.task]) /\ load.body[f.task][f.at][1] = "endgroup"
    BY <1>3, <1>4, <1>5, <1>6, SMTT(30)
  <2>2. QED
    BY <2>1, <1>1, <1>2, <1>4, <1>7, ReapTop
<1>9. Accounted'
  <2>1. ASSUME NEW x \in started \ done, load.group[x] # NoGroup
        PROVE  /\ x \in Range(children[load.group[x]]) =>
                    \/ x \in Range(children'[load.group[x]])
                    \/ Reaping(f, load.group[x]) /\ x \in Range(f.kids)
               /\ ~Reaping(Top(t), load.group[x])
               /\ ~Publishing(t)
    <3>1. load.group[x] \in Group
      BY <2>1, <1>1, LoadFacts DEF TypeOK, AnyGroup
    <3>2. CASE load.group[x] = g
      BY <3>2, <1>1, <1>4, <1>5 DEF Reaping, Publishing
    <3>3. CASE load.group[x] # g
      BY <3>1, <3>3, <1>1, <1>6 DEF Reaping, Publishing
    <3>4. QED
      BY <3>2, <3>3
  <2>2. \A u \in Thread : Publishing(u) => Publishing(u)'
    BY <1>2 DEF Publishing
  <2>3. QED
    BY <2>1, <2>2, <1>1, <1>2, <1>4, AccountTop
<1>10. /\ \A u \in Thread : DOMAIN frames'[u] = DOMAIN frames[u]
       /\ \A u \in Thread : \A i \in DOMAIN frames[u] :
            ~(u = t /\ i = Len(frames[t])) => frames'[u][i] = frames[u][i]
       /\ frames'[t][Len(frames[t])] = f
       /\ Top(t) = frames[t][Len(frames[t])]
  BY <1>1, <1>2, <1>4, SetTopFacts DEF Top
<1>11. \A u \in Thread : \A i \in DOMAIN frames[u] :
         /\ i \in DOMAIN frames'[u] /\ frames'[u][i].task = frames[u][i].task
         /\ frames'[u][i].at = frames[u][i].at
  BY <1>4, <1>10
<1>12. ChildrenListed'
  <2>1. ASSUME NEW i \in DOMAIN load.body[f.task], NEW j \in DOMAIN load.body[f.task],
               ScopeChild(f.task, i, j), f.at > i
        PROVE  WaitedNext(f, j, load.body[f.task][i][2])
    <3> DEFINE b == Top(t).task
               x == load.body[b][i][2]
    <3>1. /\ b \in Body /\ f.task = b /\ f.at = Top(t).at /\ f.reaping /\ f.kids = children[g]
          /\ Op(t) = load.body[b][Top(t).at] /\ Top(t).at \in DOMAIN load.body[b]
      BY <1>1, <1>4, TopFacts, AtOp
    <3>2. i \in DOMAIN load.body[b] /\ j \in DOMAIN load.body[b] /\ ScopeChild(b, i, j)
      BY <2>1, <3>1
    <3>3. /\ load.body[b][j] = <<"endgroup", load.group[x]>> /\ load.body[b][j][1] = "endgroup"
          /\ load.group[x] \in Group
      BY <1>1, <3>1, <3>2, ScopeChildFacts
    <3>4. Waited(Top(t), j, x)
      BY <1>1, <2>1, <3>1, <3>2, TopListed
    <3>5. load.group[x] = g <=> Top(t).at = j
      <4>1. ASSUME load.group[x] = g PROVE Top(t).at = j
        <5>1. load.body[b][Top(t).at] = load.body[b][j] /\ MadeOnce(load)
          BY <4>1, <1>1, <1>5, <3>1, <3>3, LoadFacts
        <5>2. load.body[b][Top(t).at][1] = "endgroup" /\ b \in Body
          BY <5>1, <3>1, <3>3
        <5>3. Top(t).at \in DOMAIN load.body[b] /\ j \in DOMAIN load.body[b]
          BY <3>1, <3>2
        <5> HIDE DEF b
        <5>4. QED
          BY <5>1, <5>2, <5>3 DEF MadeOnce
      <4>2. ASSUME Top(t).at = j PROVE load.group[x] = g
        <5>1. <<"endgroup", load.group[x]>> = <<"endgroup", g>>
          BY <4>2, <1>5, <3>1, <3>3
        <5>2. QED
          BY <5>1
      <4>3. QED
        BY <4>1, <4>2
    <3>6. load' = load /\ done' = done /\ ~Top(t).reaping
      BY <1>1, <1>2
    <3> HIDE DEF b, x, g
    <3>7. WaitedNext(f, j, x)
      BY <1>6, <3>1, <3>3, <3>4, <3>5, <3>6 DEF Waited, WaitedNext
    <3>8. QED
      BY <3>1, <3>7 DEF x
  <2>2. \A h \in Group :
          \/ \A x : x \in Range(children[h]) => x \in Range(children'[h])
          \/ ~Finished(t) /\ Op(t) = <<"endgroup", h>>
    BY <1>1, <1>5, <1>6
  <2>3. frames[t] # << >> /\ f \in FrameType /\ f.task = Top(t).task
    BY <1>1, <1>4
  <2>4. QED
    BY <2>1, <2>2, <2>3, <1>2, ListTop
<1>13. QED
  BY <1>2, <1>8, <1>9, <1>11, <1>12, GroupsKeep

(* A child that was waited for is done. *)
LEMMA JoinDoneGroups ==
  ASSUME IInv, GroupInv, NEW t \in Thread, JoinDone(t)
  PROVE  GroupInv'
<1>1. /\ pc[t] = "body" /\ ~Finished(t) /\ frames[t] # << >>
      /\ Top(t) \in FrameType /\ TypeOK
      /\ \/ Op(t)[1] = "join"
         \/ Op(t)[1] = "endgroup" /\ Top(t).reaping /\ Top(t).kids # << >>
      /\ Awaited(t)[2] \in done
  BY AtFacts, TopFacts DEF JoinDone, IInv, Waiting
<1>2. /\ frames' = IF Op(t)[1] = "join" THEN Advanced(t)
                   ELSE SetTop(t, [Top(t) EXCEPT !.kids = Tail(@)])
      /\ UNCHANGED <<load, pc, started, done, children, left>>
  BY DEF JoinDone, taskVars, queueVars
<1>3. CASE Op(t)[1] = "join"
  BY <1>1, <1>2, <1>3, AdvanceGroups DEF Others
<1>4. CASE Op(t)[1] = "endgroup" /\ Top(t).reaping /\ Top(t).kids # << >>
  <2> DEFINE s == Tail(Top(t).kids)
             f == WithKids(Top(t), s)
  <2>1. s \in Seq(Task) /\ Top(t).kids \in Seq(Task)
    BY <1>1, <1>4 DEF FrameType
  <2>2. f = [Top(t) EXCEPT !.kids = Tail(@)]
    BY <1>1, <1>4, <2>1 DEF FrameType, WithKids
  <2>3. frames' = SetTop(t, f)
    BY <1>2, <1>4, <2>2
  <2>4. \A x : x \in Range(Top(t).kids) => x \in Range(s) \/ x \in done
    <3>1. Awaited(t)[2] = Head(Top(t).kids)
      BY <1>4 DEF Awaited
    <3>2. ASSUME NEW x \in Range(Top(t).kids), x # Head(Top(t).kids)
          PROVE  x \in Range(s)
      <4>1. PICK i \in DOMAIN Top(t).kids : Top(t).kids[i] = x
        BY <3>2 DEF Range
      <4> DEFINE q == Top(t).kids
      <4>2. q \in Seq(Task) /\ q # << >>
        BY <1>4, <2>1
      <4>3. /\ Len(q) \in Nat /\ DOMAIN q = 1 .. Len(q) /\ Head(q) = q[1]
            /\ DOMAIN s = 1 .. Len(q) - 1 /\ \A j \in 1 .. Len(q) - 1 : s[j] = q[j + 1]
        BY <4>2, WithoutFirst
      <4>4. i \in 1 .. Len(q) /\ i # 1
        BY <4>1, <4>3, <3>2
      <4>5. i - 1 \in 1 .. Len(q) - 1 /\ (i - 1) + 1 = i
        BY <4>3, <4>4
      <4>6. i - 1 \in DOMAIN s /\ s[i - 1] = x
        BY <4>1, <4>3, <4>5
      <4> HIDE DEF s
      <4>7. QED
        BY <4>6 DEF Range
    <3>3. QED
      BY <3>1, <3>2, <1>1
  <2> HIDE DEF s
  <2>5. Top(t) \in FrameType
    BY <1>1
  <2>6. f \in FrameType /\ f.task = Top(t).task /\ f.at = Top(t).at /\ f.kids = s /\ f.reaping
    BY <2>1, <2>5, KidsFrame
  <2> HIDE DEF f
  <2>7. /\ Top(t).at =< Len(load.body[Top(t).task])
        /\ Op(t) = load.body[Top(t).task][Top(t).at]
    BY <1>1, <1>4, ReapsAtEnd DEF Op
  <2>8. ReapingAtEnd'
    <3>1. /\ f.at =< Len(load.body[f.task]) /\ load.body[f.task][f.at][1] = "endgroup"
      BY <2>6, <2>7, <1>2, <1>4
    <3>2. \A u \in Thread : \A i \in DOMAIN frames[u] : frames[u][i].reaping =>
            /\ frames[u][i].at =< Len(load.body[frames[u][i].task])
            /\ load.body[frames[u][i].task][frames[u][i].at][1] = "endgroup"
      BY <1>2 DEF GroupInv, ReapingAtEnd
    <3>3. QED
      BY <3>1, <3>2, <2>3, <2>6, <1>1, <1>2, ReapTop
  <2>9. Accounted'
    <3>1. \A u \in Thread : Publishing(u) => Publishing(u)'
      BY <1>2 DEF Publishing
    <3>2. ~Publishing(t)
      BY <1>1 DEF Publishing
    <3>3. \A x \in started \ done : \A g : Reaping(Top(t), g) /\ x \in Range(Top(t).kids) =>
            Reaping(f, g) /\ x \in Range(f.kids)
      BY <2>4, <2>6 DEF Reaping
    <3>4. QED
      BY <3>1, <3>2, <3>3, <2>3, <2>6, <1>1, <1>2, AccountTop
  <2>10. /\ \A u \in Thread : DOMAIN frames'[u] = DOMAIN frames[u]
         /\ \A u \in Thread : \A i \in DOMAIN frames[u] :
              ~(u = t /\ i = Len(frames[t])) => frames'[u][i] = frames[u][i]
         /\ frames'[t][Len(frames[t])] = f
         /\ Top(t) = frames[t][Len(frames[t])]
    BY <1>1, <2>3, <2>6, SetTopFacts DEF Top
  <2>11. \A u \in Thread : \A i \in DOMAIN frames[u] :
           /\ i \in DOMAIN frames'[u] /\ frames'[u][i].task = frames[u][i].task
           /\ frames'[u][i].at = frames[u][i].at
    BY <2>6, <2>10
  <2>12. ChildrenListed'
    <3>1. ASSUME NEW i \in DOMAIN load.body[f.task], NEW j \in DOMAIN load.body[f.task],
                 ScopeChild(f.task, i, j), f.at > i
          PROVE  WaitedNext(f, j, load.body[f.task][i][2])
      <4> DEFINE b == Top(t).task
                 x == load.body[b][i][2]
      <4>1. f.task = b /\ f.at = Top(t).at /\ f.reaping /\ f.kids = s
        BY <2>6
      <4>2. Waited(Top(t), j, x)
        BY <1>1, <3>1, <4>1, TopListed
      <4>3. load' = load /\ done' = done /\ children' = children /\ Top(t).reaping
        BY <1>2, <1>4
      <4> HIDE DEF b, x
      <4>4. WaitedNext(f, j, x)
        BY <2>4, <4>1, <4>2, <4>3 DEF Waited, WaitedNext
      <4>5. QED
        BY <4>1, <4>4 DEF x
    <3>2. frames[t] # << >> /\ f \in FrameType /\ f.task = Top(t).task
      BY <1>1, <2>6
    <3>3. QED
      BY <3>1, <3>2, <1>2, <2>3, ListTop
  <2>13. QED
    BY <1>2, <2>8, <2>9, <2>11, <2>12, GroupsKeep
<1>5. QED
  BY <1>1, <1>3, <1>4

(* A task that is attached is on its group's list. *)
LEMMA LinkGroups ==
  ASSUME IInv, GroupInv, NEW t \in Thread, pc[t] = "attach",
         children' = IF load.group[Op(t)[2]] = NoGroup THEN children
                     ELSE [children EXCEPT ![load.group[Op(t)[2]]] = <<Op(t)[2]>> \o @],
         frames' = Advanced(t), Goto(t, "body"), UNCHANGED <<load, started, done, left>>
  PROVE  GroupInv'
<1> DEFINE f == [Top(t) EXCEPT !.at = @ + 1, !.reaping = FALSE]
           x == Op(t)[2]
           g == load.group[x]
<1>1. pc[t] = "attach" /\ TypeOK
  BY DEF IInv
<1>2. frames[t] # << >> /\ ~Finished(t) /\ Op(t)[1] = "spawn" /\ Top(t) \in FrameType
  BY <1>1, TopFacts DEF IInv, Located, LocatedAt
<1>3. /\ frames' = SetTop(t, f)
      /\ children' = IF g = NoGroup THEN children ELSE [children EXCEPT ![g] = <<x>> \o @]
      /\ UNCHANGED <<load, started, done, left>>
  BY DEF Advanced
<1>4. /\ x \in Task /\ g \in AnyGroup /\ children \in [Group -> Seq(Task)]
      /\ Op(t) \in Operation
  BY <1>1, <1>2, AtOp, LoadFacts DEF TypeOK
<1>5. f \in FrameType /\ f.task = Top(t).task /\ ~f.reaping /\ f.at = Top(t).at + 1
  BY <1>2, NextFrame
<1> HIDE DEF f
<1>6. ~Top(t).reaping
  BY <1>2, ReapsAtEnd
<1>7. /\ \A h \in Group : h # g => children'[h] = children[h]
      /\ g # NoGroup => g \in Group /\ children'[g] = <<x>> \o children[g]
  BY <1>3, <1>4 DEF AnyGroup
<1>8. ReapingAtEnd'
  <2>1. ASSUME NEW u \in Thread, NEW i \in DOMAIN frames[u], frames[u][i].reaping
        PROVE  /\ frames[u][i].at =< Len(load.body[frames[u][i].task])
               /\ load.body[frames[u][i].task][frames[u][i].at][1] = "endgroup"
    BY <2>1 DEF GroupInv, ReapingAtEnd
  <2>2. QED
    BY <2>1, <1>2, <1>3, <1>5, ReapTop
<1>9. ASSUME NEW h \in Group, NEW y \in Range(children[h])
      PROVE  y \in Range(children'[h])
  <2>1. CASE h # g
    BY <2>1, <1>7
  <2>2. CASE h = g
    <3> DEFINE s == children[h]
    <3>1. s \in Seq(Task) /\ children'[h] = <<x>> \o s
      BY <2>2, <1>4, <1>7, NameFacts
    <3>2. PICK i \in DOMAIN s : s[i] = y
      BY DEF Range
    <3>3. i + 1 \in DOMAIN (<<x>> \o s) /\ (<<x>> \o s)[i + 1] = s[i]
      BY <3>1, <3>2, <1>4
    <3> HIDE DEF s
    <3>4. QED
      BY <3>1, <3>2, <3>3 DEF Range
  <2>3. QED
    BY <2>1, <2>2
<1>10. ASSUME g # NoGroup
      PROVE  x \in Range(children'[g])
  <2> DEFINE s == children[g]
  <2>1. s \in Seq(Task) /\ children'[g] = <<x>> \o s
    BY <1>10, <1>4, <1>7
  <2>2. 1 \in DOMAIN (<<x>> \o s) /\ (<<x>> \o s)[1] = x
    BY <2>1, <1>4
  <2> HIDE DEF s, x
  <2>3. QED
    BY <2>1, <2>2 DEF Range
<1>11. Accounted'
  <2>1. \A u \in Thread : u # t => (Publishing(u) => Publishing(u)')
    BY <1>1 DEF Goto, Publishing, TypeOK
  <2>2. ASSUME NEW y \in started \ done, load.group[y] # NoGroup
        PROVE  /\ y \in Range(children[load.group[y]]) => y \in Range(children'[load.group[y]])
               /\ ~Reaping(Top(t), load.group[y])
               /\ Op(t) = <<"spawn", y>> => y \in Range(children'[load.group[y]])
    <3>1. load.group[y] \in Group
      BY <2>2, <1>1, LoadFacts DEF TypeOK, AnyGroup
    <3>2. Op(t) = <<"spawn", y>> => y = x
      BY DEF x
    <3> HIDE DEF x
    <3>3. QED
      BY <3>1, <3>2, <2>2, <1>6, <1>9, <1>10 DEF Reaping
  <2>3. QED
    BY <2>1, <2>2, <1>2, <1>3, <1>5, AccountTop
<1>12. /\ \A u \in Thread : DOMAIN frames'[u] = DOMAIN frames[u]
       /\ \A u \in Thread : \A i \in DOMAIN frames[u] :
            ~(u = t /\ i = Len(frames[t])) => frames'[u][i] = frames[u][i]
       /\ frames'[t][Len(frames[t])] = f
       /\ Top(t) = frames[t][Len(frames[t])]
  BY <1>1, <1>2, <1>3, <1>5, SetTopFacts DEF Top
<1>13. \A u \in Thread : \A i \in DOMAIN frames[u] :
        /\ i \in DOMAIN frames'[u] /\ frames'[u][i].task = frames[u][i].task
        /\ \A k \in Nat : frames[u][i].at > k => frames'[u][i].at > k
  <2>1. SUFFICES ASSUME NEW u \in Thread, NEW i \in DOMAIN frames[u]
                 PROVE  /\ frames'[u][i].task = frames[u][i].task
                        /\ \A k \in Nat : frames[u][i].at > k => frames'[u][i].at > k
    BY <1>12
  <2>2. CASE u = t /\ i = Len(frames[t])
    <3>1. Top(t).at \in Nat
      BY <1>1, <1>2, TopFacts
    <3>2. QED
      BY <3>1, <2>2, <1>5, <1>12
  <2>3. CASE ~(u = t /\ i = Len(frames[t]))
    BY <2>3, <1>12
  <2>4. QED
    BY <2>2, <2>3
<1>14. ChildrenListed'
  <2>1. ASSUME NEW i \in DOMAIN load.body[f.task], NEW j \in DOMAIN load.body[f.task],
               ScopeChild(f.task, i, j), f.at > i
        PROVE  WaitedNext(f, j, load.body[f.task][i][2])
    <3> DEFINE b == Top(t).task
               y == load.body[b][i][2]
    <3>1. /\ b \in Body /\ f.task = b /\ f.at = Top(t).at + 1 /\ ~f.reaping
          /\ Op(t) = load.body[b][Top(t).at] /\ Top(t).at \in Nat
      BY <1>1, <1>2, <1>5, TopFacts, AtOp
    <3>2. i \in DOMAIN load.body[b] /\ j \in DOMAIN load.body[b] /\ ScopeChild(b, i, j)
      BY <2>1, <3>1
    <3>3. /\ i \in Nat /\ j \in Nat /\ i < j /\ load.body[b][j][1] = "endgroup"
          /\ load.group[y] \in Group
      BY <1>1, <3>1, <3>2, ScopeChildFacts
    <3>4. Top(t).at # j
      BY <1>2, <3>1, <3>3
    <3>5. /\ Top(t).at \in Nat /\ i \in Nat /\ j \in Nat /\ i < j /\ f.at = Top(t).at + 1
          /\ f.at > i
      BY <2>1, <3>1, <3>3
    <3>6. CASE Top(t).at = i
      <4>1. y = x /\ y \in Range(children'[load.group[y]])
        BY <3>1, <3>3, <3>6, <1>10, NameFacts
      <4>2. load' = load
        BY <1>3
      <4> HIDE DEF b, x, y
      <4>3. f.at =< j
        BY <3>5, <3>6
      <4>4. WaitedNext(f, j, y)
        BY <3>1, <4>1, <4>3 DEF WaitedNext
      <4>5. QED
        BY <3>1, <4>4 DEF y
    <3>7. CASE Top(t).at > i
      <4>1. Waited(Top(t), j, y)
        BY <1>2, <3>2, <3>7, TopListed
      <4>2. load' = load /\ done' = done
        BY <1>3
      <4>3. y \in Range(children[load.group[y]]) => y \in Range(children'[load.group[y]])
        BY <3>3, <1>9
      <4> HIDE DEF b, y
      <4>4. Top(t).at =< j => f.at =< j
        BY <3>4, <3>5
      <4>5. WaitedNext(f, j, y)
        BY <3>1, <3>4, <4>1, <4>2, <4>3, <4>4 DEF Waited, WaitedNext
      <4>6. QED
        BY <3>1, <4>5 DEF y
    <3>8. QED
      BY <3>5, <3>6, <3>7
  <2>2. frames[t] # << >> /\ f \in FrameType /\ f.task = Top(t).task
    BY <1>2, <1>5
  <2>3. QED
    BY <2>1, <2>2, <1>3, <1>9, ListTop
<1>15. QED
  BY <1>3, <1>8, <1>11, <1>13, <1>14, GroupsKeep

(* A task is attached, or the program ends in the memory of a group that is gone. *)
LEMMA AttachGroups ==
  ASSUME IInv, GroupInv, NEW t \in Thread, Attach(t)
  PROVE  GroupInv'
<1>1. pc[t] = "attach" /\ UNCHANGED <<load, started, done, left>>
  BY DEF Attach, queueVars
<1>2. CASE Goto(Main, "aborted") /\ UNCHANGED <<children, frames>>
  <2>1. Main \in Thread /\ pc'[Main] = "aborted" /\ \A u \in Thread : u # Main => pc'[u] = pc[u]
    BY <1>2, NameFacts DEF Goto, IInv, TypeOK
  <2>2. \A u \in Thread : Publishing(u) => Publishing(u)'
    BY <2>1 DEF Publishing
  <2>3. QED
    BY <1>1, <1>2, <2>2, QuietGroups
<1>3. CASE ~(Goto(Main, "aborted") /\ UNCHANGED <<children, frames>>)
  BY <1>1, <1>3, LinkGroups DEF Attach
<1>4. QED
  BY <1>2, <1>3

(* A scope is left after all the children its body has spawned. *)
LEMMA LeaveGroupGroups ==
  ASSUME IInv, GroupInv, NEW t \in Thread, LeaveGroup(t)
  PROVE  GroupInv'
<1> DEFINE f == [Top(t) EXCEPT !.at = @ + 1, !.reaping = FALSE]
           b == Top(t).task
           k == Top(t).at
           g == Op(t)[2]
<1>1. /\ pc[t] = "body" /\ ~Finished(t) /\ Op(t)[1] = "endgroup" /\ frames[t] # << >>
      /\ k \in DOMAIN load.body[b] /\ b \in Body /\ k \in Nat
      /\ Top(t) \in FrameType /\ TypeOK /\ Top(t).reaping /\ Top(t).kids = << >>
  BY AtFacts, TopFacts DEF LeaveGroup, Reaped, IInv
<1>2. /\ frames' = SetTop(t, f) /\ left' = left \union {g}
      /\ UNCHANGED <<load, pc, started, done, children>>
  BY DEF LeaveGroup, Advanced, queueVars
<1>3. /\ g \in Group /\ Op(t) = load.body[b][k] /\ Op(t) = <<"endgroup", g>>
  BY <1>1, AtOp, OpPair
<1>4. f \in FrameType /\ f.task = b /\ ~f.reaping /\ f.at = k + 1
  <2>1. Top(t) \in FrameType
    BY <1>1
  <2>2. QED
    BY <2>1, NextFrame
<1> HIDE DEF f
<1>5. ReapingAtEnd'
  <2>1. frames[t] # << >> /\ f \in FrameType /\ ~f.reaping
    BY <1>1, <1>4
  <2>2. frames' = SetTop(t, f) /\ load' = load
    BY <1>2
  <2>3. children' = children
    BY <1>2
  <2>4. \A u \in Thread : \A i \in DOMAIN frames[u] : frames[u][i].reaping =>
          /\ frames[u][i].at =< Len(load.body[frames[u][i].task])
          /\ load.body[frames[u][i].task][frames[u][i].at][1] = "endgroup"
    BY <2>3 DEF GroupInv, ReapingAtEnd
  <2>5. QED
    BY <2>1, <2>2, <2>4, ReapTop
<1>6. \A x : x \notin Range(Top(t).kids)
  <2>1. DOMAIN << >> = {}
    OBVIOUS
  <2>2. QED
    BY <2>1, <1>1 DEF Range
<1>7. Accounted'
  <2>1. ~Publishing(t) /\ \A u \in Thread : Publishing(u) => Publishing(u)'
    BY <1>1, <1>2 DEF Publishing
  <2>2. frames[t] # << >>
    BY <1>1
  <2>3. QED
    BY <2>1, <2>2, <1>2, <1>4, <1>6, AccountTop
<1>8. /\ \A u \in Thread : DOMAIN frames'[u] = DOMAIN frames[u]
      /\ \A u \in Thread : \A i \in DOMAIN frames[u] :
           ~(u = t /\ i = Len(frames[t])) => frames'[u][i] = frames[u][i]
      /\ frames'[t][Len(frames[t])] = f
  BY <1>1, <1>2, <1>4, SetTopFacts
<1>9. Top(t) = frames[t][Len(frames[t])] /\ Len(frames[t]) \in DOMAIN frames[t]
  BY <1>1, TopFacts
<1>10. LeftBehind'
  <2>1. ASSUME NEW c \in Body, NEW j \in DOMAIN load.body[c], Passed(c, j)
        PROVE  Passed(c, j)'
    <3>1. load.body[c] \in Seq(Operation) /\ j \in Nat
      <4>1. load.body[c] \in Seq(Operation)
        BY <1>1, LoadFacts
      <4>2. QED
        BY <4>1
    <3>2. \A u \in Thread : \A i \in DOMAIN frames[u] : frames[u][i].task = c /\ frames[u][i].at > j
            => i \in DOMAIN frames'[u] /\ frames'[u][i].task = c /\ frames'[u][i].at > j
      <4>1. SUFFICES ASSUME NEW u \in Thread, NEW i \in DOMAIN frames[u],
                            frames[u][i].task = c, frames[u][i].at > j
                     PROVE  frames'[u][i].task = c /\ frames'[u][i].at > j
        BY <1>8
      <4>2. CASE u = t /\ i = Len(frames[t])
        BY <4>1, <4>2, <3>1, <1>1, <1>4, <1>8, <1>9
      <4>3. CASE ~(u = t /\ i = Len(frames[t]))
        BY <4>1, <4>3, <1>8
      <4>4. QED
        BY <4>2, <4>3
    <3>3. QED
      BY <3>2, <2>1, <1>2 DEF Passed
  <2>2. SUFFICES ASSUME NEW h \in left'
                 PROVE  \E c \in Body : \E j \in DOMAIN load.body[c] :
                          load.body[c][j] = <<"endgroup", h>> /\ Passed(c, j)'
    BY <1>2 DEF LeftBehind
  <2>3. PICK c \in Body : c = b
    BY <1>1
  <2>4. CASE h = g
    <3>1. PICK j \in DOMAIN load.body[c] : j = k
      BY <2>3, <1>1
    <3>2. /\ frames'[t][Len(frames[t])].task = c /\ frames'[t][Len(frames[t])].at > j
          /\ Len(frames[t]) \in DOMAIN frames'[t]
      BY <2>3, <3>1, <1>1, <1>4, <1>8, <1>9
    <3>3. Passed(c, j)'
      BY <3>2 DEF Passed
    <3>4. load.body[c][j] = <<"endgroup", h>>
      BY <2>3, <2>4, <3>1, <1>3
    <3>5. QED
      BY <3>3, <3>4
  <2>5. CASE h \in left
    BY <2>1, <2>5 DEF GroupInv, LeftBehind
  <2>6. QED
    BY <2>4, <2>5, <1>2
<1>11. ChildrenListed'
  <2>1. ASSUME NEW i \in DOMAIN load.body[f.task], NEW j \in DOMAIN load.body[f.task],
               ScopeChild(f.task, i, j), f.at > i
        PROVE  WaitedNext(f, j, load.body[f.task][i][2])
    <3> DEFINE x == load.body[b][i][2]
    <3>1. i \in DOMAIN load.body[b] /\ j \in DOMAIN load.body[b] /\ ScopeChild(b, i, j)
      BY <2>1, <1>4
    <3>2. i \in Nat /\ j \in Nat /\ load.body[b][i][1] = "spawn"
      BY <1>1, <3>1, ScopeChildFacts
    <3>3. k # i
      BY <1>1, <1>3, <3>2
    <3>4. k > i
      BY <1>1, <1>4, <2>1, <3>2, <3>3
    <3>5. Waited(Top(t), j, x)
      BY <1>1, <3>1, <3>4, TopListed
    <3>6. load' = load /\ done' = done /\ children' = children
      BY <1>2
    <3>7. Top(t).at \in Nat /\ Top(t).reaping /\ f.task = Top(t).task /\ f.at = Top(t).at + 1
          /\ ~f.reaping
      BY <1>1, <1>4
    <3> HIDE DEF x
    <3>8. WaitedNext(f, j, x)
      BY <3>2, <3>5, <3>6, <3>7, <1>6 DEF Waited, WaitedNext
    <3>9. QED
      BY <3>7, <3>8 DEF x
  <2>2. frames[t] # << >> /\ f \in FrameType /\ f.task = Top(t).task
    BY <1>1, <1>4
  <2>3. UNCHANGED <<load, done, children>>
    BY <1>2
  <2>4. QED
    BY <2>1, <2>2, <2>3, <1>2, ListTop
<1>12. QED
  BY <1>5, <1>7, <1>10, <1>11 DEF GroupInv

(* A task that is spawned is about to be attached. *)
LEMMA SpawnGroups ==
  ASSUME IInv, GroupInv, NEW t \in Thread, Spawn(t)
  PROVE  GroupInv'
<1> DEFINE b == Top(t).task
           k == Top(t).at
           x == Op(t)[2]
<1>1. /\ pc[t] = "body" /\ ~Finished(t) /\ Op(t)[1] = "spawn" /\ frames[t] # << >>
      /\ TypeOK /\ started' = started \union {x}
      /\ UNCHANGED <<load, frames, done, children, left>>
  BY AtFacts DEF Spawn, IInv, taskVars
<1>2. Op(t) \in Operation /\ Op(t) = <<"spawn", x>>
  BY <1>1, AtOp, OpPair
<1>3. pc'[t] \in {"signal", "attach"} /\ Others(t)
  <2>1. Goto(t, "signal") \/ SignalPool(t, "attach")
    BY DEF Spawn
  <2>2. QED
    BY <2>1, <1>1, GotoFacts, SignalPoolFacts DEF Label, Others
<1>4. Publishing(t)' /\ \A u \in Thread : Publishing(u) => Publishing(u)'
  BY <1>3, OthersPublish DEF Publishing
<1>5. \A u : Finished(u)' = Finished(u) /\ Op(u)' = Op(u)
  BY <1>1, SameTops
<1>6. ReapingAtEnd'
  BY <1>1 DEF GroupInv, ReapingAtEnd
<1>7. LeftBehind'
  <2>1. \A c, j : Passed(c, j) => Passed(c, j)'
    BY <1>1 DEF Passed
  <2>2. QED
    BY <2>1, <1>1 DEF GroupInv, LeftBehind
<1>8. Accounted'
  <2>1. SUFFICES ASSUME NEW y \in started' \ done, load.group[y] # NoGroup
                 PROVE  \/ y \in Range(children[load.group[y]])
                        \/ \E u \in Thread : \E i \in DOMAIN frames[u] :
                             Reaping(frames[u][i], load.group[y]) /\ y \in Range(frames[u][i].kids)
                        \/ \E u \in Thread : /\ Publishing(u)' /\ frames[u] # << >>
                                             /\ ~Finished(u) /\ Op(u) = <<"spawn", y>>
    <3>1. UNCHANGED <<load, frames, done, children>>
      BY <1>1
    <3>2. QED
      BY <3>1, <1>5 DEF Accounted, Reaping
  <2>2. CASE y = x
    BY <2>2, <1>1, <1>2, <1>4
  <2>3. CASE y \in started
    BY <2>1, <2>3, <1>4 DEF GroupInv, Accounted
  <2>4. QED
    BY <2>1, <2>2, <2>3, <1>1
<1>9. ChildrenListed'
  BY <1>1, ListedStays
<1>10. QED
  BY <1>6, <1>7, <1>8, <1>9 DEF GroupInv

(* Steps of the workers between tasks. *)
LEMMA IdleGroups ==
  ASSUME IInv, GroupInv, NEW t \in Thread,
         StealLook(t) \/ WorkerIdle(t) \/ ElasticExit(t) \/ ParkUntilWork(t)
  PROVE  GroupInv'
<1>1. pc[t] \in {"steal", "none", "park", "woken"}
  BY DEF StealLook, WorkerIdle, ElasticExit, ParkUntilWork
<1>2. UNCHANGED <<load, frames, started, done, children, left>>
  BY DEF StealLook, WorkerIdle, ElasticExit, ParkUntilWork, queueVars, taskVars
<1>3. \A u \in Thread : u # t => pc'[u] = pc[u]
  <2>1. UNCHANGED pc \/ \E l : Goto(t, l)
    BY DEF StealLook, WorkerIdle, ElasticExit, ParkUntilWork
  <2>2. QED
    BY <2>1 DEF Goto, IInv, TypeOK
<1>4. QED
  BY <1>1, <1>2, <1>3, MoveGroups DEF Others

(* Steps of a thread on its way to sleep, and wake-ups. *)
LEMMA WaitGroups ==
  ASSUME IInv, GroupInv, NEW t \in Thread,
         JoinPending(t) \/ JoinWait(t) \/ NotifyBlockingWait(t) \/ SpuriousWake(t)
  PROVE  GroupInv'
<1>1. pc[t] \in {"body", "wait", "notify", "parked", "blocked"}
  BY AtFacts DEF JoinPending, Waiting, JoinWait, NotifyBlockingWait, SpuriousWake
<1>2. UNCHANGED <<load, frames, started, done, children, left>>
  BY DEF JoinPending, JoinWait, NotifyBlockingWait, SpuriousWake, queueVars, taskVars
<1>3. Others(t)
  <2>1. CASE NotifyBlockingWait(t)
    BY <2>1, StartElasticFacts DEF Label, Others, NotifyBlockingWait
  <2>2. CASE JoinPending(t) \/ JoinWait(t) \/ SpuriousWake(t)
    <3>1. \E l : Goto(t, l)
      BY <2>2 DEF JoinPending, JoinWait, SpuriousWake
    <3>2. QED
      BY <3>1 DEF Goto, Others, IInv, TypeOK
  <2>3. QED
    BY <2>1, <2>2
<1>4. QED
  BY <1>1, <1>2, <1>3, MoveGroups

(* The wake-up after a push: its thread has still to attach the task. *)
LEMMA SpawnSignalGroups ==
  ASSUME IInv, GroupInv, NEW t \in Thread, SpawnSignal(t)
  PROVE  GroupInv'
<1>1. /\ pc[t] = "signal" /\ SignalPool(t, "attach")
      /\ UNCHANGED <<load, frames, started, done, children, left>>
  BY DEF SpawnSignal, queueVars, taskVars
<1>2. pc'[t] = "attach" /\ Others(t)
  BY <1>1, SignalPoolFacts DEF Label, Others
<1>3. \A u \in Thread : Publishing(u) => Publishing(u)'
  BY <1>2, OthersPublish DEF Publishing
<1>4. QED
  BY <1>1, <1>3, QuietGroups

(* The joiners of a task are woken. *)
LEMMA BroadcastGroups ==
  ASSUME IInv, GroupInv, NEW t \in Thread, Broadcast(t)
  PROVE  GroupInv'
<1>1. /\ pc[t] = "broadcast"
      /\ UNCHANGED <<load, frames, started, done, children, left>>
  BY DEF Broadcast, queueVars, taskVars
<1>2. \A u \in Thread : u # t => pc'[u] = pc[u] \/ (pc[u] = "blocked" /\ pc'[u] = "body")
  <2> DEFINE W == BlockedOn(<<"join", Top(t).task>>)
  <2>1. pc' = [u \in Thread |-> CASE u = t -> "dec" [] u \in W -> "body" [] OTHER -> pc[u]]
    BY DEF Broadcast
  <2>2. \A u \in W : pc[u] = "blocked"
    BY DEF BlockedOn
  <2> HIDE DEF W
  <2>3. QED
    BY <1>1, <2>1, <2>2
<1>3. QED
  BY <1>1, <1>2, MoveGroups DEF Others

(* Main has returned, ends, or is aborted by a send on a closed channel. *)
LEMMA EndGroups ==
  ASSUME IInv, GroupInv,
         Shutdown \/ Exit \/ (Goto(Main, "aborted") /\ UNCHANGED <<load, frames, started, taskVars>>)
  PROVE  GroupInv'
<1>1. UNCHANGED <<load, frames, started, done, children, left>> /\ Main \in Thread
  BY NameFacts DEF Shutdown, Exit, queueVars, taskVars
<1>2. CASE Shutdown
  <2>1. pc' = [u \in Thread |-> CASE u = Main -> "joinPool" [] u \in Parked -> "woken"
                                  [] OTHER -> pc[u]]
    BY <1>2 DEF Shutdown
  <2>2. pc[Main] = "body" /\ \A u \in Parked : pc[u] = "parked"
    BY <1>2 DEF Shutdown, Parked
  <2>3. \A u \in Thread : u # Main => pc'[u] = pc[u] \/ (pc[u] = "parked" /\ pc'[u] = "woken")
    BY <1>1, <2>1, <2>2
  <2>4. QED
    BY <1>1, <2>2, <2>3, MoveGroups DEF Others
<1>3. CASE Exit
  <2>1. pc[Main] = "joinPool" /\ \A u \in Thread : u # Main => pc'[u] = pc[u]
    BY <1>3 DEF Exit, Goto, IInv, TypeOK
  <2>2. QED
    BY <1>1, <2>1, MoveGroups DEF Others
<1>4. CASE Goto(Main, "aborted")
  <2>1. pc'[Main] = "aborted" /\ \A u \in Thread : u # Main => pc'[u] = pc[u]
    BY <1>4, <1>1 DEF Goto, IInv, TypeOK
  <2>2. \A u \in Thread : Publishing(u) => Publishing(u)'
    BY <2>1 DEF Publishing
  <2>3. QED
    BY <1>1, <2>2, QuietGroups
<1>5. QED
  BY <1>2, <1>3, <1>4

(* A safepoint of a body. *)
LEMMA SafepointGroups ==
  ASSUME IInv, GroupInv, NEW t \in Thread, Safepoint(t)
  PROVE  GroupInv'
<1>1. /\ pc[t] = "body" /\ ~Finished(t) /\ Op(t)[1] = "poll" /\ frames[t] # << >>
      /\ frames' = Advanced(t)
  BY AtFacts DEF Safepoint
<1>2. Others(t)
  BY <1>1, StartElasticFacts DEF Safepoint, Label, Others
<1>3. UNCHANGED <<load, started, done, children, left>>
  BY DEF Safepoint, queueVars, taskVars
<1>4. QED
  BY <1>1, <1>2, <1>3, AdvanceGroups

(* A thread goes on after it has sent, received or closed, or goes to wait. *)
LEMMA ChannelGroups ==
  ASSUME IInv, GroupInv, NEW t \in Thread, pc[t] \in {"body", "wait"}, ~Finished(t),
         frames[t] # << >>, Op(t)[1] \notin {"spawn", "endgroup"}, Others(t),
         frames' = Advanced(t) \/ frames' = frames,
         UNCHANGED <<load, started, done, children, left>>
  PROVE  GroupInv'
<1>1. CASE frames' = Advanced(t)
  BY <1>1, AdvanceGroups
<1>2. CASE frames' = frames
  BY <1>2, MoveGroups
<1>3. QED
  BY <1>1, <1>2

(* A send aborts the program, puts its value in the channel, or waits. *)
LEMMA SendGroups ==
  ASSUME IInv, GroupInv, NEW t \in Thread, Send(t)
  PROVE  GroupInv'
<1>1. /\ pc[t] \in {"body", "wait"} /\ ~Finished(t) /\ frames[t] # << >>
      /\ Op(t)[1] = "send"
  BY InChanFacts DEF Send
<1>2. UNCHANGED <<load, started, done, children, left>>
  BY DEF Send, queueVars, taskVars
<1>3. \/ Goto(Main, "aborted") /\ UNCHANGED frames
      \/ SignalChan(t, <<"recv", Op(t)[2]>>) /\ frames' = Advanced(t)
      \/ (\E l : Goto(t, l)) /\ UNCHANGED frames
  BY DEF Send, ChanBlock
<1>4. CASE Goto(Main, "aborted") /\ UNCHANGED frames
  BY <1>2, <1>4, EndGroups DEF taskVars
<1>5. CASE SignalChan(t, <<"recv", Op(t)[2]>>) /\ frames' = Advanced(t)
  <2>1. Others(t)
    BY <1>1, <1>5, SignalChanFacts DEF Others
  <2>2. QED
    BY <1>1, <1>2, <1>5, <2>1, ChannelGroups
<1>6. CASE (\E l : Goto(t, l)) /\ UNCHANGED frames
  <2>1. Others(t)
    BY <1>6 DEF Goto, Others, IInv, TypeOK
  <2>2. QED
    BY <1>1, <1>2, <1>6, <2>1, ChannelGroups
<1>7. QED
  BY <1>3, <1>4, <1>5, <1>6

(* A receive takes a value, finds the channel closed, or waits. *)
LEMMA RecvGroups ==
  ASSUME IInv, GroupInv, NEW t \in Thread, Recv(t)
  PROVE  GroupInv'
<1>1. /\ pc[t] \in {"body", "wait"} /\ ~Finished(t) /\ frames[t] # << >>
      /\ Op(t)[1] = "recv"
  BY InChanFacts DEF Recv
<1>2. UNCHANGED <<load, started, done, children, left>>
  BY DEF Recv, queueVars, taskVars
<1>3. /\ SignalChan(t, <<"send", Op(t)[2]>>) \/ \E l : Goto(t, l)
      /\ frames' = Advanced(t) \/ frames' = frames
  BY DEF Recv, ChanBlock
<1>4. CASE SignalChan(t, <<"send", Op(t)[2]>>)
  <2>1. Others(t)
    BY <1>1, <1>4, SignalChanFacts DEF Others
  <2>2. QED
    BY <1>1, <1>2, <1>3, <2>1, ChannelGroups
<1>5. CASE \E l : Goto(t, l)
  <2>1. Others(t)
    BY <1>5 DEF Goto, Others, IInv, TypeOK
  <2>2. QED
    BY <1>1, <1>2, <1>3, <2>1, ChannelGroups
<1>6. QED
  BY <1>3, <1>4, <1>5

(* Closing a channel wakes everybody who waits on it. *)
LEMMA CloseGroups ==
  ASSUME IInv, GroupInv, NEW t \in Thread, Close(t)
  PROVE  GroupInv'
<1> DEFINE W == BlockedOn(<<"recv", Op(t)[2]>>) \union BlockedOn(<<"send", Op(t)[2]>>)
<1>1. /\ pc[t] = "body" /\ ~Finished(t) /\ frames[t] # << >> /\ Op(t)[1] = "close"
      /\ frames' = Advanced(t)
  BY AtFacts DEF Close
<1>2. UNCHANGED <<load, started, done, children, left>>
  BY DEF Close, queueVars, taskVars
<1>3. pc' = [u \in Thread |-> IF u \in W THEN "wait" ELSE pc[u]]
  BY DEF Close
<1>4. \A u \in W : pc[u] = "blocked"
  BY DEF BlockedOn
<1> HIDE DEF W
<1>5. Others(t)
  BY <1>3, <1>4 DEF Others
<1>6. QED
  BY <1>1, <1>2, <1>5, ChannelGroups

(* A thread looks for work and runs what it finds. *)
LEMMA TakeGroups ==
  ASSUME IInv, GroupInv, NEW t \in Thread, TakeOwn(t) \/ StealCas(t) \/ TakeInject(t)
  PROVE  GroupInv'
<1>1. pc[t] \in {"take", "steal", "cas"} /\ UNCHANGED <<load, started, done, children, left>>
  BY DEF TakeOwn, StealCas, TakeInject, taskVars
<1>2. \/ \E x \in Task : Run(t, x)
      \/ (\E l : Goto(t, l)) /\ UNCHANGED frames
  <2>1. CASE TakeOwn(t)
    <3>1. CASE IsPool(t) /\ deque[t] # << >>
      <4>1. deque[t] \in Seq(Task)
        BY <3>1, LoadFacts DEF IsPool, Pool, IInv, TypeOK
      <4>2. deque[t][Len(deque[t])] \in Task
        BY <3>1, <4>1, WithoutLast
      <4>3. QED
        BY <2>1, <3>1, <4>2 DEF TakeOwn
    <3>2. QED
      BY <2>1, <3>1 DEF TakeOwn
  <2>2. CASE StealCas(t)
    <3>1. CASE StillOldest(t)
      <4>1. look[t].from \in Worker
        BY <2>2 DEF StealCas, IInv, Located, LocatedAt
      <4>2. deque[look[t].from] \in Seq(Task) /\ deque[look[t].from] # << >>
            /\ Head(deque[look[t].from]) = look[t].item
        BY <3>1, <4>1 DEF IInv, TypeOK, StillOldest
      <4>3. look[t].item \in Task
        BY <4>2
      <4>4. QED
        BY <2>2, <3>1, <4>3 DEF StealCas
    <3>2. QED
      BY <2>2, <3>1 DEF StealCas
  <2>3. CASE TakeInject(t)
    <3>1. inject # << >> => Head(inject) \in Task
      BY DEF IInv, TypeOK
    <3>2. QED
      BY <2>3, <3>1 DEF TakeInject
  <2>4. QED
    BY <2>1, <2>2, <2>3
<1>3. CASE \E x \in Task : Run(t, x)
  BY <1>1, <1>3, RunGroups
<1>4. CASE (\E l : Goto(t, l)) /\ UNCHANGED frames
  <2>1. Others(t)
    BY <1>4 DEF Goto, Others, IInv, TypeOK
  <2>2. QED
    BY <1>1, <1>4, <2>1, MoveGroups
<1>5. QED
  BY <1>2, <1>3, <1>4

(* At the start nobody has been spawned. *)
LEMMA InitGroups ==
  ASSUME Init
  PROVE  GroupInv
<1>1. /\ started = {} /\ left = {} /\ done = {} /\ load \in Loads
      /\ frames = [t \in Thread |-> IF t = Main THEN <<Frame(Root, NoGroup)>> ELSE << >>]
  BY DEF Init
<1>2. ~Frame(Root, NoGroup).reaping /\ Frame(Root, NoGroup).at = 1
  BY DEF Frame
<1>3. \A t \in Thread : \A i \in DOMAIN frames[t] : ~frames[t][i].reaping /\ frames[t][i].at = 1
  <2>1. DOMAIN << >> = {} /\ \A f : DOMAIN <<f>> = {1} /\ <<f>>[1] = f
    OBVIOUS
  <2>2. QED
    BY <2>1, <1>1, <1>2
<1>4. ASSUME NEW b \in Body, NEW i \in DOMAIN load.body[b]
      PROVE  ~(1 > i)
  <2>1. load.body[b] \in Seq(Operation)
    BY <1>1, SchedulerAssumption DEF Program
  <2>2. QED
    BY <2>1
<1>5. ChildrenListed
  BY <1>1, <1>3, <1>4 DEF ChildrenListed
<1>6. QED
  BY <1>1, <1>3, <1>5 DEF GroupInv, ReapingAtEnd, LeftBehind, Accounted

(* Every step of every thread keeps track of the children. *)
LEMMA NextGroups ==
  ASSUME IInv, GroupInv, [Next]_vars
  PROVE  GroupInv'
<1>1. ASSUME NEW t \in Thread, Step(t) PROVE GroupInv'
  <2>1. CASE TakeOwn(t) \/ StealCas(t) \/ TakeInject(t)
    BY <2>1, TakeGroups
  <2>2. CASE StealLook(t) \/ WorkerIdle(t) \/ ElasticExit(t) \/ ParkUntilWork(t)
    BY <2>2, IdleGroups
  <2>3. CASE Spawn(t) \/ SpawnSignal(t) \/ Attach(t)
    BY <2>3, SpawnGroups, SpawnSignalGroups, AttachGroups
  <2>4. CASE EnterGroup(t) \/ ReapStart(t) \/ LeaveGroup(t)
    BY <2>4, EnterGroupGroups, ReapStartGroups, LeaveGroupGroups
  <2>5. CASE JoinDone(t) \/ Return(t) \/ WorkersDec(t)
    BY <2>5, JoinDoneGroups, ReturnGroups, WorkersDecGroups
  <2>6. CASE JoinPending(t) \/ JoinWait(t) \/ NotifyBlockingWait(t)
    BY <2>6, WaitGroups
  <2>7. CASE Safepoint(t) \/ Broadcast(t)
    BY <2>7, SafepointGroups, BroadcastGroups
  <2>8. CASE Send(t) \/ Recv(t) \/ Close(t)
    BY <2>8, SendGroups, RecvGroups, CloseGroups
  <2>9. CASE Shutdown \/ Exit
    BY <2>9, EndGroups
  <2>10. QED
    BY <1>1, <2>1, <2>2, <2>3, <2>4, <2>5, <2>6, <2>7, <2>8, <2>9 DEF Step
<1>2. ASSUME NEW t \in Thread, SpuriousWake(t) PROVE GroupInv'
  BY <1>2, WaitGroups
<1>3. CASE UNCHANGED vars
  BY <1>3, QuietGroups DEF vars, queueVars, taskVars, Publishing
<1>4. QED
  BY <1>1, <1>2, <1>3 DEF Next

(* In every program, a child that is not done is on its group's list, on the list *)
(* that osty_rt_task_group_reap has taken, or about to be attached; and a child    *)
(* that a scope's own body has spawned is on one of the two lists until it is done *)
(* or the scope is left.                                                           *)
THEOREM SchedulerGroupInvariant == Spec => []GroupInv
<1>1. Init => GroupInv
  BY InitGroups
<1>2. IInv /\ GroupInv /\ [Next]_vars => GroupInv'
  BY NextGroups
<1>3. QED
  BY <1>1, <1>2, SchedulerInvariant, PTL DEF Spec

(* In every program, osty_rt_task_group_reap has waited for every child that the   *)
(* body of the scope has spawned when osty_rt_task_group returns.                  *)
THEOREM SchedulerScopeWaits == Spec => []ScopeWaits
<1>1. IInv /\ GroupInv => ScopeWaits
  <2>1. SUFFICES ASSUME IInv, GroupInv, NEW b \in Body, NEW i \in DOMAIN load.body[b],
                        NEW j \in DOMAIN load.body[b], ScopeChild(b, i, j),
                        load.body[b][j][2] \in left
                 PROVE  load.body[b][i][2] \in done
    BY DEF ScopeWaits
  <2> DEFINE g == load.body[b][j][2]
  <2>2. /\ i \in Nat /\ j \in Nat /\ i < j /\ load.body[b][j][1] = "endgroup"
        /\ load.body[b][j] = <<"endgroup", g>> /\ TypeOK /\ MadeOnce(load)
    BY <2>1, ScopeChildFacts, LoadFacts DEF IInv
  <2>3. PICK c \in Body : \E k \in DOMAIN load.body[c] :
          load.body[c][k] = <<"endgroup", g>> /\ Passed(c, k)
    BY <2>1 DEF GroupInv, LeftBehind
  <2>4. PICK k \in DOMAIN load.body[c] : load.body[c][k] = <<"endgroup", g>> /\ Passed(c, k)
    BY <2>3
  <2>5. c = b /\ k = j
    BY <2>2, <2>4 DEF MadeOnce
  <2>6. CASE b \in done
    BY <2>1, <2>6 DEF GroupInv, ChildrenListed
  <2>7. CASE b \notin done
    <3>1. PICK t \in Thread : \E n \in DOMAIN frames[t] : frames[t][n].task = b /\ frames[t][n].at > j
      BY <2>4, <2>5, <2>7 DEF Passed
    <3>2. PICK n \in DOMAIN frames[t] : frames[t][n].task = b /\ frames[t][n].at > j
      BY <3>1
    <3>3. frames[t][n].at \in Nat
      BY <2>2, FrameFacts
    <3>4. frames[t][n].at > i /\ ~(frames[t][n].at =< j)
      BY <2>2, <3>2, <3>3
    <3>5. Waited(frames[t][n], j, load.body[b][i][2])
      BY <2>1, <3>2, <3>4 DEF GroupInv, ChildrenListed
    <3>6. QED
      BY <3>4, <3>5 DEF Waited
  <2>8. QED
    BY <2>6, <2>7
<1>2. QED
  BY <1>1, SchedulerInvariant, SchedulerGroupInvariant, PTL
==============================================================================
