----------------------------- MODULE FromScratch -----------------------------
(***************************************************************************)
(* What the query engine must compute, said without the engine: the value   *)
(* of a query is what its body returns when every read is answered by the   *)
(* inputs as they are now and by other queries evaluated in the same way,   *)
(* with nothing remembered.                                                 *)
(***************************************************************************)
EXTENDS AcyclicEngine

CONSTANT
  Eval(_, _)  \* Eval(in, p): what a body comes to from its point p on inputs in

(* Evaluation is stuck on a Fetch of an input that is not set. *)
Stuck == None

InputState == [Input -> Val \cup {Absent}]
Outcome    == [value: Val \cup {Stuck}, ran: SUBSET Query]

(* The equation of evaluation; `ran` collects the bodies that take part. *)
EvalStep(in, p) ==
  LET c        == Code[p].cell
      After(v) == Eval(in, Jump(p, v))
      With(S, o) == [value |-> o.value, ran |-> {Owner[p]} \cup S \cup o.ran]
      Halt(v)  == [value |-> v, ran |-> {}]
      called   == Eval(in, Entry[c])
  IN  CASE Code[p].op = "return" -> With({}, Halt(Code[p].val))
        [] Code[p].op = "has" -> With({}, After(IF in[c] = Absent THEN Absent ELSE Present))
        [] Code[p].op = "fetch" /\ c \in Input ->
             With({}, IF in[c] = Absent THEN Halt(Stuck) ELSE After(in[c]))
        [] Code[p].op = "fetch" /\ c \notin Input ->
             With(called.ran, IF called.value = Stuck THEN Halt(Stuck) ELSE After(called.value))

ASSUME EvalAssumption ==
  /\ None \notin Val
  /\ \A in \in InputState, p \in Point : Eval(in, p) \in Outcome /\ Eval(in, p) = EvalStep(in, p)

(* Two outcomes of q that nobody who reads q can tell apart. *)
Alike(q, r, s) ==
  /\ r.ran = s.ran
  /\ r.value = Stuck <=> s.value = Stuck
  /\ r.value # Stuck => Same(q, r.value, s.value)

(* What Register asks of a hashFn: answers with equal hashes take a reader  *)
(* to equal ends, "so downstream queries that read this one can reuse       *)
(* their own caches".                                                       *)
ASSUME HashAssumption ==
  \A in \in InputState, p \in Point, v, w \in Val :
    (Code[p].op = "fetch" /\ Same(Code[p].cell, v, w)) =>
      Alike(Owner[p], Eval(in, Jump(p, v)), Eval(in, Jump(p, w)))

(* The inputs as they are now, and the value and the bodies of query q. *)
Inputs     == [i \in Input |-> IF slots[i] = NoSlot THEN Absent ELSE slots[i].value]
Scratch(q) == Eval(Inputs, Entry[q])

-----------------------------------------------------------------------------
(***************************************************************************)
(* What Get hands to its caller is what evaluating the query from the       *)
(* current inputs, without any cache, gives (up to the query's hash).       *)
(***************************************************************************)
GetIsFromScratch ==
  (ctl # <<>> /\ Top.pc = "client") =>
    /\ Scratch(Top.cell).value # Stuck
    /\ Same(Top.cell, slots[Top.cell].value, Scratch(Top.cell).value)

(***************************************************************************)
(* The dep-walk is no more eager than the program: a Get runs only bodies   *)
(* that evaluating the query from scratch would run.  In particular a       *)
(* recorded dep that the body would no longer reach is never executed.      *)
(***************************************************************************)
RunsOnlyDemanded ==
  \A k \in 1..Len(ctl) :
    ctl[k].pc = "run" => ctl[k].cell \in Scratch(ctl[1].cell).ran

(***************************************************************************)
(* A Get that panics because an input is not set (Input.Fetch) would panic  *)
(* without a cache too: a result computed while the input was set does not  *)
(* lead the engine back to it.                                              *)
(***************************************************************************)
PanicsOnlyIfStuck ==
  (Running /\ Now.op = "fetch" /\ Now.cell \in Input /\ slots[Now.cell] = NoSlot) =>
    Scratch(ctl[1].cell).value = Stuck

=============================================================================
