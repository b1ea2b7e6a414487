---------------------------- MODULE MCQueryEngine ----------------------------
(***************************************************************************)
(* Two inputs and three queries, among them a query with a hash coarser     *)
(* than its value, a query without a hash, a body that branches on the      *)
(* presence of an input, a body that reads an input only on one branch      *)
(* (and panics when it is not set), and a body that reads a query, and on   *)
(* one branch a second query that reads the first one too.                  *)
(***************************************************************************)
EXTENDS FromScratch

CONSTANTS x, y, parity, gate, join

MCInput == {x, y}
MCQuery == {parity, gate, join}

MCVal == 0..2

(* parity's hash keeps only whether the value is positive. *)
MCHash(c, v) == IF c = parity /\ v > 0 THEN 1 ELSE v

MCTrace == UNION {[1..n -> MCVal \cup {Present, Absent}] : n \in 0..2}
MCPoint == MCQuery \X MCTrace

Fetch(c)  == [op |-> "fetch", cell |-> c, val |-> 0]
HasKey(c) == [op |-> "has", cell |-> c, val |-> 0]
Return(v) == [op |-> "return", cell |-> x, val |-> v]

AsVal(v) == IF v \in MCVal THEN v ELSE 0

MCBody(q, t) ==
  CASE q = parity -> IF t = <<>> THEN HasKey(x)
                     ELSE IF t[1] = Absent THEN Return(0)
                     ELSE IF Len(t) = 1 THEN Fetch(x) ELSE Return(AsVal(t[2]))
    [] q = gate   -> IF t = <<>> THEN Fetch(parity)
                     ELSE IF t[1] = 0 THEN Return(0)
                     ELSE IF Len(t) = 1 THEN Fetch(y) ELSE Return(AsVal(t[2]))
    [] q = join   -> IF t = <<>> THEN Fetch(parity)
                     ELSE IF t[1] = 0 THEN Return(2)
                     ELSE IF Len(t) = 1 THEN Fetch(gate) ELSE Return(AsVal(t[2]))

MCEntry == [q \in MCQuery |-> <<q, <<>>>>]
MCCode  == [p \in MCPoint |-> MCBody(p[1], p[2])]
MCJump(p, v) == <<p[1], Append(p[2], v)>>
MCOwner == [p \in MCPoint |-> p[1]]
MCRank  == [q \in MCQuery |-> CASE q = parity -> 0 [] q = gate -> 1 [] q = join -> 2]

-----------------------------------------------------------------------------
(* Evaluation, with no memory. *)

RECURSIVE MCEval(_, _)
MCEval(in, p) ==
  LET c    == Code[p].cell
      done == [value |-> Stuck, ran |-> {p[1]}]
      Ran(o, S) == [o EXCEPT !.ran = @ \cup S]
  IN  CASE Code[p].op = "return" -> [done EXCEPT !.value = Code[p].val]
        [] Code[p].op = "has" -> MCEval(in, Jump(p, IF in[c] = Absent THEN Absent ELSE Present))
        [] Code[p].op = "fetch" /\ c \in Input ->
             IF in[c] = Absent THEN done ELSE MCEval(in, Jump(p, in[c]))
        [] OTHER -> LET r == MCEval(in, Entry[c]) IN
             Ran(IF r.value = Stuck THEN done ELSE MCEval(in, Jump(p, r.value)), r.ran)

=============================================================================
