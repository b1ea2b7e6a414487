----------------------------- MODULE MCScheduler -----------------------------
(* Programs for Scheduler, each on a pool whose size makes it interesting. *)
EXTENDS Scheduler, TLC

CONSTANTS w1, w2, tA, tB, tC, outer, inner, pipe

Ungrouped == [x \in Task |-> NoGroup]
OneSlot == [k \in Chan |-> 1]

Load(pool, groups, bodies) ==
    [pool |-> pool, group |-> groups, cap |-> OneSlot,
     body |-> [x \in Body |-> IF x \in DOMAIN bodies THEN bodies[x] ELSE << >>]]

spawn(x) == <<"spawn", x>>
join(x) == <<"join", x>>
send == <<"send", pipe>>
recv == <<"recv", pipe>>
poll == <<"poll", pipe>>

\* A group of two, one of which opens a group of its own; the other polls.
NestedGroups(pool) == Load(pool, (tA :> outer @@ tB :> outer @@ tC :> inner),
    (Root :> <<<<"group", outer>>, spawn(tA), spawn(tB), <<"endgroup", outer>>>>
     @@ tA :> <<<<"group", inner>>, spawn(tC), <<"endgroup", inner>>>>
     @@ tB :> <<poll>>))

\* Two scopes of one body, one in the other, each with a child.
NestedScopes(pool) == Load(pool, (tA :> outer @@ tB :> inner @@ tC :> outer),
    (Root :> <<<<"group", outer>>, spawn(tA), <<"group", inner>>, spawn(tB),
               <<"endgroup", inner>>, spawn(tC), <<"endgroup", outer>>>>
     @@ tA :> <<poll>>))

\* Joins nested deeper than the pool has workers, with a second child queued.
DeepJoin(pool) == Load(pool, Ungrouped,
    (Root :> <<spawn(tA), join(tA)>>
     @@ tA :> <<spawn(tB), spawn(tC), join(tB), join(tC)>>
     @@ tB :> <<poll>>))

\* A producer and a consumer around one slot; the producer closes.
Pipe == Load({w1, w2}, Ungrouped,
    (Root :> <<spawn(tA), spawn(tB), join(tB), join(tA)>>
     @@ tA :> <<send, send, <<"close", pipe>>>>
     @@ tB :> <<recv, recv, recv>>))

\* Main closes under a producer that waits for room.
CloseRace == Load({w1, w2}, Ungrouped,
    (Root :> <<spawn(tA), recv, <<"close", pipe>>, join(tA)>>
     @@ tA :> <<send, send>>))

\* Tasks nobody joins: the exit handler drains them.
Detached(pool) == Load(pool, Ungrouped,
    (Root :> <<spawn(tA), spawn(tB)>>
     @@ tA :> <<spawn(tC)>>))

\* A child spawns into the group it belongs to, and so does that child: the
\* scope can be left before the last of them is attached.
LateChildren(pool) == Load(pool, [x \in Task |-> outer],
    (Root :> <<<<"group", outer>>, spawn(tA), <<"endgroup", outer>>>>
     @@ tA :> <<spawn(tB)>>
     @@ tB :> <<spawn(tC)>>))

AllLoads == {NestedGroups({w1}), NestedGroups({w1, w2}), DeepJoin({w1}), DeepJoin({w1, w2}),
             NestedScopes({w1}), Pipe, CloseRace, Detached({w1}), Detached({w1, w2}),
             LateChildren({w1}), LateChildren({w1, w2})}

\* Two consumers fill a pool of two before main has spawned the producer.
SaturatedLoads == {Load({w1, w2}, Ungrouped,
    (Root :> <<spawn(tA), spawn(tB), spawn(tC), join(tA), join(tB)>>
     @@ tA :> <<recv>>
     @@ tB :> <<recv>>
     @@ tC :> <<send, send>>))}

\* The late children alone.
LateChildLoads == {LateChildren({w1, w2})}
==============================================================================
