------------------------------ MODULE Scheduler ------------------------------
(***************************************************************************)
(* The task scheduler of the compiled program's runtime                    *)
(* (internal/backend/runtime/osty_runtime.c, "osty_sched_*"): a fixed pool *)
(* of workers with one deque each, a global inject queue, elastic workers  *)
(* started when a worker is about to block, task groups, joins that help,  *)
(* and channels.  A deque operation is one step: ChaseLevDeque implements  *)
(* it.  What runs under one mutex is one step, and a wait on a condition   *)
(* variable gives the mutex up in that step.                               *)
(***************************************************************************)
EXTENDS Integers, Sequences, FiniteSets, Functions

CONSTANTS Task,      \* bodies handed to spawn, each spawned at most once
          Root,      \* the body of main
          Worker,    \* threads the pool may have
          Elastic,   \* threads notify may start: OSTY_SCHED_ELASTIC_MAX of them
          Main,      \* the main thread
          Group, Chan,
          NoGroup, NoTask,
          DequeCap,  \* OSTY_SCHED_DEQUE_CAP
          Loads      \* programs: the pool's workers, bodies, groups, capacities

Thread == Worker \union Elastic \union {Main}
Body == Task \union {Root}
AnyGroup == Group \union {NoGroup}

\* What a body does, one call of the runtime after the other.
Operation == ({"spawn", "join"} \X Task) \union ({"group", "endgroup"} \X Group)
             \union ({"send", "recv", "close", "poll"} \X Chan)
Program == [pool : SUBSET Worker, group : [Task -> AnyGroup], cap : [Chan -> Nat],
            body : [Body -> Seq(Operation)]]

\* A task and a group are what one call of spawn or of osty_rt_task_group makes.
MadeOnce(l) ==
    \A b, c \in Body : \A i \in DOMAIN l.body[b], j \in DOMAIN l.body[c] :
      l.body[b][i] = l.body[c][j] /\ l.body[b][i][1] \in {"spawn", "group", "endgroup"}
        => b = c /\ i = j

\* osty_rt_task_group returns to where it was called: scopes of a body nest.
ScopesNest(l) ==
    \A b \in Body : \A m \in DOMAIN l.body[b] :
      l.body[b][m][1] = "endgroup" =>
        \E k \in 1 .. m - 1 :
          /\ l.body[b][k] = <<"group", l.body[b][m][2]>>
          /\ \A j \in k + 1 .. m - 1 : l.body[b][j][1] = "group" =>
               \E n \in j + 1 .. m - 1 : l.body[b][n] = <<"endgroup", l.body[b][j][2]>>

ASSUME SchedulerAssumption ==
    /\ Root \notin Task
    /\ Main \notin Worker \union Elastic
    /\ Worker \intersect Elastic = {}
    /\ NoGroup \notin Group
    /\ DequeCap \in Nat
    /\ Loads \subseteq Program
    /\ \A l \in Loads : MadeOnce(l) /\ ScopesNest(l)

VARIABLES load,      \* the program being run, one of Loads
          pc,        \* where each thread is
          frames,    \* each thread's call stack of task bodies
          group,     \* osty_sched_current_group of each thread
          look,      \* steal in progress: victims left, the victim and item seen
          final,     \* this worker has seen the shutdown flag
          deque, inject,
          started,   \* tasks whose spawn has incremented the counter
          done,      \* handles whose done flag is set
          inflight,  \* osty_concurrent_workers
          children,  \* handles attached to each group, newest first
          left,      \* groups whose scope has been left
          count, closed, \* each channel
          shutdown   \* osty_sched_pool_shutdown

queueVars == <<deque, inject, started, inflight>>
taskVars == <<done, children, left>>
chanVars == <<count, closed>>
vars == <<load, pc, frames, group, look, final, queueVars, taskVars, chanVars, shutdown>>

Pool == load.pool
IsPool(t) == t \in Pool
IsWorker(t) == t \in Pool \union Elastic

NoLook == [victims |-> {}, from |-> Main, item |-> NoTask]
Frame(x, g) == [task |-> x, at |-> 1, prev |-> g, outer |-> [h \in Group |-> NoGroup],
                kids |-> << >>, reaping |-> FALSE]

Top(t) == frames[t][Len(frames[t])]
Finished(t) == Top(t).at > Len(load.body[Top(t).task])
Op(t) == load.body[Top(t).task][Top(t).at]
At(t, name) == /\ pc[t] = "body"
               /\ ~Finished(t)
               /\ Op(t)[1] = name

\* The frames after the top frame of t has become f, or is at its next operation.
SetTop(t, f) == [frames EXCEPT ![t][Len(frames[t])] = f]
Advanced(t) == SetTop(t, [Top(t) EXCEPT !.at = @ + 1, !.reaping = FALSE])
Goto(t, l) == pc' = [pc EXCEPT ![t] = l]

\* What a blocked thread waits for: the condition variable of a handle or a channel.
Awaited(t) == IF Op(t)[1] = "endgroup" THEN <<"join", Head(Top(t).kids)>> ELSE Op(t)
BlockedOn(w) == {t \in Thread : pc[t] = "blocked" /\ Awaited(t) = w}

Init ==
    /\ load \in Loads
    /\ pc = [t \in Thread |-> CASE t = Main -> "body"
                                [] t \in load.pool -> "take"
                                [] OTHER -> "off"]
    /\ frames = [t \in Thread |-> IF t = Main THEN <<Frame(Root, NoGroup)>> ELSE << >>]
    /\ group = [t \in Thread |-> NoGroup]
    /\ look = [t \in Thread |-> NoLook]
    /\ final = [t \in Thread |-> FALSE]
    /\ deque = [w \in Worker |-> << >>]
    /\ inject = << >>
    /\ started = {}
    /\ done = {}
    /\ inflight = 0
    /\ children = [g \in Group |-> << >>]
    /\ left = {}
    /\ count = [c \in Chan |-> 0]
    /\ closed = {}
    /\ shutdown = FALSE

------------------------------------------------------------------------------
(* Pool condition variable and elastic workers *)

Parked == {w \in Worker : pc[w] = "parked"}
ParkedCount == Cardinality({w \in Worker : pc[w] \in {"parked", "woken"}})

\* Mutant: nobody is woken for new work.
SignalNobody(t, l) == Goto(t, l)

\* pc after thread t goes to l and signals one parked worker, if there is one.
SignalPool(t, l) ==
    IF Parked = {} THEN Goto(t, l)
    ELSE \E w \in Parked : pc' = [pc EXCEPT ![t] = l, ![w] = "woken"]

\* pc after thread t goes to l, having started an elastic worker if want holds.
StartElastic(t, l, want) ==
    LET off == {e \in Elastic : pc[e] = "off"}
    IN IF want /\ off # {}
       THEN \E e \in off : pc' = [pc EXCEPT ![t] = l, ![e] = "take"]
       ELSE Goto(t, l)

\* osty_sched_has_any_work_unlocked
HasAnyWork(w) == inject # << >> \/ \E v \in Pool \ {w} : deque[v] # << >>

------------------------------------------------------------------------------
(* osty_sched_take_work: own deque, then the other deques, then inject *)

\* osty_sched_run_task up to the call of the body.
Run(t, x) ==
    /\ frames' = [frames EXCEPT ![t] = Append(@, Frame(x, group[t]))]
    /\ group' = [group EXCEPT ![t] = load.group[x]]
    /\ look' = [look EXCEPT ![t] = NoLook]
    /\ final' = [final EXCEPT ![t] = FALSE]
    /\ Goto(t, "body")

TakeOwn(t) ==
    /\ pc[t] = "take"
    /\ \/ /\ IsPool(t) /\ deque[t] # << >>
          /\ Run(t, deque[t][Len(deque[t])])
          /\ deque' = [deque EXCEPT ![t] = SubSeq(@, 1, Len(@) - 1)]
       \/ /\ ~(IsPool(t) /\ deque[t] # << >>)
          /\ look' = [look EXCEPT ![t].victims =
                        IF Cardinality(Pool) =< 1 THEN {} ELSE Pool \ {t}]
          /\ Goto(t, "steal")
          /\ UNCHANGED <<frames, group, final, deque>>
    /\ UNCHANGED <<load, inject, started, inflight, taskVars, chanVars, shutdown>>

\* A thief reads the oldest item of a victim, or finds it empty.
StealLook(t) ==
    /\ pc[t] = "steal"
    /\ \E v \in look[t].victims :
         \/ /\ deque[v] = << >>
            /\ look' = [look EXCEPT ![t].victims = @ \ {v}]
            /\ UNCHANGED pc
         \/ /\ deque[v] # << >>
            /\ look' = [look EXCEPT ![t].from = v, ![t].item = Head(deque[v])]
            /\ Goto(t, "cas")
    /\ UNCHANGED <<load, frames, group, final, queueVars, taskVars, chanVars, shutdown>>

\* Mutant: the compare-and-swap on top always succeeds.
AlwaysOldest(t) == TRUE

StillOldest(t) == /\ deque[look[t].from] # << >>
                  /\ Head(deque[look[t].from]) = look[t].item

\* It gets the item only if the item is still the oldest.
StealCas(t) ==
    LET v == look[t].from
    IN /\ pc[t] = "cas"
       /\ \/ /\ StillOldest(t)
             /\ Run(t, look[t].item)
             /\ deque' = [deque EXCEPT ![v] = SubSeq(@, 2, Len(@))]
          \/ /\ ~StillOldest(t)
             /\ look' = [look EXCEPT ![t] = [NoLook EXCEPT !.victims = look[t].victims \ {v}]]
             /\ Goto(t, "steal")
             /\ UNCHANGED <<frames, group, final, deque>>
       /\ UNCHANGED <<load, inject, started, inflight, taskVars, chanVars, shutdown>>

\* osty_sched_pop_inject; a thread that finds nothing parks, exits or blocks.
TakeInject(t) ==
    /\ pc[t] = "steal"
    /\ look[t].victims = {}
    /\ \/ /\ inject # << >>
          /\ Run(t, Head(inject))
          /\ inject' = Tail(inject)
       \/ /\ inject = << >>
          /\ Goto(t, IF frames[t] = << >> THEN "none" ELSE "notify")
          /\ UNCHANGED <<frames, group, look, final, inject>>
    /\ UNCHANGED <<load, deque, started, inflight, taskVars, chanVars, shutdown>>

------------------------------------------------------------------------------
(* osty_sched_worker_main and osty_sched_elastic_main without work *)

WorkerIdle(t) ==
    /\ pc[t] = "none"
    /\ IsPool(t)
    /\ final' = [final EXCEPT ![t] = shutdown]
    /\ Goto(t, CASE ~shutdown -> "park"
                 [] shutdown /\ ~final[t] -> "take"
                 [] OTHER -> "exited")
    /\ UNCHANGED <<load, frames, group, look, queueVars, taskVars, chanVars, shutdown>>

ElasticExit(t) ==
    /\ pc[t] = "none"
    /\ t \in Elastic
    /\ Goto(t, "off")
    /\ UNCHANGED <<load, frames, group, look, final, queueVars, taskVars, chanVars, shutdown>>

\* osty_sched_park_until_work_or_shutdown: the check and the wait hold pool_mu.
ParkUntilWork(t) ==
    /\ pc[t] \in {"park", "woken"}
    /\ Goto(t, IF shutdown \/ HasAnyWork(t) THEN "take" ELSE "parked")
    /\ UNCHANGED <<load, frames, group, look, final, queueVars, taskVars, chanVars, shutdown>>

------------------------------------------------------------------------------
(* osty_rt_task_spawn_internal *)

\* Mutant: the task is not counted.
NotCounted == inflight

\* osty_sched_workers_inc, before anybody can see the task.
Incremented == inflight + 1

\* A pool worker pushes to its own deque; everybody else, and a worker whose
\* deque is full, to the inject queue, signalling under the same mutex.
Spawn(t) ==
    /\ At(t, "spawn")
    /\ LET x == Op(t)[2]
       IN /\ started' = started \union {x}
          /\ inflight' = Incremented
          /\ \/ /\ IsPool(t) /\ Len(deque[t]) < DequeCap
                /\ deque' = [deque EXCEPT ![t] = Append(@, x)]
                /\ Goto(t, "signal")
                /\ UNCHANGED inject
             \/ /\ ~(IsPool(t) /\ Len(deque[t]) < DequeCap)
                /\ inject' = Append(inject, x)
                /\ SignalPool(t, "attach")
                /\ UNCHANGED deque
    /\ UNCHANGED <<load, frames, group, look, final, taskVars, chanVars, shutdown>>

SpawnSignal(t) ==
    /\ pc[t] = "signal"
    /\ SignalPool(t, "attach")
    /\ UNCHANGED <<load, frames, group, look, final, queueVars, taskVars, chanVars, shutdown>>

\* osty_rt_task_group_attach, after the task is already visible to the others.
\* The group is in the frame of osty_rt_task_group: once that has returned, the
\* lock and the list are dead memory, and the program goes on or crashes.
Attach(t) ==
    /\ pc[t] = "attach"
    /\ LET x == Op(t)[2]
           g == load.group[x]
       IN \/ /\ children' = IF g = NoGroup THEN children
                            ELSE [children EXCEPT ![g] = <<x>> \o @]
             /\ frames' = Advanced(t)
             /\ Goto(t, "body")
          \/ /\ g \in left
             /\ Goto(Main, "aborted")
             /\ UNCHANGED <<children, frames>>
    /\ UNCHANGED <<load, group, look, final, queueVars, done, left, chanVars, shutdown>>

------------------------------------------------------------------------------
(* osty_rt_task_handle_wait, for a join and for each child a group reaps *)

EnterGroup(t) ==
    /\ At(t, "group")
    /\ frames' = SetTop(t, [Top(t) EXCEPT !.at = @ + 1, !.outer[Op(t)[2]] = group[t]])
    /\ group' = [group EXCEPT ![t] = Op(t)[2]]
    /\ UNCHANGED <<load, pc, look, final, queueVars, taskVars, chanVars, shutdown>>

\* osty_rt_task_group_reap takes the list of children once.
ReapStart(t) ==
    /\ At(t, "endgroup")
    /\ ~Top(t).reaping
    /\ LET g == Op(t)[2]
       IN /\ frames' = SetTop(t, [Top(t) EXCEPT !.reaping = TRUE, !.kids = children[g]])
          /\ children' = [children EXCEPT ![g] = << >>]
    /\ UNCHANGED <<load, pc, group, look, final, queueVars, done, left, chanVars, shutdown>>

\* Mutant: the group's frame goes away without waiting for the children.
ReapedNobody(t) == Top(t).reaping

\* Every child of the list has been waited for.
Reaped(t) == Top(t).reaping /\ Top(t).kids = << >>

LeaveGroup(t) ==
    /\ At(t, "endgroup")
    /\ Reaped(t)
    /\ left' = left \union {Op(t)[2]}
    /\ frames' = Advanced(t)
    /\ group' = [group EXCEPT ![t] = Top(t).outer[Op(t)[2]]]
    /\ UNCHANGED <<load, pc, look, final, queueVars, done, children, chanVars, shutdown>>

Waiting(t) == At(t, "join") \/ (At(t, "endgroup") /\ Top(t).reaping /\ Top(t).kids # << >>)

\* Done already, or before the next round of helping.
JoinDone(t) ==
    /\ Waiting(t)
    /\ Awaited(t)[2] \in done
    /\ frames' = IF Op(t)[1] = "join" THEN Advanced(t)
                 ELSE SetTop(t, [Top(t) EXCEPT !.kids = Tail(@)])
    /\ UNCHANGED <<load, pc, group, look, final, queueVars, taskVars, chanVars, shutdown>>

\* A pool worker helps; main and the elastic workers go to sleep.
JoinPending(t) ==
    /\ Waiting(t)
    /\ Awaited(t)[2] \notin done
    /\ Goto(t, IF IsPool(t) THEN "take" ELSE "wait")
    /\ UNCHANGED <<load, frames, group, look, final, queueVars, taskVars, chanVars, shutdown>>

JoinWait(t) ==
    /\ pc[t] = "wait"
    /\ Op(t)[1] \in {"join", "endgroup"}
    /\ Goto(t, IF Awaited(t)[2] \in done THEN "body" ELSE "blocked")
    /\ UNCHANGED <<load, frames, group, look, final, queueVars, taskVars, chanVars, shutdown>>

\* osty_sched_notify_blocking_wait: looks at the inject queue only.
NotifyBlockingWait(t) ==
    /\ pc[t] = "notify"
    /\ StartElastic(t, "wait", IsWorker(t) /\ inject # << >>)
    /\ UNCHANGED <<load, frames, group, look, final, queueVars, taskVars, chanVars, shutdown>>

\* Part 4 of osty_rt_sched_preempt_observe, at a safepoint of the body.
Safepoint(t) ==
    /\ At(t, "poll")
    /\ StartElastic(t, "body", IsWorker(t) /\ inject # << >> /\ ParkedCount = 0)
    /\ frames' = Advanced(t)
    /\ UNCHANGED <<load, group, look, final, queueVars, taskVars, chanVars, shutdown>>

------------------------------------------------------------------------------
(* The end of osty_sched_run_task *)

\* Mutant: the group of the task that was run is kept.
KeptGroup(t) == group[t]

\* prev_group, saved when the task was started.
RestoredGroup(t) == Top(t).prev

\* Restores the group and sets the handle's done flag.
Return(t) ==
    /\ pc[t] = "body"
    /\ Finished(t)
    /\ Top(t).task # Root
    /\ group' = [group EXCEPT ![t] = RestoredGroup(t)]
    /\ done' = done \union {Top(t).task}
    /\ Goto(t, "broadcast")
    /\ UNCHANGED <<load, frames, look, final, queueVars, children, left, chanVars, shutdown>>

\* osty_rt_task_handle_complete wakes the sleeping joiners.
Broadcast(t) ==
    /\ pc[t] = "broadcast"
    /\ pc' = [u \in Thread |-> CASE u = t -> "dec"
                                 [] u \in BlockedOn(<<"join", Top(t).task>>) -> "body"
                                 [] OTHER -> pc[u]]
    /\ UNCHANGED <<load, frames, group, look, final, queueVars, taskVars, chanVars, shutdown>>

\* Mutant: one task too many is counted off.
DecTwo == inflight - 2

Decremented == inflight - 1

\* osty_sched_workers_dec, then back to the loop or to the join that helped.
WorkersDec(t) ==
    /\ pc[t] = "dec"
    /\ inflight' = Decremented
    /\ frames' = [frames EXCEPT ![t] = SubSeq(@, 1, Len(@) - 1)]
    /\ Goto(t, IF Len(frames[t]) = 1 THEN "take" ELSE "body")
    /\ UNCHANGED <<load, group, look, final, deque, inject, started, taskVars, chanVars, shutdown>>

------------------------------------------------------------------------------
(* osty_rt_chan_send_raw, osty_rt_chan_recv_raw, osty_rt_thread_chan_close *)

InChan(t, name) == At(t, name) \/ (pc[t] = "wait" /\ Op(t)[1] = name)

\* pc after t goes on with its body and one thread blocked on w is woken.
SignalChan(t, w) ==
    IF BlockedOn(w) = {} THEN Goto(t, "body")
    ELSE \E u \in BlockedOn(w) : pc' = [pc EXCEPT ![t] = "body", ![u] = "wait"]

\* Before its first wait a thread gives up the mutex and calls notify.
ChanBlock(t) == Goto(t, IF pc[t] = "body" THEN "notify" ELSE "blocked")

Send(t) ==
    /\ InChan(t, "send")
    /\ LET c == Op(t)[2]
       IN \/ /\ c \in closed
             /\ Goto(Main, "aborted")
             /\ UNCHANGED <<frames, count>>
          \/ /\ c \notin closed /\ count[c] < load.cap[c]
             /\ count' = [count EXCEPT ![c] = @ + 1]
             /\ SignalChan(t, <<"recv", c>>)
             /\ frames' = Advanced(t)
          \/ /\ c \notin closed /\ count[c] = load.cap[c]
             /\ ChanBlock(t)
             /\ UNCHANGED <<frames, count>>
    /\ UNCHANGED <<load, group, look, final, queueVars, taskVars, closed, shutdown>>

Recv(t) ==
    /\ InChan(t, "recv")
    /\ LET c == Op(t)[2]
       IN \/ /\ count[c] > 0
             /\ count' = [count EXCEPT ![c] = @ - 1]
             /\ SignalChan(t, <<"send", c>>)
             /\ frames' = Advanced(t)
          \/ /\ count[c] = 0 /\ c \in closed
             /\ Goto(t, "body")
             /\ frames' = Advanced(t)
             /\ UNCHANGED count
          \/ /\ count[c] = 0 /\ c \notin closed
             /\ ChanBlock(t)
             /\ UNCHANGED <<frames, count>>
    /\ UNCHANGED <<load, group, look, final, queueVars, taskVars, closed, shutdown>>

Close(t) ==
    /\ At(t, "close")
    /\ LET c == Op(t)[2]
       IN /\ closed' = closed \union {c}
          /\ pc' = [u \in Thread |->
                      IF u \in BlockedOn(<<"recv", c>>) \union BlockedOn(<<"send", c>>)
                      THEN "wait" ELSE pc[u]]
    /\ frames' = Advanced(t)
    /\ UNCHANGED <<load, group, look, final, queueVars, taskVars, count, shutdown>>

------------------------------------------------------------------------------
(* Process exit, and wake-ups the platform may add *)

\* osty_sched_shutdown_atexit
Shutdown ==
    /\ pc[Main] = "body"
    /\ Finished(Main)
    /\ shutdown' = TRUE
    /\ pc' = [u \in Thread |-> CASE u = Main -> "joinPool"
                                 [] u \in Parked -> "woken"
                                 [] OTHER -> pc[u]]
    /\ UNCHANGED <<load, frames, group, look, final, queueVars, taskVars, chanVars>>

Exit ==
    /\ pc[Main] = "joinPool"
    /\ \A w \in Pool : pc[w] = "exited"
    /\ Goto(Main, "gone")
    /\ UNCHANGED <<load, frames, group, look, final, queueVars, taskVars, chanVars, shutdown>>

\* A condition variable may wake a thread that nobody signalled.
SpuriousWake(t) ==
    /\ \/ /\ pc[t] = "parked"
          /\ Goto(t, "woken")
       \/ /\ pc[t] = "blocked"
          /\ Goto(t, IF Op(t)[1] \in {"send", "recv"} THEN "wait" ELSE "body")
    /\ UNCHANGED <<load, frames, group, look, final, queueVars, taskVars, chanVars, shutdown>>

------------------------------------------------------------------------------
Step(t) ==
    \/ TakeOwn(t) \/ StealLook(t) \/ StealCas(t) \/ TakeInject(t)
    \/ WorkerIdle(t) \/ ElasticExit(t) \/ ParkUntilWork(t)
    \/ Spawn(t) \/ SpawnSignal(t) \/ Attach(t)
    \/ EnterGroup(t) \/ ReapStart(t) \/ LeaveGroup(t)
    \/ JoinDone(t) \/ JoinPending(t) \/ JoinWait(t)
    \/ NotifyBlockingWait(t) \/ Safepoint(t)
    \/ Return(t) \/ Broadcast(t) \/ WorkersDec(t)
    \/ Send(t) \/ Recv(t) \/ Close(t)
    \/ (t = Main /\ (Shutdown \/ Exit))

Ended == pc[Main] \in {"gone", "aborted"}

Next == \/ /\ ~Ended
           /\ \E t \in Thread : Step(t) \/ SpuriousWake(t)
        \/ /\ Ended
           /\ UNCHANGED vars

\* The operating system runs every thread that can run.
Spec == Init /\ [][Next]_vars /\ \A t \in Thread : WF_vars(~Ended /\ Step(t))

------------------------------------------------------------------------------
Queued == Range(inject) \union UNION {Range(deque[w]) : w \in Worker}
Running(t) == {frames[t][i].task : i \in DOMAIN frames[t]} \ {Root}

Label == {"off", "take", "steal", "cas", "none", "park", "parked", "woken",
          "body", "signal", "attach", "notify", "wait", "blocked",
          "broadcast", "dec", "exited", "joinPool", "gone", "aborted"}
FrameType == [task : Body, at : Nat \ {0}, prev : AnyGroup, outer : [Group -> AnyGroup],
              kids : Seq(Task), reaping : BOOLEAN]

\* Everything has its type; osty_concurrent_workers never goes below zero, and a
\* handle is done only after its spawn counted it.
TypeOK ==
    /\ load \in Loads
    /\ pc \in [Thread -> Label]
    /\ frames \in [Thread -> Seq(FrameType)]
    /\ group \in [Thread -> AnyGroup]
    /\ look \in [Thread -> [victims : SUBSET Worker, from : Worker \union {Main},
                            item : Task \union {NoTask}]]
    /\ final \in [Thread -> BOOLEAN]
    /\ deque \in [Worker -> Seq(Task)]
    /\ inject \in Seq(Task)
    /\ done \subseteq started /\ started \subseteq Task
    /\ inflight \in Nat
    /\ children \in [Group -> Seq(Task)]
    /\ left \subseteq Group
    /\ closed \subseteq Chan
    /\ count \in [Chan -> Nat]
    /\ shutdown \in BOOLEAN

Runnable(t) == /\ pc[t] \notin {"off", "parked", "blocked", "exited", "gone"}
               /\ pc[t] = "joinPool" => \A w \in Pool : pc[w] = "exited"

\* A queued task is never stranded behind blocked threads: while one is queued
\* some thread can run, be it a worker that blocks in a join or on a channel.
NoStrandedTask == ~Ended /\ Queued # {} => \E t \in Thread : Runnable(t)

\* "No child outlives its group scope", as the comment in osty_rt_task_group_reap
\* and the language specification say of every program.  The list of children is
\* taken once: a child that a child spawns into their group after that is missed.
NoChildOutlives == \A x \in started : load.group[x] \in left => x \in done

\* Operation i of body b spawns into the group whose scope ends at operation j.
ScopeChild(b, i, j) ==
    /\ i < j
    /\ load.body[b][i][1] = "spawn"
    /\ load.body[b][j] = <<"endgroup", load.group[load.body[b][i][2]]>>

\* What osty_rt_task_group_reap does promise every program: a scope is left only
\* after every child that the body of the scope itself has spawned is done,
\* whoever else spawns into the group meanwhile and whoever runs the children.
ScopeWaits ==
    \A b \in Body : \A i, j \in DOMAIN load.body[b] :
      ScopeChild(b, i, j) /\ load.body[b][j][2] \in left => load.body[b][i][2] \in done

\* The scopes that enclose position k of body b, by where they were opened.
OpenAt(b, k) ==
    {m \in 1 .. k - 1 : /\ load.body[b][m][1] = "group"
                        /\ \A n \in m + 1 .. k - 1 :
                             load.body[b][n] # <<"endgroup", load.body[b][m][2]>>}

Innermost(opened) == CHOOSE m \in opened : \A n \in opened : n =< m

\* The group of position k of body b: the innermost open one, or the task's own.
ScopeAt(b, k) ==
    IF OpenAt(b, k) # {}
    THEN load.body[b][Innermost(OpenAt(b, k))][2]
    ELSE IF b = Root THEN NoGroup ELSE load.group[b]

Scope(f) == ScopeAt(f.task, f.at)

\* A thread that helped in a join is back in its own group when its body goes
\* on: what osty_rt_cancel_is_cancelled reads is the flag of the right group.
OwnGroup == \A t \in Thread : pc[t] = "body" => group[t] = Scope(Top(t))

\* The collector is held off as long as a task item is queued or a thread still
\* uses a handle: the counter covers the broadcast after done was set.
HandlesPinned ==
    inflight = Cardinality(Queued) + Cardinality(UNION {Running(t) : t \in Thread})

\* A task is handed to one thread only, and is in one place: no two entries of
\* the deques, the inject queue and the call stacks are the same task.
OnePlace ==
    /\ \A w, v \in Worker : \A i \in DOMAIN deque[w], j \in DOMAIN deque[v] :
         deque[w][i] = deque[v][j] => w = v /\ i = j
    /\ \A i, j \in DOMAIN inject : inject[i] = inject[j] => i = j
    /\ \A t, u \in Thread : \A i \in DOMAIN frames[t], j \in DOMAIN frames[u] :
         frames[t][i].task = frames[u][j].task => t = u /\ i = j
    /\ \A w \in Worker : \A i \in DOMAIN deque[w] :
         /\ \A j \in DOMAIN inject : deque[w][i] # inject[j]
         /\ \A t \in Thread : \A j \in DOMAIN frames[t] : deque[w][i] # frames[t][j].task
    /\ \A i \in DOMAIN inject : \A t \in Thread : \A j \in DOMAIN frames[t] :
         inject[i] # frames[t][j].task

\* The process ends; if main ended it, and it was not aborted, every task has then
\* run, and the elastic workers are gone or were ended with the process.
Drains == <>(Ended /\ (pc[Main] = "gone" => started = done))

------------------------------------------------------------------------------
(* The inductive invariants *)

\* Where a thread is and what is on its stack.
LocatedAt(t) ==
    /\ pc[t] \in {"off", "none", "park", "parked", "woken"} => frames[t] = << >>
    /\ pc[t] \in {"body", "signal", "attach", "notify", "wait", "blocked", "broadcast", "dec"}
         => frames[t] # << >>
    /\ frames[t] # << >> /\ pc[t] \in {"take", "steal", "cas", "signal", "attach", "notify",
                                       "wait", "blocked"} => ~Finished(t)
    /\ pc[t] \in {"signal", "attach"} => Op(t)[1] = "spawn" /\ Op(t)[2] \in started
    /\ pc[t] = "cas" => look[t].from \in Worker
    /\ pc[t] \in {"broadcast", "dec"} => Finished(t) /\ Top(t).task \in done

Located == \A t \in Thread : LocatedAt(t)

\* Main runs its own body only, and nobody else runs it.
MainRunsRoot ==
    /\ Len(frames[Main]) = 1 /\ frames[Main][1].task = Root
    /\ pc[Main] \notin {"take", "steal", "cas"}

InBody ==
    \A t \in Thread : \A i \in DOMAIN frames[t] :
      frames[t][i].at =< Len(load.body[frames[t][i].task]) + 1

\* What is queued or runs has been spawned, and is not done unless the thread
\* that ran it has still to broadcast or to count it off.
StartedOrDone ==
    /\ \A w \in Worker : \A i \in DOMAIN deque[w] : deque[w][i] \in started \ done
    /\ \A i \in DOMAIN inject : inject[i] \in started \ done
    /\ \A t \in Thread : \A i \in DOMAIN frames[t] :
         /\ frames[t][i].task \in started \union {Root}
         /\ frames[t][i].task \in done => i = Len(frames[t]) /\ pc[t] \in {"broadcast", "dec"}

\* A thread between publishing a task and attaching it; Main may be aborted there.
Publishing(t) == pc[t] \in {"signal", "attach", "aborted"}

\* Operation k of body b has been executed, its attach included if it is a spawn.
Passed(b, k) ==
    \/ b \in done
    \/ \E t \in Thread : \E i \in DOMAIN frames[t] : frames[t][i].task = b /\ frames[t][i].at > k

\* A task that has been spawned is behind its spawn: it is not spawned again.
SpawnsBehind ==
    \A b \in Body : \A k \in DOMAIN load.body[b] :
      load.body[b][k][1] = "spawn" /\ load.body[b][k][2] \in started =>
        \/ Passed(b, k)
        \/ \E t \in Thread : /\ Publishing(t) /\ frames[t] # << >>
                             /\ Top(t).task = b /\ Top(t).at = k

Live == Queued \union UNION {Running(t) : t \in Thread}

\* The counter counts the tasks that are queued or run.
Counted == IsFiniteSet(started) /\ inflight = Cardinality(Live)

\* The stack of saved groups: each frame holds the group of the frame below, and
\* for each scope it has open the group around that scope.
GroupsSaved ==
    \A t \in Thread :
      /\ frames[t] = << >> => group[t] = NoGroup
      /\ frames[t] # << >> =>
           /\ frames[t][1].prev = NoGroup
           /\ group[t] = IF pc[t] \in {"broadcast", "dec"} THEN Top(t).prev ELSE Scope(Top(t))
      /\ \A i \in 2 .. Len(frames[t]) : frames[t][i].prev = Scope(frames[t][i - 1])
      /\ \A i \in DOMAIN frames[t] : \A m \in OpenAt(frames[t][i].task, frames[t][i].at) :
           frames[t][i].outer[load.body[frames[t][i].task][m][2]] = ScopeAt(frames[t][i].task, m)

\* What holds at every step of every program.
IInv ==
    /\ TypeOK /\ Located /\ MainRunsRoot /\ InBody
    /\ StartedOrDone /\ OnePlace /\ SpawnsBehind /\ Counted /\ GroupsSaved

Reaping(f, g) == f.reaping /\ load.body[f.task][f.at] = <<"endgroup", g>>

\* A frame reaps at the end of a scope only.
ReapingAtEnd ==
    \A t \in Thread : \A i \in DOMAIN frames[t] :
      frames[t][i].reaping =>
        /\ frames[t][i].at =< Len(load.body[frames[t][i].task])
        /\ load.body[frames[t][i].task][frames[t][i].at][1] = "endgroup"

\* A group that was left is behind the end of its scope.
LeftBehind ==
    \A g \in left : \E b \in Body : \E k \in DOMAIN load.body[b] :
      load.body[b][k] = <<"endgroup", g>> /\ Passed(b, k)

\* A child that is not done is on its group's list, on the list being reaped, or
\* about to be attached.
Accounted ==
    \A x \in started \ done : load.group[x] # NoGroup =>
      \/ x \in Range(children[load.group[x]])
      \/ \E t \in Thread : \E i \in DOMAIN frames[t] :
           Reaping(frames[t][i], load.group[x]) /\ x \in Range(frames[t][i].kids)
      \/ \E t \in Thread : /\ Publishing(t) /\ frames[t] # << >>
                           /\ ~Finished(t) /\ Op(t) = <<"spawn", x>>

\* Frame f is in the scope that ends at operation j, and child x of that scope is
\* done, on the list that is being reaped, or on the group's list.
Waited(f, j, x) ==
    \/ x \in done
    \/ /\ f.at =< j
       /\ x \in IF f.at = j /\ f.reaping THEN Range(f.kids) ELSE Range(children[load.group[x]])

\* Between its spawn and the end of the scope a child of the scope is not lost.
ChildrenListed ==
    \A b \in Body : \A i, j \in DOMAIN load.body[b] : ScopeChild(b, i, j) =>
      /\ b \in done => load.body[b][i][2] \in done
      /\ \A t \in Thread : \A n \in DOMAIN frames[t] :
           frames[t][n].task = b /\ frames[t][n].at > i =>
             Waited(frames[t][n], j, load.body[b][i][2])

\* Where the children of the groups are, at every step of every program.
GroupInv ==
    /\ ReapingAtEnd /\ LeftBehind /\ Accounted /\ ChildrenListed
==============================================================================
