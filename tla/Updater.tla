------------------------------- MODULE Updater -------------------------------
(***************************************************************************)
(* The periodic-update scheduler of morda (Updateable.hpp, Updateable.cpp) *)
(* together with the main loop that calls it and the UI code it calls.     *)
(*                                                                         *)
(* Everything runs in one UI thread.  The thread waits in the main loop,   *)
(* handles events, calls Updater::update(), and update() calls the         *)
(* update() method of every due Updateable.  Event handlers and update()   *)
(* methods may subscribe and unsubscribe any Updateable, and the           *)
(* millisecond clock, a uint32 that wraps around, may advance between any  *)
(* two steps.                                                              *)
(***************************************************************************)
EXTENDS Integers, SequencesExt

CONSTANTS
    Updateables,        \* the objects that derive from Updateable
    NoUpdateable,       \* stands for "no update() method is running"
    Modulus,            \* the number of values of the clock: 2^32 in the code
    Periods,            \* the dtMs arguments given to startUpdating()
    InitialTicks,       \* clock values at which the program may start
    MinWait,            \* the least non-zero wait update() returns: 5 ms
    MaxIdle,            \* the longest wait when update() returns uint32(-1)
    MaxBusy,            \* ticks between two waits: handlers and update()
    MaxAge,             \* where the model stops counting the age of a period
    RestartInCallback   \* may update() stop and start its own object?

ASSUME UpdaterAssumption ==
    /\ NoUpdateable \notin Updateables
    /\ Modulus \in Nat \ {0}
    /\ Periods \subseteq Nat
    /\ InitialTicks \subseteq 0 .. Modulus - 1
    /\ MinWait \in Nat
    /\ MaxIdle \in Nat
    /\ MaxBusy \in Nat
    /\ MaxAge \in Nat
    /\ RestartInCallback \in BOOLEAN

VARIABLES
    now,            \* what getTicks() would return
    phase,          \* where the UI thread is
    running,        \* the object whose update() method is running
    curTime,        \* the local of Updater::update()
    lastUpdatedTimestamp,
    queues,         \* q1 and q2
    activeQueue,    \* which of the two the activeQueue pointer designates
    toAdd,
    isUpdating, dt, startedAt, queue, pendingAddition,  \* of each Updateable
    owned,          \* does the program hold a shared_ptr to the object?
    age,            \* real ticks since startedAt was taken (no wrap-around)
    spent,          \* ticks spent waiting, or busy since the last wait
    sleep           \* what the last update() returned

clockVars  == <<now, age, spent>>
queueVars  == <<queues, activeQueue, toAdd, lastUpdatedTimestamp>>
objectVars == <<isUpdating, dt, startedAt, queue, pendingAddition>>
vars == <<clockVars, phase, running, curTime, queueVars, objectVars, owned,
          sleep>>

Ticks == 0 .. Modulus - 1
Forever == Modulus - 1          \* std::uint32_t(-1)
Phases == {"waiting", "events", "addBefore", "expire", "fire", "addAfter"}
Queues == {1, 2}

\* A node of an UpdateQueue.  "current" says that the iter member of the
\* Updateable designates this very node.
Entry == [endAt : Ticks, of : Updateables, current : BOOLEAN]

inactiveQueue == 3 - activeQueue
Minus(t, s) == (t - s) % Modulus           \* subtraction of uint32 values
endAt(u) == (startedAt[u] + dt[u]) % Modulus

\* The strong references: the program's, toAdd's, and popFront()'s result.
Alive(u) == owned[u] \/ u \in ToSet(toAdd) \/ running = u

-----------------------------------------------------------------------------
(* std::list operations of the update queues *)

\* Where insertPair() puts a pair: at the end when nothing later is queued,
\* before the first pair that is not earlier otherwise.
insertPosition(q, t) ==
    IF q = << >> \/ Last(q).endAt <= t
    THEN Len(q) + 1
    ELSE Min({i \in DOMAIN q : q[i].endAt >= t})

insertPair(q, e) == InsertAt(q, insertPosition(q, e.endAt), e)

\* Assigning u->iter: a node u->iter designated before is current no more.
Forget(q, u) ==
    [i \in DOMAIN q |-> [q[i] EXCEPT !.current = @ /\ q[i].of # u]]

EraseFront(q, u) == Tail(q)                \* mutant: pop_front()

\* queue->erase(iter)
EraseIter(q, u) ==
    RemoveFirstMatch(q, LAMBDA e : e.of = u /\ e.current)

-----------------------------------------------------------------------------
(* The calls UI code makes *)

\* UI code runs in event handlers and in update() methods.
UiCodeRuns == phase = "events" \/ running # NoUpdateable

\* A method can be called on an object somebody holds.
Callable(u) == owned[u] \/ running = u

startUpdating(u, period) ==
    /\ UiCodeRuns /\ Callable(u)
    /\ RestartInCallback \/ running # u
    /\ ~isUpdating[u]                  \* otherwise Exc, and nothing changes
    /\ dt' = [dt EXCEPT ![u] = period]
    /\ startedAt' = [startedAt EXCEPT ![u] = now]
    /\ isUpdating' = [isUpdating EXCEPT ![u] = TRUE]
    /\ pendingAddition' = [pendingAddition EXCEPT ![u] = TRUE]
    /\ toAdd' = <<u>> \o toAdd
    /\ age' = [age EXCEPT ![u] = 0]
    /\ UNCHANGED <<now, spent, phase, running, curTime, queues, activeQueue,
                   lastUpdatedTimestamp, queue, owned, sleep>>

stopUpdating(u) ==
    /\ UiCodeRuns /\ Callable(u)
    /\ isUpdating' = [isUpdating EXCEPT ![u] = FALSE]
    /\ IF queue[u] # 0
       THEN /\ queues' = [queues EXCEPT ![queue[u]] = EraseIter(@, u)]
            /\ queue' = [queue EXCEPT ![u] = 0]
            /\ UNCHANGED <<toAdd, pendingAddition>>
       ELSE /\ IF pendingAddition[u]       \* removeFromToAdd()
               THEN toAdd' = RemoveFirst(toAdd, u)
               ELSE toAdd' = toAdd
            /\ pendingAddition' = [pendingAddition EXCEPT ![u] = FALSE]
            /\ UNCHANGED <<queues, queue>>
    /\ UNCHANGED <<clockVars, phase, running, curTime, activeQueue,
                   lastUpdatedTimestamp, dt, startedAt, owned, sleep>>

\* The program drops its last reference.  The queues hold weak references,
\* so an entry of a dead object stays queued until it is popped.
Release(u) ==
    /\ UiCodeRuns /\ owned[u]
    /\ owned' = [owned EXCEPT ![u] = FALSE]
    /\ UNCHANGED <<clockVars, phase, running, curTime, queueVars, objectVars,
                   sleep>>

\* An object is constructed.  (A name is used again only when no queue holds
\* an entry of the object that had it.)
Create(u) ==
    /\ UiCodeRuns /\ ~Alive(u)
    /\ \A k \in Queues : \A i \in DOMAIN queues[k] : queues[k][i].of # u
    /\ owned' = [owned EXCEPT ![u] = TRUE]
    /\ isUpdating' = [isUpdating EXCEPT ![u] = FALSE]
    /\ queue' = [queue EXCEPT ![u] = 0]
    /\ pendingAddition' = [pendingAddition EXCEPT ![u] = FALSE]
    /\ UNCHANGED <<clockVars, phase, running, curTime, queueVars, dt,
                   startedAt, sleep>>

-----------------------------------------------------------------------------
(* The clock *)

\* Waiting lasts at most as long as update() asked for; everything between
\* two waits takes at most MaxBusy ticks.
Allowance ==
    IF phase # "waiting" THEN MaxBusy
    ELSE IF sleep = Forever THEN MaxIdle ELSE sleep

Tick ==
    /\ spent < Allowance
    /\ spent' = spent + 1
    /\ now' = (now + 1) % Modulus
    /\ age' = [u \in Updateables |->
                  IF ~Alive(u) \/ ~isUpdating[u] THEN 0
                  ELSE IF age[u] < MaxAge THEN age[u] + 1 ELSE age[u]]
    /\ UNCHANGED <<phase, running, curTime, queueVars, objectVars, owned,
                   sleep>>

-----------------------------------------------------------------------------
(* The main loop and Updater::update() *)

\* The wait ends: with an event, or when the time update() asked for is over.
Wake ==
    /\ phase = "waiting"
    /\ phase' = "events"
    /\ spent' = 0
    /\ sleep' = 0
    /\ UNCHANGED <<now, age, running, curTime, queueVars, objectVars, owned>>

update ==
    /\ phase = "events"
    /\ phase' = "addBefore"
    /\ curTime' = now
    /\ UNCHANGED <<clockVars, running, queueVars, objectVars, owned, sleep>>

\* One iteration of addPending(), which update() calls twice.
addPending ==
    /\ phase \in {"addBefore", "addAfter"}
    /\ toAdd # << >>
    /\ LET u == Head(toAdd)
           k == IF endAt(u) < lastUpdatedTimestamp
                THEN inactiveQueue ELSE activeQueue
           node == [endAt |-> endAt(u), of |-> u, current |-> TRUE]
       IN /\ queues' = [j \in Queues |->
                           IF j = k THEN insertPair(Forget(queues[j], u), node)
                                    ELSE Forget(queues[j], u)]
          /\ queue' = [queue EXCEPT ![u] = k]
          /\ pendingAddition' = [pendingAddition EXCEPT ![u] = FALSE]
    /\ toAdd' = Tail(toAdd)
    /\ UNCHANGED <<clockVars, phase, running, curTime, activeQueue,
                   lastUpdatedTimestamp, isUpdating, dt, startedAt, owned,
                   sleep>>

\* Everything pending is queued: take the new time and see if it wrapped.
AdvanceTime ==
    /\ phase = "addBefore" /\ toAdd = << >>
    /\ phase' = IF curTime < lastUpdatedTimestamp THEN "expire" ELSE "fire"
    /\ lastUpdatedTimestamp' = curTime
    /\ UNCHANGED <<clockVars, running, curTime, queues, activeQueue, toAdd,
                   objectVars, owned, sleep>>

\* updateUpdateable(activeQueue->popFront()), up to the call of u->update().
popFront ==
    /\ queues' = [queues EXCEPT ![activeQueue] = Tail(@)]
    /\ LET u == Head(queues[activeQueue]).of
       IN IF Alive(u)
          THEN running' = u /\ queue' = [queue EXCEPT ![u] = 0]
          ELSE UNCHANGED <<running, queue>>
    /\ UNCHANGED <<clockVars, phase, curTime, activeQueue, toAdd,
                   lastUpdatedTimestamp, isUpdating, dt, startedAt,
                   pendingAddition, owned, sleep>>

\* The loop that empties the active queue after a wrap-around ...
PopExpired ==
    /\ phase = "expire" /\ running = NoUpdateable
    /\ queues[activeQueue] # << >>
    /\ popFront

\* ... and the swap that follows it.
SwapForgotten ==                           \* mutant: no std::swap()
    /\ phase = "expire" /\ running = NoUpdateable
    /\ queues[activeQueue] = << >>
    /\ phase' = "fire"
    /\ UNCHANGED <<clockVars, running, curTime, queueVars, objectVars, owned,
                   sleep>>

SwapQueues ==
    /\ phase = "expire" /\ running = NoUpdateable
    /\ queues[activeQueue] = << >>
    /\ phase' = "fire"
    /\ activeQueue' = inactiveQueue
    /\ UNCHANGED <<clockVars, running, curTime, queues, toAdd,
                   lastUpdatedTimestamp, objectVars, owned, sleep>>

IsQueued(k) == queues[k] # << >>           \* mutant: the time is not compared
IsDue(k) == queues[k] # << >> /\ Head(queues[k]).endAt <= curTime

PopDue ==
    /\ phase = "fire" /\ running = NoUpdateable
    /\ IsDue(activeQueue)
    /\ popFront

NothingLeft ==              \* mutant: waits for the queue to be empty
    /\ phase = "fire" /\ running = NoUpdateable
    /\ queues[activeQueue] = << >>
    /\ phase' = "addAfter"
    /\ UNCHANGED <<clockVars, running, curTime, queueVars, objectVars, owned,
                   sleep>>

NothingDue ==
    /\ phase = "fire" /\ running = NoUpdateable
    /\ ~IsDue(activeQueue)
    /\ phase' = "addAfter"
    /\ UNCHANGED <<clockVars, running, curTime, queueVars, objectVars, owned,
                   sleep>>

\* u->update() returns to updateUpdateable().
UpdateReturns ==
    /\ running # NoUpdateable
    /\ running' = NoUpdateable
    /\ LET u == running
       IN IF isUpdating[u]
          THEN /\ startedAt' = [startedAt EXCEPT ![u] = lastUpdatedTimestamp]
               /\ age' = [age EXCEPT ![u] = Minus(now, lastUpdatedTimestamp)]
               /\ pendingAddition' = [pendingAddition EXCEPT ![u] = TRUE]
               /\ toAdd' = Append(toAdd, u)
          ELSE UNCHANGED <<startedAt, age, pendingAddition, toAdd>>
    /\ UNCHANGED <<now, spent, phase, curTime, queues, activeQueue,
                   lastUpdatedTimestamp, isUpdating, dt, queue, owned, sleep>>

WaitUnderflows(closestTime) ==             \* mutant: no test of correction
    Minus(Minus(closestTime, curTime), Minus(now, curTime))

\* What update() returns when the earliest entry is due at closestTime.
WaitFor(closestTime) ==
    LET uncorrectedDt == Minus(closestTime, curTime)
        correction == Minus(now, curTime)
    IN IF correction >= uncorrectedDt THEN 0
       ELSE IF uncorrectedDt - correction < MinWait THEN MinWait
       ELSE uncorrectedDt - correction

Return ==
    /\ phase = "addAfter" /\ toAdd = << >>
    /\ phase' = "waiting"
    /\ spent' = 0
    /\ sleep' = IF queues[activeQueue] # << >>
                THEN WaitFor(Head(queues[activeQueue]).endAt)
                ELSE IF queues[inactiveQueue] # << >>
                THEN WaitFor(Head(queues[inactiveQueue]).endAt)
                ELSE Forever
    /\ UNCHANGED <<now, age, running, curTime, queueVars, objectVars, owned>>

-----------------------------------------------------------------------------
Init ==
    /\ now \in InitialTicks
    /\ phase = "events" /\ running = NoUpdateable
    /\ curTime = 0 /\ lastUpdatedTimestamp = 0
    /\ queues = [k \in Queues |-> << >>]
    /\ activeQueue = 1
    /\ toAdd = << >>
    /\ isUpdating = [u \in Updateables |-> FALSE]
    /\ pendingAddition = [u \in Updateables |-> FALSE]
    /\ queue = [u \in Updateables |-> 0]
    /\ dt = [u \in Updateables |-> 0]
    /\ startedAt = [u \in Updateables |-> 0]
    /\ owned = [u \in Updateables |-> FALSE]
    /\ age = [u \in Updateables |-> 0]
    /\ spent = 0 /\ sleep = 0

UiCode ==
    \E u \in Updateables :
        \/ \E period \in Periods : startUpdating(u, period)
        \/ stopUpdating(u)
        \/ Release(u)
        \/ Create(u)

UpdateLoop ==
    \/ update \/ addPending \/ AdvanceTime
    \/ PopExpired \/ SwapQueues \/ PopDue \/ NothingDue
    \/ UpdateReturns \/ Return

Next == UiCode \/ Tick \/ Wake \/ UpdateLoop

Spec == Init /\ [][Next]_vars

-----------------------------------------------------------------------------
(* Fairness.  The thread never stops: a wait ends, an update() method and  *)
(* an event handler return.  The clock does not stand still however often  *)
(* the thread goes round with a wait of 0, hence strong fairness for Tick. *)
(* What UI code calls, if anything, is up to the program.                  *)
Fairness == WF_vars(Wake) /\ WF_vars(UpdateLoop) /\ SF_vars(Tick)
FairSpec == Spec /\ Fairness

-----------------------------------------------------------------------------
(* Properties *)

TypeOK ==
    /\ now \in Ticks /\ curTime \in Ticks /\ lastUpdatedTimestamp \in Ticks
    /\ phase \in Phases
    /\ running \in Updateables \cup {NoUpdateable}
    /\ queues \in [Queues -> Seq(Entry)]
    /\ activeQueue \in Queues
    /\ toAdd \in Seq(Updateables)
    /\ isUpdating \in [Updateables -> BOOLEAN]
    /\ pendingAddition \in [Updateables -> BOOLEAN]
    /\ queue \in [Updateables -> Queues \cup {0}]
    /\ dt \in [Updateables -> Nat]
    /\ startedAt \in [Updateables -> Ticks]
    /\ owned \in [Updateables -> BOOLEAN]
    /\ age \in [Updateables -> Nat]
    /\ spent \in Nat /\ sleep \in Nat

ObjectsIn(q) == {q[i].of : i \in DOMAIN q}

\* Every node is the one its object's queue and iter members designate, and
\* no object has two nodes or two places in toAdd.
NodesDesignated ==
    /\ \A k \in Queues :
           /\ \A i \in DOMAIN queues[k] : queues[k][i].current
           /\ \A i, j \in DOMAIN queues[k] :
                  queues[k][i].of = queues[k][j].of => i = j
           /\ \A u \in ObjectsIn(queues[k]) : queue[u] = k
    /\ IsInjective(toAdd)

\* A subscribed object is in exactly one place: it has a node in the queue it
\* points to, or waits in toAdd, or its update() method is running.  An object
\* that is not subscribed is in none.
Placed(u) ==
    /\ queue[u] # 0 => u \in ObjectsIn(queues[queue[u]])
    /\ pendingAddition[u] <=> u \in ToSet(toAdd)
    /\ queue[u] # 0 \/ pendingAddition[u] => isUpdating[u]
    /\ isUpdating[u] => queue[u] # 0 \/ pendingAddition[u] \/ running = u
    /\ ~(queue[u] # 0 /\ pendingAddition[u])
    /\ running = u => queue[u] = 0 /\ ~pendingAddition[u]

\* The places that know about a subscription always agree.  stopUpdating()
\* trusts queue, iter and pendingAddition when it decides where to remove the
\* object from, and popFront() hands out whatever object it finds.
ScheduleConsistent ==
    /\ NodesDesignated
    /\ \A u \in Updateables : Alive(u) => Placed(u)

\* Both queues stay sorted, which is what lets update() look at their fronts
\* only, although objects are removed from and inserted into them anywhere.
QueuesSorted ==
    \A k \in Queues : IsSorted(queues[k], LAMBDA d, e : d.endAt <= e.endAt)

\* The assertions update() makes about the fronts of its queues before it
\* computes the wait, wrap-around or not: nothing in the active queue is
\* overdue, everything in the inactive queue is due after the next wrap.
FrontAssertions ==
    phase = "addAfter" /\ toAdd = << >> =>
        IF queues[activeQueue] # << >>
        THEN curTime <= Head(queues[activeQueue]).endAt
        ELSE queues[inactiveQueue] # << >> =>
                 curTime > Head(queues[inactiveQueue]).endAt

Called(u) == running # u /\ running' = u

\* stopUpdating(): "After calling this method there will be no updates done."
NoUpdateAfterStop ==
    [][\A u \in Updateables : Called(u) => isUpdating[u]]_vars

\* How much longer than a period a wait may be: the thread was busy while the
\* wait was computed, or the wait is the least one.
Oversleep == Max({MaxBusy, MinWait - 1})

\* The wait update() returns never lets a subscriber oversleep: a period is
\* exceeded at most by the time the UI thread is busy before the call, and by
\* either the time it was busy in the last update() or the least wait.
NeverLate ==
    \A u \in Updateables :
        Alive(u) /\ isUpdating[u] => age[u] <= dt[u] + Oversleep + MaxBusy

\* A subscribed object is eventually called, unless it unsubscribes or dies.
EventuallyCalled ==
    \A u \in Updateables :
        Alive(u) /\ isUpdating[u] ~> ~Alive(u) \/ ~isUpdating[u] \/ running = u

-----------------------------------------------------------------------------
(* What the scheduler promises: see PeriodicTimers *)

\* The clock does not make a full turn between two updates with a period on
\* top: no period is longer than longest, no wait longer than wait.
ClockIsSlow(longest, wait) ==
    /\ \A period \in Periods : period <= longest
    /\ longest <= wait /\ MinWait <= wait /\ MaxIdle <= wait
    /\ InitialTicks \subseteq 0 .. MaxBusy + wait
    /\ longest + wait + 2 * MaxBusy < Modulus
    /\ longest + Oversleep + MaxBusy <= MaxAge

Status == [u \in Updateables |->
    IF ~Alive(u) \/ ~isUpdating[u] THEN "off"
    ELSE IF running = u THEN "firing" ELSE "armed"]

Timers == INSTANCE PeriodicTimers WITH
    Clients <- Updateables, status <- Status, period <- dt, elapsed <- age

ImplementsTimers == Timers!Spec
=============================================================================
