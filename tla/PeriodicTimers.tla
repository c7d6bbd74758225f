--------------------------- MODULE PeriodicTimers ---------------------------
(***************************************************************************)
(* What morda's Updater promises to the objects that subscribe to it: a    *)
(* set of independent periodic timers.  There is no queue, no pending list *)
(* and no clock value here, only the time each timer has been armed for.   *)
(***************************************************************************)
EXTENDS Naturals

CONSTANTS Clients, Periods

VARIABLES
    status,     \* "off", "armed", or "firing" while the client's call runs
    period,     \* the period each client asked for
    elapsed     \* time since each armed timer was armed

vars == <<status, period, elapsed>>

Init ==
    /\ status = [c \in Clients |-> "off"]
    /\ period = [c \in Clients |-> 0]
    /\ elapsed = [c \in Clients |-> 0]

Start(c) ==
    /\ status[c] = "off"
    /\ status' = [status EXCEPT ![c] = "armed"]
    /\ \E p \in Periods : period' = [period EXCEPT ![c] = p]
    /\ elapsed' = [elapsed EXCEPT ![c] = 0]

\* Also when the client dies, and within the client's own call.
Stop(c) ==
    /\ status[c] # "off"
    /\ status' = [status EXCEPT ![c] = "off"]
    /\ UNCHANGED <<period, elapsed>>

\* A timer fires only while it is armed and only when its period is over.
Fire(c) ==
    /\ status[c] = "armed" /\ elapsed[c] >= period[c]
    /\ \A d \in Clients : status[d] # "firing"
    /\ status' = [status EXCEPT ![c] = "firing"]
    /\ UNCHANGED <<period, elapsed>>

\* When the call returns the timer is armed again, and its next period began
\* no earlier than the last one and no later than now.
Rearm(c) ==
    /\ status[c] = "firing"
    /\ status' = [status EXCEPT ![c] = "armed"]
    /\ \E t \in 0 .. elapsed[c] : elapsed' = [elapsed EXCEPT ![c] = t]
    /\ UNCHANGED period

Advance ==
    /\ elapsed' = [c \in Clients |->
                      IF status[c] = "off" THEN 0 ELSE elapsed[c] + 1]
    /\ UNCHANGED <<status, period>>

Next ==
    \/ \E c \in Clients : Start(c) \/ Stop(c) \/ Fire(c) \/ Rearm(c)
    \/ Advance

Spec == Init /\ [][Next]_vars
=============================================================================
