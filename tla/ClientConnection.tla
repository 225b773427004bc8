--------------------------- MODULE ClientConnection ---------------------------
(***************************************************************************)
(* The client's single tunnel connection and its repair.                   *)
(*                                                                         *)
(* crates/ombrac-client/src/connection/mod.rs: every task that opens a     *)
(* stream or moves a datagram runs its operation through with_retry, which *)
(* loads the shared connection, loads its id, runs the operation, and on a *)
(* connection error calls reconnect and runs the operation once more.      *)
(* reconnect serialises dialling with a mutex, skips when the id moved on, *)
(* throttles with a jittered exponential backoff, rebinds the socket and   *)
(* authenticates a fresh connection.                                       *)
(*                                                                         *)
(* Connections are numbered in the order they are stored in the ArcSwap;   *)
(* number 0 is the one ClientConnection::new authenticated.  Steps are cut *)
(* at every await and between the two atomic accesses of one task that     *)
(* another task can separate (load/load at 270-271, store/add at 349-350). *)
(***************************************************************************)
EXTENDS Integers

CONSTANTS Task,            \* the tasks that share the ClientConnection
          Dispatcher,      \* the task of UdpDispatcher::run, the only one that is cancelled
          NoTask,          \* value of the mutex when it is free
          InitialBackoff,  \* INITIAL_RECONNECT_BACKOFF in clock ticks
          MaxBackoff,      \* MAX_RECONNECT_BACKOFF in clock ticks
          MaxDeaths,       \* bound: connections numbered below it may die
          MaxFails         \* bound: how many reconnect attempts fail

ASSUME ConstantsAssumption ==
    /\ Dispatcher \in Task
    /\ NoTask \notin Task
    /\ InitialBackoff \in Nat \ {0}
    /\ MaxBackoff \in Nat
    /\ MaxBackoff >= 2 * InitialBackoff
    /\ MaxDeaths \in Nat
    /\ MaxFails \in Nat

VARIABLES
    connection,     \* ArcSwap<C>: number of the connection stored last
    connection_id,  \* AtomicU64
    lost,           \* dead connections whose operations fail with a kind is_connection_error accepts
    broken,         \* dead connections whose operations fail with kind Other
    lock,           \* holder of reconnect_lock
    last_attempt,   \* ReconnectState.last_attempt is Some
    elapsed,        \* ticks since last_attempt, saturating at MaxBackoff
    backoff,        \* ReconnectState.backoff
    attempts,       \* metrics.reconnect_attempts
    succeeded,      \* metrics.reconnect_succeeded
    fails,          \* attempts that ended in an error (bounded by MaxFails)
    pc,             \* where each task stands in with_retry / reconnect
    conn,           \* the task's local `connection`
    old_conn_id,    \* the task's local `old_conn_id`
    new_connection  \* the task's local `new_connection`

shared == <<connection, connection_id>>
throttle == <<last_attempt, elapsed, backoff>>
metrics == <<attempts, succeeded, fails>>
health == <<lost, broken>>
locals == <<conn, old_conn_id, new_connection>>
vars == <<shared, health, lock, throttle, metrics, pc, locals>>

PC == {"idle", "loaded", "operation", "lock", "throttled", "rebind",
       "authenticate", "stored", "reload", "retry", "stopped"}

Dead == lost \union broken

(***************************************************************************)
(* next_backoff: double, cap, multiply by a jitter in [0.8, 1.2), cap.     *)
(***************************************************************************)
Doubled(b) == IF 2 * b < MaxBackoff THEN 2 * b ELSE MaxBackoff

NextBackoff(b) ==
    {x \in 0..MaxBackoff : 8 * Doubled(b) <= 10 * x /\ 10 * x < 12 * Doubled(b)}

-----------------------------------------------------------------------------
Init ==
    /\ connection = 0
    /\ connection_id = 0
    /\ lost = {}
    /\ broken = {}
    /\ lock = NoTask
    /\ last_attempt = FALSE
    /\ elapsed = 0
    /\ backoff = InitialBackoff
    /\ attempts = 0
    /\ succeeded = 0
    /\ fails = 0
    /\ pc = [t \in Task |-> "idle"]
    /\ conn = [t \in Task |-> 0]
    /\ old_conn_id = [t \in Task |-> 0]
    /\ new_connection = [t \in Task |-> 0]

Goto(t, from, to) == pc[t] = from /\ pc' = [pc EXCEPT ![t] = to]

\* The locals go out of scope when with_retry returns or its future is dropped.
DropLocals(t) ==
    /\ conn' = [conn EXCEPT ![t] = 0]
    /\ old_conn_id' = [old_conn_id EXCEPT ![t] = 0]
    /\ new_connection' = [new_connection EXCEPT ![t] = 0]

(***************************************************************************)
(* with_retry                                                              *)
(***************************************************************************)
LoadConnection(t) ==
    /\ Goto(t, "idle", "loaded")
    /\ conn' = [conn EXCEPT ![t] = connection]
    /\ UNCHANGED <<shared, health, lock, throttle, metrics, old_conn_id, new_connection>>

LoadConnectionId(t) ==
    /\ Goto(t, "loaded", "operation")
    /\ old_conn_id' = [old_conn_id EXCEPT ![t] = connection_id]
    /\ UNCHANGED <<shared, health, lock, throttle, metrics, conn, new_connection>>

\* is_connection_error holds of the operation's error.  send_datagram reports every
\* loss as ConnectionReset; the dispatcher only reads.
ReportsLoss(t) ==
    \/ conn[t] \in lost
    \/ t # Dispatcher /\ conn[t] \in broken

\* Ok, or an error that is_connection_error rejects (Other, a datagram too large).
OperationReturns(t) ==
    /\ Goto(t, "operation", "idle")
    /\ conn[t] \notin lost
    /\ DropLocals(t)
    /\ UNCHANGED <<shared, health, lock, throttle, metrics>>

OperationConnectionError(t) ==
    /\ Goto(t, "operation", "lock")
    /\ ReportsLoss(t)
    /\ UNCHANGED <<shared, health, lock, throttle, metrics, locals>>

LoadNewConnection(t) ==
    /\ Goto(t, "reload", "retry")
    /\ new_connection' = [new_connection EXCEPT ![t] = connection]
    /\ UNCHANGED <<shared, health, lock, throttle, metrics, conn, old_conn_id>>

\* The retry's result is returned whatever it is.
RetryReturns(t) ==
    /\ Goto(t, "retry", "idle")
    /\ DropLocals(t)
    /\ UNCHANGED <<shared, health, lock, throttle, metrics>>

(***************************************************************************)
(* reconnect.  The lock, the id comparison and the throttle test form one  *)
(* step: everything they read is written only under the lock.              *)
(***************************************************************************)
\* Mutant: reconnect reports success without comparing ids.
AlreadyReconnectedUnchecked(t) ==
    /\ Goto(t, "lock", "reload")
    /\ lock = NoTask
    /\ UNCHANGED <<shared, health, lock, throttle, metrics, locals>>

AlreadyReconnected(t) ==
    /\ Goto(t, "lock", "reload")
    /\ lock = NoTask
    /\ connection_id # old_conn_id[t]
    /\ UNCHANGED <<shared, health, lock, throttle, metrics, locals>>

\* Mutant: the task sleeps with the guard and forgets it.
ThrottleKeepsLock(t) ==
    /\ Goto(t, "lock", "throttled")
    /\ lock = NoTask
    /\ connection_id = old_conn_id[t]
    /\ last_attempt
    /\ elapsed < backoff
    /\ lock' = t
    /\ UNCHANGED <<shared, health, throttle, metrics, locals>>

\* The guard is dropped before the sleep.
Throttle(t) ==
    /\ Goto(t, "lock", "throttled")
    /\ lock = NoTask
    /\ connection_id = old_conn_id[t]
    /\ last_attempt
    /\ elapsed < backoff
    /\ UNCHANGED <<shared, health, lock, throttle, metrics, locals>>

ThrottledReturns(t) ==
    /\ Goto(t, "throttled", "idle")
    /\ DropLocals(t)
    /\ UNCHANGED <<shared, health, lock, throttle, metrics>>

\* Mutant: the guard is dropped before dialling.
StartAttemptUnlocked(t) ==
    /\ Goto(t, "lock", "rebind")
    /\ lock = NoTask
    /\ connection_id = old_conn_id[t]
    /\ last_attempt => elapsed >= backoff
    /\ last_attempt' = TRUE
    /\ elapsed' = 0
    /\ attempts' = attempts + 1
    /\ UNCHANGED <<shared, health, lock, backoff, succeeded, fails, locals>>

\* Mutant: the throttle is not consulted.
StartAttemptUnthrottled(t) ==
    /\ Goto(t, "lock", "rebind")
    /\ lock = NoTask
    /\ connection_id = old_conn_id[t]
    /\ lock' = t
    /\ last_attempt' = TRUE
    /\ elapsed' = 0
    /\ attempts' = attempts + 1
    /\ UNCHANGED <<shared, health, backoff, succeeded, fails, locals>>

StartAttempt(t) ==
    /\ Goto(t, "lock", "rebind")
    /\ lock = NoTask
    /\ connection_id = old_conn_id[t]
    /\ last_attempt => elapsed >= backoff
    /\ lock' = t
    /\ last_attempt' = TRUE
    /\ elapsed' = 0
    /\ attempts' = attempts + 1
    /\ UNCHANGED <<shared, health, backoff, succeeded, fails, locals>>

RebindOk(t) ==
    /\ Goto(t, "rebind", "authenticate")
    /\ UNCHANGED <<shared, health, lock, throttle, metrics, locals>>

\* Mutant: an error path that leaks the guard.
AttemptFailsKeepsLock(t) ==
    /\ pc[t] \in {"rebind", "authenticate"}
    /\ pc' = [pc EXCEPT ![t] = "idle"]
    /\ fails < MaxFails
    /\ fails' = fails + 1
    /\ backoff' \in NextBackoff(backoff)
    /\ DropLocals(t)
    /\ UNCHANGED <<shared, health, lock, last_attempt, elapsed, attempts, succeeded>>

\* rebind failed, or authenticate returned an error or hit AUTH_TIMEOUT.
AttemptFails(t) ==
    /\ pc[t] \in {"rebind", "authenticate"}
    /\ pc' = [pc EXCEPT ![t] = "idle"]
    /\ fails < MaxFails
    /\ fails' = fails + 1
    /\ backoff' \in NextBackoff(backoff)
    /\ lock' = NoTask
    /\ DropLocals(t)
    /\ UNCHANGED <<shared, health, last_attempt, elapsed, attempts, succeeded>>

\* Mutant: success does not reset the backoff.
AuthenticateOkKeepsBackoff(t) ==
    /\ Goto(t, "authenticate", "stored")
    /\ last_attempt' = FALSE
    /\ elapsed' = 0
    /\ connection' = connection + 1
    /\ UNCHANGED <<connection_id, health, lock, backoff, metrics, locals>>

\* authenticate returned a connection: reset the throttle, store the connection.
AuthenticateOk(t) ==
    /\ Goto(t, "authenticate", "stored")
    /\ backoff' = InitialBackoff
    /\ last_attempt' = FALSE
    /\ elapsed' = 0
    /\ connection' = connection + 1
    /\ UNCHANGED <<connection_id, health, lock, metrics, locals>>

\* fetch_add on connection_id, the counter, and the release of the lock.
PublishConnectionId(t) ==
    /\ Goto(t, "stored", "reload")
    /\ connection_id' = connection_id + 1
    /\ succeeded' = succeeded + 1
    /\ lock' = NoTask
    /\ UNCHANGED <<connection, health, throttle, attempts, fails, locals>>

(***************************************************************************)
(* UdpDispatcher::run drops its with_retry future when the client is       *)
(* dropped.  A future can be dropped only where it awaits; the mutex guard *)
(* it owns is dropped with it.  Client::rebind has no suspension point.    *)
(***************************************************************************)
\* Mutant: an await between the store and the fetch_add.
CancelAfterStore ==
    /\ pc[Dispatcher] \in {"operation", "lock", "throttled", "authenticate", "stored", "retry"}
    /\ pc' = [pc EXCEPT ![Dispatcher] = "stopped"]
    /\ lock' = IF lock = Dispatcher THEN NoTask ELSE lock
    /\ DropLocals(Dispatcher)
    /\ UNCHANGED <<shared, health, throttle, metrics>>

Cancel ==
    /\ pc[Dispatcher] \in {"operation", "lock", "throttled", "authenticate", "retry"}
    /\ pc' = [pc EXCEPT ![Dispatcher] = "stopped"]
    /\ lock' = IF lock = Dispatcher THEN NoTask ELSE lock
    /\ DropLocals(Dispatcher)
    /\ UNCHANGED <<shared, health, throttle, metrics>>

(***************************************************************************)
(* Environment: time, and the death of a connection.  The transport maps a *)
(* close, a reset or a timeout to a kind is_connection_error accepts and   *)
(* every other connection error to Other.                                  *)
(***************************************************************************)
Tick ==
    /\ last_attempt
    /\ elapsed < MaxBackoff
    /\ elapsed' = elapsed + 1
    /\ UNCHANGED <<shared, health, lock, last_attempt, backoff, metrics, pc, locals>>

ConnectionReset(c) ==
    /\ lost' = lost \union {c}
    /\ UNCHANGED broken

ConnectionOtherError(c) ==
    /\ broken' = broken \union {c}
    /\ UNCHANGED lost

\* Bound: connections below MaxDeaths may die.
ConnectionDies ==
    /\ \E c \in 0..connection :
          /\ c < MaxDeaths
          /\ c \notin Dead
          /\ ConnectionReset(c) \/ ConnectionOtherError(c)
    /\ UNCHANGED <<shared, lock, throttle, metrics, pc, locals>>

-----------------------------------------------------------------------------
TaskStep(t) ==
    \/ LoadConnection(t) \/ LoadConnectionId(t)
    \/ OperationReturns(t) \/ OperationConnectionError(t)
    \/ AlreadyReconnected(t) \/ Throttle(t) \/ ThrottledReturns(t)
    \/ StartAttempt(t) \/ RebindOk(t) \/ AttemptFails(t)
    \/ AuthenticateOk(t) \/ PublishConnectionId(t)
    \/ LoadNewConnection(t) \/ RetryReturns(t)

Next == Tick \/ ConnectionDies \/ Cancel \/ \E t \in Task : TaskStep(t)

Spec == Init /\ [][Next]_vars

(***************************************************************************)
(* Fairness.  The runtime polls every task that can run (WF), tokio's      *)
(* Mutex queues its waiters (SF on entering reconnect), authenticate is    *)
(* bounded by AUTH_TIMEOUT so an attempt ends one way or the other, and    *)
(* an operation on a lost connection returns.  Traffic continues: every    *)
(* task calls with_retry again.  A stream open or a datagram send returns; *)
(* the dispatcher's read on a live connection need not.                    *)
(***************************************************************************)
EnterReconnect(t) == AlreadyReconnected(t) \/ Throttle(t) \/ StartAttempt(t)

Progress(t) ==
    \/ LoadConnection(t) \/ LoadConnectionId(t) \/ OperationConnectionError(t)
    \/ ThrottledReturns(t) \/ RebindOk(t) \/ AttemptFails(t) \/ AuthenticateOk(t)
    \/ PublishConnectionId(t) \/ LoadNewConnection(t)
    \/ new_connection[t] \in Dead /\ RetryReturns(t)

CallReturns(t) == OperationReturns(t) \/ RetryReturns(t)

FairSpec ==
    /\ Spec
    /\ WF_vars(Tick)
    /\ \A t \in Task : WF_vars(Progress(t)) /\ SF_vars(EnterReconnect(t))
    /\ \A t \in Task \ {Dispatcher} : WF_vars(CallReturns(t))

-----------------------------------------------------------------------------
TypeOK ==
    /\ connection \in Nat
    /\ connection_id \in Nat
    /\ lost \subseteq Nat
    /\ broken \subseteq Nat
    /\ lock \in Task \union {NoTask}
    /\ last_attempt \in BOOLEAN
    /\ elapsed \in 0..MaxBackoff
    /\ backoff \in 0..MaxBackoff
    /\ attempts \in Nat
    /\ succeeded \in Nat
    /\ fails \in 0..MaxFails
    /\ pc \in [Task -> PC]
    /\ conn \in [Task -> Nat]
    /\ old_conn_id \in [Task -> Nat]
    /\ new_connection \in [Task -> Nat]

Dialling(t) == pc[t] \in {"rebind", "authenticate", "stored"}

(* The mutex of reconnect: two tasks never dial or install a connection    *)
(* at the same time, on whatever path (success, error, cancellation) the   *)
(* previous one left.  Doc comment of reconnect, mod.rs 295.               *)
OneDialler == \A t, u \in Task : Dialling(t) /\ Dialling(u) => t = u

(* The id counts the installed connections: it differs from the number of  *)
(* the stored connection only between the store and the fetch_add of the   *)
(* task that installs one (mod.rs 349-350), by exactly one, and the        *)
(* success counter agrees with it.                                         *)
IdCountsConnections ==
    /\ connection_id = succeeded
    /\ connection = connection_id + (IF \E t \in Task : pc[t] = "stored" THEN 1 ELSE 0)

(* The retry of with_retry never goes back to an older connection than the *)
(* one whose operation failed, and repeats the failed one only if the      *)
(* task read it before its id was published (mod.rs 270-271, 285-287).     *)
RetryAdvances ==
    \A t \in Task : pc[t] = "retry" =>
        \/ new_connection[t] > conn[t]
        \/ new_connection[t] = conn[t] /\ conn[t] = old_conn_id[t] + 1

(* ReconnectState stays coherent over success, failure and cancellation:   *)
(* the backoff is within its bounds, it is back at its initial value when  *)
(* no attempt is remembered, and an attempt in flight is always remembered *)
(* (mod.rs 314-366).                                                       *)
ThrottleCoherent ==
    /\ backoff >= InitialBackoff
    /\ ~last_attempt => backoff = InitialBackoff
    /\ \A t \in Task : pc[t] \in {"rebind", "authenticate"} => last_attempt

(* After an attempt that did not succeed the next one starts at least      *)
(* INITIAL_RECONNECT_BACKOFF later, whichever task makes it: the jitter of *)
(* next_backoff never shortens the wait below it (mod.rs 59-64, 315-326).  *)
AttemptsSpaced ==
    [][attempts' # attempts /\ last_attempt => elapsed >= InitialBackoff]_vars

(* A lost connection is replaced as long as tasks keep using it, over      *)
(* failed attempts, throttled calls and torn reads of connection and id.   *)
LostConnectionReplaced ==
    \A c \in 0..MaxDeaths : connection = c /\ c \in lost ~> connection # c

(* A task that waits in reconnect gets an answer: the mutex is released on *)
(* every path, the throttled path included (mod.rs 304-368).               *)
ReconnectAnswers ==
    \A t \in Task : pc[t] = "lock" ~> pc[t] \in {"idle", "reload", "stopped"}

(* Doc of reconnect (mod.rs 296): "If another task has already reconnected *)
(* this function returns immediately", that is, a dialling task replaces   *)
(* the connection it saw fail and no later one.                            *)
DialReplacesFailedConnection ==
    \A t \in Task : pc[t] \in {"rebind", "authenticate"} => connection = conn[t]
=============================================================================
