------------------------ MODULE ClientConnectionProofs ------------------------
(***************************************************************************)
(* Safety of the reconnect protocol of ClientConnection, for every set of  *)
(* tasks and every value of the bounds.                                    *)
(*                                                                         *)
(* OneDialler, IdCountsConnections, RetryAdvances and ThrottleCoherent are *)
(* not inductive: they rest on who holds the mutex and on how far a task's *)
(* local copies may lag behind the shared pair (connection,                *)
(* connection_id).  IInv adds both.                                        *)
(***************************************************************************)
EXTENDS ClientConnection, TLAPS

\* The mutex is held exactly by the task that dials.
LockHeld == \A t \in Task : Dialling(t) <=> lock = t

\* Past the second load the task's connection is at most one ahead of its id
\* (it may be any number behind), and the id is not from the future.
Loaded == {"operation", "lock", "throttled", "rebind", "authenticate",
           "stored", "reload", "retry"}

LocalsLag ==
    \A t \in Task :
        /\ pc[t] = "loaded" => conn[t] <= connection
        /\ pc[t] \in Loaded => /\ conn[t] <= old_conn_id[t] + 1
                               /\ old_conn_id[t] <= connection_id
        /\ Dialling(t) => old_conn_id[t] = connection_id
        /\ pc[t] = "reload" => old_conn_id[t] < connection_id
        /\ pc[t] = "retry" => old_conn_id[t] < new_connection[t]

IInv ==
    /\ TypeOK
    /\ LockHeld
    /\ IdCountsConnections
    /\ LocalsLag
    /\ ThrottleCoherent

-----------------------------------------------------------------------------
(* The jitter of next_backoff keeps the backoff within its bounds and      *)
(* never brings it below INITIAL_RECONNECT_BACKOFF.                        *)
LEMMA NextBackoffBounds ==
    ASSUME NEW b \in InitialBackoff..MaxBackoff, NEW x \in NextBackoff(b)
    PROVE  x \in InitialBackoff..MaxBackoff
  BY ConstantsAssumption DEF NextBackoff, Doubled

(* The initial backoff is one of the values the backoff may take.          *)
LEMMA InitialBackoffBounds == InitialBackoff \in 0..MaxBackoff
  BY ConstantsAssumption

(* The initial state satisfies the inductive invariant.                    *)
LEMMA InitIInv == Init => IInv
  <1> SUFFICES ASSUME Init PROVE IInv
    OBVIOUS
  <1> USE ConstantsAssumption DEF Init
  <1>1. TypeOK
    <2>1. last_attempt \in BOOLEAN
      OBVIOUS
    <2>2. backoff \in 0..MaxBackoff
      BY InitialBackoffBounds
    <2> QED
      BY <2>1, <2>2 DEF TypeOK, PC
  <1>2. LockHeld
    BY DEF LockHeld, Dialling
  <1>3. IdCountsConnections
    BY DEF IdCountsConnections
  <1>4. LocalsLag
    BY DEF LocalsLag, Loaded, Dialling
  <1>5. ThrottleCoherent
    BY DEF ThrottleCoherent
  <1> QED
    BY <1>1, <1>2, <1>3, <1>4, <1>5 DEF IInv

(* Every step keeps the types.                                             *)
LEMMA NextTypeOK ==
    ASSUME TypeOK, ThrottleCoherent, [Next]_vars
    PROVE  TypeOK'
  <1> USE ConstantsAssumption DEF TypeOK, PC, Goto, shared, throttle, metrics, health, locals
  <1>1. CASE Tick
    BY <1>1 DEF Tick
  <1>2. CASE ConnectionDies
    <2>1. lost' \subseteq Nat /\ broken' \subseteq Nat
      <3>1. PICK c \in 0..connection : ConnectionReset(c) \/ ConnectionOtherError(c)
        BY <1>2 DEF ConnectionDies
      <3>2. c \in Nat
        BY <3>1
      <3> QED
        BY <3>1, <3>2 DEF ConnectionReset, ConnectionOtherError
    <2> QED
      BY <1>2, <2>1 DEF ConnectionDies
  <1>3. CASE Cancel
    BY <1>3 DEF Cancel, DropLocals
  <1>4. ASSUME NEW t \in Task, TaskStep(t)
        PROVE  TypeOK'
    <2>1. CASE LoadConnection(t)
      BY <2>1 DEF LoadConnection
    <2>2. CASE LoadConnectionId(t)
      BY <2>2 DEF LoadConnectionId
    <2>3. CASE OperationReturns(t)
      BY <2>3 DEF OperationReturns, DropLocals
    <2>4. CASE OperationConnectionError(t)
      BY <2>4 DEF OperationConnectionError
    <2>5. CASE AlreadyReconnected(t)
      BY <2>5 DEF AlreadyReconnected
    <2>6. CASE Throttle(t)
      BY <2>6 DEF Throttle
    <2>7. CASE ThrottledReturns(t)
      BY <2>7 DEF ThrottledReturns, DropLocals
    <2>8. CASE StartAttempt(t)
      BY <2>8 DEF StartAttempt
    <2>9. CASE RebindOk(t)
      BY <2>9 DEF RebindOk
    <2>10. CASE AttemptFails(t)
      <3>1. backoff' \in 0..MaxBackoff
        BY <2>10 DEF AttemptFails, NextBackoff
      <3> QED
        BY <2>10, <3>1 DEF AttemptFails, DropLocals
    <2>11. CASE AuthenticateOk(t)
      <3>1. last_attempt' \in BOOLEAN
        BY <2>11 DEF AuthenticateOk
      <3>2. backoff' \in 0..MaxBackoff
        BY <2>11, InitialBackoffBounds DEF AuthenticateOk
      <3> QED
        BY <2>11, <3>1, <3>2 DEF AuthenticateOk
    <2>12. CASE PublishConnectionId(t)
      BY <2>12 DEF PublishConnectionId
    <2>13. CASE LoadNewConnection(t)
      BY <2>13 DEF LoadNewConnection
    <2>14. CASE RetryReturns(t)
      BY <2>14 DEF RetryReturns, DropLocals
    <2> QED
      BY <1>4, <2>1, <2>2, <2>3, <2>4, <2>5, <2>6, <2>7, <2>8, <2>9, <2>10, <2>11,
         <2>12, <2>13, <2>14 DEF TaskStep
  <1>5. CASE UNCHANGED vars
    BY <1>5 DEF vars
  <1> QED
    BY <1>1, <1>2, <1>3, <1>4, <1>5 DEF Next

(* Every step keeps the mutex with the dialling task.                      *)
LEMMA NextLockHeld ==
    ASSUME TypeOK, LockHeld, [Next]_vars
    PROVE  LockHeld'
  <1> USE ConstantsAssumption DEF TypeOK, PC, Goto, LockHeld, Dialling, shared, throttle, metrics, health, locals
  <1>1. CASE Tick
    BY <1>1 DEF Tick
  <1>2. CASE ConnectionDies
    BY <1>2 DEF ConnectionDies, ConnectionReset, ConnectionOtherError
  <1>3. CASE Cancel
    BY <1>3 DEF Cancel, DropLocals
  <1>4. ASSUME NEW u \in Task, TaskStep(u)
        PROVE  LockHeld'
    <2>1. CASE LoadConnection(u)
      BY <2>1 DEF LoadConnection
    <2>2. CASE LoadConnectionId(u)
      BY <2>2 DEF LoadConnectionId
    <2>3. CASE OperationReturns(u)
      BY <2>3 DEF OperationReturns, DropLocals
    <2>4. CASE OperationConnectionError(u)
      BY <2>4 DEF OperationConnectionError
    <2>5. CASE AlreadyReconnected(u)
      BY <2>5 DEF AlreadyReconnected
    <2>6. CASE Throttle(u)
      BY <2>6 DEF Throttle
    <2>7. CASE ThrottledReturns(u)
      BY <2>7 DEF ThrottledReturns, DropLocals
    <2>8. CASE StartAttempt(u)
      BY <2>8 DEF StartAttempt
    <2>9. CASE RebindOk(u)
      BY <2>9 DEF RebindOk
    <2>10. CASE AttemptFails(u)
      BY <2>10 DEF AttemptFails, DropLocals
    <2>11. CASE AuthenticateOk(u)
      BY <2>11 DEF AuthenticateOk
    <2>12. CASE PublishConnectionId(u)
      BY <2>12 DEF PublishConnectionId
    <2>13. CASE LoadNewConnection(u)
      BY <2>13 DEF LoadNewConnection
    <2>14. CASE RetryReturns(u)
      BY <2>14 DEF RetryReturns, DropLocals
    <2> QED
      BY <1>4, <2>1, <2>2, <2>3, <2>4, <2>5, <2>6, <2>7, <2>8, <2>9, <2>10, <2>11,
         <2>12, <2>13, <2>14 DEF TaskStep
  <1>5. CASE UNCHANGED vars
    BY <1>5 DEF vars
  <1> QED
    BY <1>1, <1>2, <1>3, <1>4, <1>5 DEF Next

(* Every step keeps the id equal to the number of published connections.   *)
LEMMA NextIdCounts ==
    ASSUME TypeOK, LockHeld, IdCountsConnections, [Next]_vars
    PROVE  IdCountsConnections'
  <1> USE ConstantsAssumption DEF TypeOK, PC, Goto, LockHeld, Dialling, IdCountsConnections, shared, throttle, metrics, health, locals
  <1>1. CASE Tick
    BY <1>1 DEF Tick
  <1>2. CASE ConnectionDies
    BY <1>2 DEF ConnectionDies, ConnectionReset, ConnectionOtherError
  <1>3. CASE Cancel
    BY <1>3 DEF Cancel, DropLocals
  <1>4. ASSUME NEW u \in Task, TaskStep(u)
        PROVE  IdCountsConnections'
    <2>1. CASE LoadConnection(u)
      BY <2>1 DEF LoadConnection
    <2>2. CASE LoadConnectionId(u)
      BY <2>2 DEF LoadConnectionId
    <2>3. CASE OperationReturns(u)
      BY <2>3 DEF OperationReturns, DropLocals
    <2>4. CASE OperationConnectionError(u)
      BY <2>4 DEF OperationConnectionError
    <2>5. CASE AlreadyReconnected(u)
      BY <2>5 DEF AlreadyReconnected
    <2>6. CASE Throttle(u)
      BY <2>6 DEF Throttle
    <2>7. CASE ThrottledReturns(u)
      BY <2>7 DEF ThrottledReturns, DropLocals
    <2>8. CASE StartAttempt(u)
      BY <2>8 DEF StartAttempt
    <2>9. CASE RebindOk(u)
      BY <2>9 DEF RebindOk
    <2>10. CASE AttemptFails(u)
      BY <2>10 DEF AttemptFails, DropLocals
    <2>11. CASE AuthenticateOk(u)
      BY <2>11 DEF AuthenticateOk
    <2>12. CASE PublishConnectionId(u)
      BY <2>12 DEF PublishConnectionId
    <2>13. CASE LoadNewConnection(u)
      BY <2>13 DEF LoadNewConnection
    <2>14. CASE RetryReturns(u)
      BY <2>14 DEF RetryReturns, DropLocals
    <2> QED
      BY <1>4, <2>1, <2>2, <2>3, <2>4, <2>5, <2>6, <2>7, <2>8, <2>9, <2>10, <2>11,
         <2>12, <2>13, <2>14 DEF TaskStep
  <1>5. CASE UNCHANGED vars
    BY <1>5 DEF vars
  <1> QED
    BY <1>1, <1>2, <1>3, <1>4, <1>5 DEF Next

(* Every step keeps the bounds on how far a task's copies lag.             *)
LEMMA NextLocalsLag ==
    ASSUME TypeOK, LockHeld, IdCountsConnections, LocalsLag, [Next]_vars
    PROVE  LocalsLag'
  <1> USE ConstantsAssumption DEF TypeOK, PC, Goto, Loaded, LockHeld, Dialling, IdCountsConnections, LocalsLag, shared, throttle, metrics, health, locals
  <1>1. CASE Tick
    BY <1>1 DEF Tick
  <1>2. CASE ConnectionDies
    BY <1>2 DEF ConnectionDies, ConnectionReset, ConnectionOtherError
  <1>3. CASE Cancel
    BY <1>3 DEF Cancel, DropLocals
  <1>4. ASSUME NEW u \in Task, TaskStep(u)
        PROVE  LocalsLag'
    <2>1. CASE LoadConnection(u)
      BY <2>1 DEF LoadConnection
    <2>2. CASE LoadConnectionId(u)
      BY <2>2 DEF LoadConnectionId
    <2>3. CASE OperationReturns(u)
      BY <2>3 DEF OperationReturns, DropLocals
    <2>4. CASE OperationConnectionError(u)
      BY <2>4 DEF OperationConnectionError
    <2>5. CASE AlreadyReconnected(u)
      BY <2>5 DEF AlreadyReconnected
    <2>6. CASE Throttle(u)
      BY <2>6 DEF Throttle
    <2>7. CASE ThrottledReturns(u)
      BY <2>7 DEF ThrottledReturns, DropLocals
    <2>8. CASE StartAttempt(u)
      BY <2>8 DEF StartAttempt
    <2>9. CASE RebindOk(u)
      BY <2>9 DEF RebindOk
    <2>10. CASE AttemptFails(u)
      BY <2>10 DEF AttemptFails, DropLocals
    <2>11. CASE AuthenticateOk(u)
      BY <2>11 DEF AuthenticateOk
    <2>12. CASE PublishConnectionId(u)
      BY <2>12 DEF PublishConnectionId
    <2>13. CASE LoadNewConnection(u)
      BY <2>13 DEF LoadNewConnection
    <2>14. CASE RetryReturns(u)
      BY <2>14 DEF RetryReturns, DropLocals
    <2> QED
      BY <1>4, <2>1, <2>2, <2>3, <2>4, <2>5, <2>6, <2>7, <2>8, <2>9, <2>10, <2>11,
         <2>12, <2>13, <2>14 DEF TaskStep
  <1>5. CASE UNCHANGED vars
    BY <1>5 DEF vars
  <1> QED
    BY <1>1, <1>2, <1>3, <1>4, <1>5 DEF Next

(* Every step keeps the throttle coherent.                                 *)
LEMMA NextThrottleCoherent ==
    ASSUME TypeOK, LockHeld, ThrottleCoherent, [Next]_vars
    PROVE  ThrottleCoherent'
  <1> USE ConstantsAssumption DEF TypeOK, PC, Goto, LockHeld, Dialling, ThrottleCoherent, shared, throttle, metrics, health, locals
  <1>1. CASE Tick
    BY <1>1 DEF Tick
  <1>2. CASE ConnectionDies
    BY <1>2 DEF ConnectionDies, ConnectionReset, ConnectionOtherError
  <1>3. CASE Cancel
    BY <1>3 DEF Cancel, DropLocals
  <1>4. ASSUME NEW u \in Task, TaskStep(u)
        PROVE  ThrottleCoherent'
    <2>1. CASE LoadConnection(u)
      BY <2>1 DEF LoadConnection
    <2>2. CASE LoadConnectionId(u)
      BY <2>2 DEF LoadConnectionId
    <2>3. CASE OperationReturns(u)
      BY <2>3 DEF OperationReturns, DropLocals
    <2>4. CASE OperationConnectionError(u)
      BY <2>4 DEF OperationConnectionError
    <2>5. CASE AlreadyReconnected(u)
      BY <2>5 DEF AlreadyReconnected
    <2>6. CASE Throttle(u)
      BY <2>6 DEF Throttle
    <2>7. CASE ThrottledReturns(u)
      BY <2>7 DEF ThrottledReturns, DropLocals
    <2>8. CASE StartAttempt(u)
      BY <2>8 DEF StartAttempt
    <2>9. CASE RebindOk(u)
      BY <2>9 DEF RebindOk
    <2>10. CASE AttemptFails(u)
      <3>1. backoff' >= InitialBackoff
        BY <2>10, NextBackoffBounds DEF AttemptFails
      <3>2. last_attempt /\ last_attempt' = last_attempt
        BY <2>10 DEF AttemptFails
      <3> QED
        BY <2>10, <3>1, <3>2 DEF AttemptFails
    <2>11. CASE AuthenticateOk(u)
      BY <2>11 DEF AuthenticateOk
    <2>12. CASE PublishConnectionId(u)
      BY <2>12 DEF PublishConnectionId
    <2>13. CASE LoadNewConnection(u)
      BY <2>13 DEF LoadNewConnection
    <2>14. CASE RetryReturns(u)
      BY <2>14 DEF RetryReturns, DropLocals
    <2> QED
      BY <1>4, <2>1, <2>2, <2>3, <2>4, <2>5, <2>6, <2>7, <2>8, <2>9, <2>10, <2>11,
         <2>12, <2>13, <2>14 DEF TaskStep
  <1>5. CASE UNCHANGED vars
    BY <1>5 DEF vars
  <1> QED
    BY <1>1, <1>2, <1>3, <1>4, <1>5 DEF Next

(* IInv is an inductive invariant of the specification.                    *)
THEOREM Invariance == Spec => []IInv
  <1>1. IInv /\ [Next]_vars => IInv'
    BY NextTypeOK, NextLockHeld, NextIdCounts, NextLocalsLag, NextThrottleCoherent DEF IInv
  <1> QED
    BY InitIInv, <1>1, PTL DEF Spec

(* Type correctness of the client connection.                              *)
THEOREM TypeCorrect == Spec => []TypeOK
  BY Invariance, PTL DEF IInv

(* reconnect's mutex: at most one task dials, on every path it is left by. *)
THEOREM MutualExclusion == Spec => []OneDialler
  <1>1. IInv => OneDialler
    BY DEF IInv, LockHeld, OneDialler
  <1> QED
    BY Invariance, <1>1, PTL

(* The published id counts the installed connections.                      *)
THEOREM IdAgreement == Spec => []IdCountsConnections
  BY Invariance, PTL DEF IInv

(* The retry of with_retry never uses an older connection than the failed  *)
(* one, and the same one only after a torn read.                           *)
THEOREM RetryProgress == Spec => []RetryAdvances
  <1>1. IInv => RetryAdvances
    BY DEF IInv, TypeOK, LocalsLag, Loaded, RetryAdvances
  <1> QED
    BY Invariance, <1>1, PTL

(* The throttle's two fields agree on every path through reconnect.        *)
THEOREM ThrottleAgreement == Spec => []ThrottleCoherent
  BY Invariance, PTL DEF IInv

(* Unsuccessful attempts are at least INITIAL_RECONNECT_BACKOFF apart.     *)
THEOREM Spacing == Spec => AttemptsSpaced
  <1>1. IInv /\ [Next]_vars =>
            [attempts' # attempts /\ last_attempt => elapsed >= InitialBackoff]_vars
    <2> SUFFICES ASSUME IInv, Next, attempts' # attempts, last_attempt
                 PROVE  elapsed >= InitialBackoff
      OBVIOUS
    <2>1. PICK t \in Task : StartAttempt(t)
      BY DEF Next, Tick, ConnectionDies, Cancel, TaskStep, LoadConnection, LoadConnectionId,
             OperationReturns, OperationConnectionError, AlreadyReconnected, Throttle,
             ThrottledReturns, RebindOk, AttemptFails, AuthenticateOk, PublishConnectionId,
             LoadNewConnection, RetryReturns, metrics
    <2>2. elapsed >= backoff /\ backoff >= InitialBackoff
      BY <2>1 DEF StartAttempt, IInv, ThrottleCoherent
    <2> QED
      BY <2>2, ConstantsAssumption DEF IInv, TypeOK
  <1> QED
    BY Invariance, <1>1, PTL DEF Spec, AttemptsSpaced
=============================================================================
