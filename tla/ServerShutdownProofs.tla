------------------------- MODULE ServerShutdownProofs -------------------------
(***************************************************************************)
(* The stream counters and the answer of a drain, for any number of        *)
(* connections and streams and any limit of permits.                       *)
(*                                                                         *)
(* CountersTrackStreams is inductive together with the types; its proof    *)
(* counts: a step adds one stream to the active ones, takes one away, or   *)
(* leaves them as they are.  DrainAnswerBounded is not inductive: that the *)
(* poll ends with its answer, so that no later snapshot raises snap, has   *)
(* to be added, and the inequality between the counters it stands for.     *)
(***************************************************************************)
EXTENDS ServerShutdown, FiniteSetTheorems, TLAPS

\* Once the drain has answered true the poll is over and the counter of
\* closed streams has reached the snapshot of the opened ones.
AnswerFinal ==
    drained => /\ service \in {"joining", "returned", "endpoint_closed"}
               /\ snap <= closed

IInv ==
    /\ TypeOK
    /\ CountersTrackStreams
    /\ AnswerFinal

-----------------------------------------------------------------------------
(* The active streams are finitely many, and their number is a natural.    *)
LEMMA ActiveFinite ==
    /\ IsFiniteSet(ActiveStreams)
    /\ Cardinality(ActiveStreams) \in Nat
  <1>1. ActiveStreams \subseteq Stream
    BY DEF ActiveStreams
  <1> QED
    BY <1>1, ConstantsAssumption, FS_Subset, FS_CardinalityType

(* A stream that becomes active adds one to their number.                  *)
LEMMA OneMoreActive ==
    ASSUME NEW s \in Stream, ~Active(s), ActiveStreams' = ActiveStreams \union {s}
    PROVE  Cardinality(ActiveStreams') = Cardinality(ActiveStreams) + 1
  <1>1. s \notin ActiveStreams
    BY DEF ActiveStreams
  <1> QED
    BY <1>1, ActiveFinite, FS_AddElement

(* A stream that ends takes one away, and there was one to take.           *)
LEMMA OneLessActive ==
    ASSUME NEW s \in Stream, Active(s), ActiveStreams' = ActiveStreams \ {s}
    PROVE  /\ Cardinality(ActiveStreams) > 0
           /\ Cardinality(ActiveStreams') = Cardinality(ActiveStreams) - 1
  <1>1. s \in ActiveStreams
    BY DEF ActiveStreams
  <1>2. Cardinality(ActiveStreams \ {s}) = Cardinality(ActiveStreams) - 1
    BY <1>1, ActiveFinite, FS_RemoveElement
  <1>3. Cardinality(ActiveStreams \ {s}) \in Nat
    BY ActiveFinite, FS_RemoveElement, FS_CardinalityType
  <1> QED
    BY <1>2, <1>3, ActiveFinite

(* The initial state satisfies the inductive invariant.                    *)
LEMMA InitIInv == Init => IInv
  <1> SUFFICES ASSUME Init PROVE IInv
    OBVIOUS
  <1> USE ConstantsAssumption DEF Init
  <1>1. TypeOK
    <2>1. /\ accepting \in BOOLEAN /\ deadline \in BOOLEAN /\ drained \in BOOLEAN
          /\ alive \in [Conn -> BOOLEAN] /\ cancelled \in [Conn -> BOOLEAN]
      OBVIOUS
    <2> QED
      BY <2>1 DEF TypeOK, Phase
  <1>2. CountersTrackStreams
    <2>1. ActiveStreams = {}
      BY DEF ActiveStreams, Active
    <2> QED
      BY <2>1, FS_EmptySet DEF CountersTrackStreams
  <1>3. AnswerFinal
    BY DEF AnswerFinal
  <1> QED
    BY <1>1, <1>2, <1>3 DEF IInv

(* A step that changes the phase of a stream keeps the invariant: the      *)
(* counters move with the set of active streams (stream.rs 56-97).         *)
LEMMA StreamStepIInv ==
    ASSUME IInv, NEW s \in Stream, StreamStep(s)
    PROVE  IInv'
  <1> USE ConstantsAssumption
      DEF IInv, TypeOK, CountersTrackStreams, AnswerFinal, Phase, Step, metrics, call
  <1>1. ASSUME ~Active(s), ~Active(s)', opened' = opened, closed' = closed,
               phase' = [phase EXCEPT ![s] = phase'[s]], phase'[s] \in Phase,
               UNCHANGED <<alive, cancelled, call>>
        PROVE  IInv'
    <2>1. ActiveStreams' = ActiveStreams
      BY <1>1 DEF ActiveStreams, Active
    <2> QED
      BY <1>1, <2>1
  <1>2. ASSUME Active(s), Active(s)', opened' = opened, closed' = closed,
               phase' = [phase EXCEPT ![s] = phase'[s]], phase'[s] \in Phase,
               UNCHANGED <<alive, cancelled, call>>
        PROVE  IInv'
    <2>1. ActiveStreams' = ActiveStreams
      BY <1>2 DEF ActiveStreams, Active
    <2> QED
      BY <1>2, <2>1
  <1>3. ASSUME ~Active(s), Active(s)', opened' = opened + 1, closed' = closed,
               phase' = [phase EXCEPT ![s] = phase'[s]], phase'[s] \in Phase,
               UNCHANGED <<alive, cancelled, call>>
        PROVE  IInv'
    <2>1. ActiveStreams' = ActiveStreams \union {s}
      BY <1>3 DEF ActiveStreams, Active
    <2>2. Cardinality(ActiveStreams') = Cardinality(ActiveStreams) + 1
      BY <1>3, <2>1, OneMoreActive
    <2> QED
      BY <1>3, <2>2, ActiveFinite
  <1>4. ASSUME Active(s), ~Active(s)', opened' = opened, closed' = closed + 1,
               phase' = [phase EXCEPT ![s] = phase'[s]], phase'[s] \in Phase,
               UNCHANGED <<alive, cancelled, call>>
        PROVE  IInv'
    <2>1. ActiveStreams' = ActiveStreams \ {s}
      BY <1>4 DEF ActiveStreams, Active
    <2>2. /\ Cardinality(ActiveStreams) > 0
          /\ Cardinality(ActiveStreams') = Cardinality(ActiveStreams) - 1
      BY <1>4, <2>1, OneLessActive
    <2> QED
      BY <1>4, <2>2, ActiveFinite
  <1>5. CASE AcceptStream(s)
    BY <1>1, <1>5 DEF AcceptStream, Active
  <1>6. CASE AcquirePermit(s)
    BY <1>3, <1>6 DEF AcquirePermit, Active
  <1>7. CASE ReadConnect(s)
    BY <1>2, <1>7 DEF ReadConnect, Active
  <1>8. CASE ConnectOk(s) \/ ConnectFails(s)
    BY <1>2, <1>8 DEF ConnectOk, ConnectFails, Active
  <1>9. CASE SendConnectOk(s) \/ WriteLeftover(s)
    BY <1>2, <1>9 DEF SendConnectOk, WriteLeftover, Active
  <1>10. CASE StreamEnds(s)
    BY <1>4, <1>10 DEF StreamEnds, Active
  <1>11. CASE StreamFails(s)
    BY <1>4, <1>11 DEF StreamFails, Active
  <1> QED
    BY <1>5, <1>6, <1>7, <1>8, <1>9, <1>10, <1>11 DEF StreamStep

(* A step of a connection or of the service leaves the streams alone.      *)
LEMMA ServiceStepIInv ==
    ASSUME IInv,
           \/ \E c \in Conn : ConnectionLost(c) \/ CancelToken(c)
           \/ Shutdown \/ ShutdownWithDrain \/ AcceptLoopStops \/ Poll \/ DeadlinePasses
           \/ Return \/ EndpointCloses
    PROVE  IInv'
  <1> USE DEF IInv, TypeOK, CountersTrackStreams, AnswerFinal, metrics, call
  <1>1. UNCHANGED <<phase, opened, closed>>
    BY DEF ConnectionLost, CancelToken, Shutdown, ShutdownWithDrain, AcceptLoopStops,
           Poll, LoadOpened, LoadClosedDrained, LoadClosedTimeout, LoadClosedAgain,
           DeadlinePasses, Return, EndpointCloses
  <1>2. CountersTrackStreams'
    <2>1. ActiveStreams' = ActiveStreams
      BY <1>1 DEF ActiveStreams, Active
    <2> QED
      BY <1>1, <2>1
  <1>3. CASE \E c \in Conn : ConnectionLost(c) \/ CancelToken(c)
    BY <1>2, <1>3 DEF ConnectionLost, CancelToken
  <1>4. CASE Shutdown \/ ShutdownWithDrain \/ AcceptLoopStops
    <2>1. accepting' \in BOOLEAN
      BY <1>4 DEF Shutdown, ShutdownWithDrain, AcceptLoopStops
    <2> QED
      BY <1>2, <1>4, <2>1 DEF Shutdown, ShutdownWithDrain, AcceptLoopStops
  <1>5. CASE LoadOpened
    BY <1>2, <1>5 DEF LoadOpened
  <1>6. CASE LoadClosedDrained
    <2>1. snap <= closed
      BY <1>6 DEF LoadClosedDrained, ActiveInSnapshot
    <2> QED
      BY <1>2, <1>6, <2>1 DEF LoadClosedDrained
  <1>7. CASE LoadClosedTimeout \/ LoadClosedAgain
    BY <1>2, <1>7 DEF LoadClosedTimeout, LoadClosedAgain
  <1>8. CASE DeadlinePasses \/ Return \/ EndpointCloses
    <2>1. deadline' \in BOOLEAN /\ alive' \in [Conn -> BOOLEAN]
      BY <1>8 DEF DeadlinePasses, Return, EndpointCloses
    <2> QED
      BY <1>2, <1>8, <2>1 DEF DeadlinePasses, Return, EndpointCloses
  <1> QED
    BY <1>3, <1>4, <1>5, <1>6, <1>7, <1>8 DEF Poll

-----------------------------------------------------------------------------
(* IInv is an inductive invariant of the server's streams and its          *)
(* shutdown, for any number of streams (stream.rs 56-97, service.rs        *)
(* 173-228).                                                               *)
THEOREM Invariance == Spec => []IInv
  <1>1. IInv /\ [Next]_vars => IInv'
    <2> SUFFICES ASSUME IInv, [Next]_vars PROVE IInv'
      OBVIOUS
    <2>1. CASE \E s \in Stream : StreamStep(s)
      BY <2>1, StreamStepIInv
    <2>2. CASE UNCHANGED vars
      BY <2>2 DEF vars, metrics, call, IInv, TypeOK, CountersTrackStreams, AnswerFinal,
                  ActiveStreams, Active
    <2> QED
      BY <2>1, <2>2, ServiceStepIInv DEF Next
  <1> QED
    BY <1>1, InitIInv, PTL DEF Spec

(* The streams, the counters and the call have their types: in particular  *)
(* no more streams are ever counted closed than opened, so that the        *)
(* saturating subtraction of the drain never hides a wrong count.          *)
THEOREM TypeCorrect == Spec => []TypeOK
  BY Invariance, PTL DEF IInv

(* streams_opened and streams_closed differ by exactly the number of       *)
(* stream tasks that hold a permit, on every path a stream ends by         *)
(* (stream.rs 56-97).                                                      *)
THEOREM CountersExact == Spec => []CountersTrackStreams
  BY Invariance, PTL DEF IInv

(* A drain that answers true is wrong by no more than the streams opened   *)
(* after its snapshot, then and for ever after (service.rs 203-209,        *)
(* metrics.rs 75-95).                                                      *)
THEOREM DrainAnswer == Spec => []DrainAnswerBounded
  <1>1. IInv => DrainAnswerBounded
    BY ActiveFinite DEF IInv, TypeOK, CountersTrackStreams, AnswerFinal, DrainAnswerBounded
  <1> QED
    BY <1>1, Invariance, PTL
=============================================================================
