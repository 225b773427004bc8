----------------------------- MODULE UdpDispatcher -----------------------------
(***************************************************************************)
(* The client's UDP sessions and the task that feeds them.                 *)
(*                                                                         *)
(* crates/ombrac-client/src/connection/datagram.rs and client.rs: one      *)
(* dispatcher task reads datagrams from the tunnel and forwards each to    *)
(* the bounded channel of its session, found in the DashMap dispatch_map.  *)
(* dispatch keeps the map's read guard while it waits for channel space.   *)
(* Dropping a UdpSession runs Drop::drop (unregister, which takes the      *)
(* shard's write lock) before the receiver field is dropped.               *)
(*                                                                         *)
(* A datagram is only counted: its content and source address play no part *)
(* in the control.  Session ids are never reused (session_id_counter).     *)
(***************************************************************************)
EXTENDS Integers

CONSTANTS Sessions,       \* bound: number of sessions ever opened
          Shard,          \* the DashMap shard of each session id
          ChannelSize,    \* UDP_SESSION_CHANNEL_BUFFER_SIZE
          MaxArrivals,    \* bound: datagrams that arrive for one session
          InitialDelay,   \* DATAGRAM_INITIAL_DELAY
          MaxDelay        \* DATAGRAM_MAX_DELAY

Session == 1..Sessions

ASSUME ConstantsAssumption ==
    /\ Sessions \in Nat
    /\ ChannelSize \in Nat \ {0}
    /\ MaxArrivals \in Nat
    /\ InitialDelay \in Nat \ {0}
    /\ MaxDelay \in Nat
    /\ InitialDelay <= MaxDelay

VARIABLES
    session_id_counter,  \* Client: the next session id
    dispatch_map,        \* keys of the DashMap
    session,             \* life of each UdpSession
    queued,              \* datagrams in the session's channel
    arrived,             \* datagrams the server sent to the session
    pc,                  \* where UdpDispatcher::run stands
    target,              \* the session dispatch is sending to
    current_delay,
    shutdown             \* shutdown_token is cancelled

run == <<pc, target, current_delay>>
vars == <<session_id_counter, dispatch_map, session, queued, arrived, run, shutdown>>

Life == {"unopened", "open", "dropping", "unregistered", "closed"}

\* dispatch holds a read guard on the shard of its target while it sends.
ShardLocked(s) == pc = "sending" /\ Shard[target] = Shard[s]

-----------------------------------------------------------------------------
Init ==
    /\ session_id_counter = 1
    /\ dispatch_map = {}
    /\ session = [s \in Session |-> "unopened"]
    /\ queued = [s \in Session |-> 0]
    /\ arrived = [s \in Session |-> 0]
    /\ pc = "reading"
    /\ target = 0
    /\ current_delay = InitialDelay
    /\ shutdown = FALSE

(***************************************************************************)
(* Client::open_associate and register_session: the insert needs the       *)
(* shard's write lock.                                                     *)
(***************************************************************************)
OpenAssociate(s) ==
    /\ ~shutdown
    /\ s = session_id_counter
    /\ ~ShardLocked(s)
    /\ session_id_counter' = s + 1
    /\ dispatch_map' = dispatch_map \union {s}
    /\ session' = [session EXCEPT ![s] = "open"]
    /\ UNCHANGED <<queued, arrived, run, shutdown>>

\* UdpSession::recv_from.
RecvFrom(s) ==
    /\ session[s] = "open"
    /\ queued[s] > 0
    /\ queued' = [queued EXCEPT ![s] = @ - 1]
    /\ UNCHANGED <<session_id_counter, dispatch_map, session, arrived, run, shutdown>>

(***************************************************************************)
(* Dropping a UdpSession: Drop::drop removes the entry, blocking its       *)
(* thread on the shard's write lock; the receiver goes afterwards.         *)
(***************************************************************************)
DropSession(s) ==
    /\ session[s] = "open"
    /\ session' = [session EXCEPT ![s] = "dropping"]
    /\ UNCHANGED <<session_id_counter, dispatch_map, queued, arrived, run, shutdown>>

\* Mutant: the write lock is taken although dispatch holds its guard.
UnregisterIgnoresGuard(s) ==
    /\ session[s] = "dropping"
    /\ dispatch_map' = dispatch_map \ {s}
    /\ session' = [session EXCEPT ![s] = "unregistered"]
    /\ UNCHANGED <<session_id_counter, queued, arrived, run, shutdown>>

\* Mutant: the entry stays in the map.
UnregisterForgets(s) ==
    /\ session[s] = "dropping"
    /\ ~ShardLocked(s)
    /\ session' = [session EXCEPT ![s] = "unregistered"]
    /\ UNCHANGED <<session_id_counter, dispatch_map, queued, arrived, run, shutdown>>

\* Mutant: the drop waits until the channel has been read empty.
UnregisterAwaitsDrain(s) ==
    /\ session[s] = "dropping"
    /\ ~ShardLocked(s)
    /\ queued[s] = 0
    /\ dispatch_map' = dispatch_map \ {s}
    /\ session' = [session EXCEPT ![s] = "unregistered"]
    /\ UNCHANGED <<session_id_counter, queued, arrived, run, shutdown>>

UnregisterSession(s) ==
    /\ session[s] = "dropping"
    /\ ~ShardLocked(s)
    /\ dispatch_map' = dispatch_map \ {s}
    /\ session' = [session EXCEPT ![s] = "unregistered"]
    /\ UNCHANGED <<session_id_counter, queued, arrived, run, shutdown>>

DropReceiver(s) ==
    /\ session[s] = "unregistered"
    /\ session' = [session EXCEPT ![s] = "closed"]
    /\ queued' = [queued EXCEPT ![s] = 0]
    /\ UNCHANGED <<session_id_counter, dispatch_map, arrived, run, shutdown>>

(***************************************************************************)
(* UdpDispatcher::run.  A datagram may arrive for any session the server   *)
(* has heard of, closed ones included.  Neither the sleep nor dispatch is  *)
(* a branch of the select, so the shutdown token interrupts only the read. *)
(***************************************************************************)
Arrives(s) ==
    /\ pc = "reading"
    /\ session[s] # "unopened"
    /\ arrived[s] < MaxArrivals
    /\ arrived' = [arrived EXCEPT ![s] = @ + 1]
    /\ current_delay' = InitialDelay
    /\ UNCHANGED <<session_id_counter, dispatch_map, session, queued, shutdown>>

\* dispatch finds the sender and keeps the guard.
DispatchFound(s) ==
    /\ Arrives(s)
    /\ s \in dispatch_map
    /\ pc' = "sending"
    /\ target' = s

\* "received datagram for unknown or closed session"
DispatchUnknown(s) ==
    /\ Arrives(s)
    /\ s \notin dispatch_map
    /\ UNCHANGED <<pc, target>>

\* tx.send(..).await completes once the channel has room; the guard is released.
\* ReceiverOutlivesSend shows that the error branch (receiver gone) is not reached.
DispatchSent ==
    /\ pc = "sending"
    /\ queued[target] < ChannelSize
    /\ queued' = [queued EXCEPT ![target] = @ + 1]
    /\ pc' = "reading"
    /\ target' = 0
    /\ UNCHANGED <<session_id_counter, dispatch_map, session, arrived, current_delay, shutdown>>

ReadFails ==
    /\ pc = "reading"
    /\ pc' = "sleeping"
    /\ UNCHANGED <<session_id_counter, dispatch_map, session, queued, arrived, target,
                   current_delay, shutdown>>

Wake ==
    /\ pc = "sleeping"
    /\ pc' = "reading"
    /\ current_delay' = IF 2 * current_delay < MaxDelay THEN 2 * current_delay ELSE MaxDelay
    /\ UNCHANGED <<session_id_counter, dispatch_map, session, queued, arrived, target, shutdown>>

\* impl Drop for Client.
DropClient ==
    /\ ~shutdown
    /\ shutdown' = TRUE
    /\ UNCHANGED <<session_id_counter, dispatch_map, session, queued, arrived, run>>

\* Mutant: the token is looked at only when no delay is pending.
StopFirstOnly ==
    /\ pc = "reading"
    /\ shutdown
    /\ current_delay = InitialDelay
    /\ pc' = "stopped"
    /\ UNCHANGED <<session_id_counter, dispatch_map, session, queued, arrived, target,
                   current_delay, shutdown>>

Stop ==
    /\ pc = "reading"
    /\ shutdown
    /\ pc' = "stopped"
    /\ UNCHANGED <<session_id_counter, dispatch_map, session, queued, arrived, target,
                   current_delay, shutdown>>

SessionStep(s) ==
    \/ OpenAssociate(s) \/ RecvFrom(s)
    \/ DropSession(s) \/ UnregisterSession(s) \/ DropReceiver(s)

Next ==
    \/ \E s \in Session : SessionStep(s) \/ DispatchFound(s) \/ DispatchUnknown(s)
    \/ DispatchSent \/ ReadFails \/ Wake \/ DropClient \/ Stop

Spec == Init /\ [][Next]_vars

(***************************************************************************)
(* Fairness: the runtime polls ready tasks; the select picks the cancelled *)
(* token with positive probability whenever it is ready (SF); an open      *)
(* session's owner drains its channel; a lock that keeps being free is     *)
(* obtained (SF).  Nothing makes an owner drop its session.                *)
(***************************************************************************)
FairSpec ==
    /\ Spec
    /\ WF_vars(DispatchSent) /\ WF_vars(Wake) /\ SF_vars(Stop)
    /\ \A s \in Session :
          /\ WF_vars(RecvFrom(s))
          /\ SF_vars(UnregisterSession(s))
          /\ WF_vars(DropReceiver(s))

-----------------------------------------------------------------------------
TypeOK ==
    /\ session_id_counter \in 1..(Sessions + 1)
    /\ dispatch_map \subseteq Session
    /\ session \in [Session -> Life]
    /\ queued \in [Session -> 0..ChannelSize]
    /\ arrived \in [Session -> 0..MaxArrivals]
    /\ pc \in {"reading", "sending", "sleeping", "stopped"}
    /\ target \in 0..Sessions
    /\ current_delay \in InitialDelay..MaxDelay
    /\ shutdown \in BOOLEAN

(* The map holds exactly the sessions whose Drop has not run yet: nothing  *)
(* leaks and no live session is unreachable (datagram.rs 111-121, 248-252).*)
MapTracksSessions ==
    dispatch_map = {s \in Session : session[s] \in {"open", "dropping"}}

(* The receiver of the session dispatch sends to is alive for as long as   *)
(* the send takes: the guard keeps the entry, and the entry goes before    *)
(* the receiver.  So the error branch of dispatch, which would remove the  *)
(* entry under its own read guard, is never taken (datagram.rs 96-103).    *)
ReceiverOutlivesSend ==
    pc = "sending" => session[target] \in {"open", "dropping"}

(* Drop of a UdpSession completes (datagram.rs 249-250: "When a session is *)
(* dropped, remove its dispatcher from the map").                          *)
DropCompletes == \A s \in Session : session[s] = "dropping" ~> session[s] = "closed"

\* dispatch waits for room in the channel of a session that is being dropped.
Wedged ==
    /\ pc = "sending"
    /\ session[target] = "dropping"
    /\ queued[target] = ChannelSize

(* The one thing that keeps the drop of a UdpSession from completing is a  *)
(* send to the full channel of a session that is itself being dropped: no  *)
(* other datagram, session of the shard or failed read does (datagram.rs   *)
(* 94-121, 248-252).                                                       *)
DropCompletesUnlessWedged ==
    \A s \in Session : session[s] = "dropping" ~> session[s] = "closed" \/ Wedged

(* Dropping the client stops the dispatcher, from whatever it was doing    *)
(* but such a send (client.rs 136-140, datagram.rs 64-68).                 *)
ShutdownStops == shutdown ~> pc = "stopped" \/ Wedged
=============================================================================
