-------------------------- MODULE ClientServiceProofs --------------------------
(***************************************************************************)
(* The services behind the C interface, for any number of host threads,    *)
(* endpoints and services.                                                 *)
(*                                                                         *)
(* NoOrphanService is not inductive: a call that returns gives up the      *)
(* service it has in hand, so the invariant has to say that this service   *)
(* is stored, dropped or joined by then, that no other call has the same   *)
(* one, and which task holds an address.  IInv says so, one conjunct each. *)
(***************************************************************************)
EXTENDS ClientService, TLAPS

\* The numbers above services are not in use yet.
Fresh ==
    \A i \in Service :
        i > services =>
            /\ SERVICE_HANDLE # i /\ ~InHand(i) /\ ~signal[i]
            /\ \A e \in Endpoint : task[i][e] = "none" /\ i \notin port[e]

\* Where a call may and where it must have a service in hand.
HandsHold ==
    \A t \in Thread :
        /\ call[t] \in {"idle", "log", "build", "rebind"} => mine[t] = None
        /\ call[t] \in {"store", "drop", "join"} => mine[t] \in Service

\* A service is in the hands of one call at most, and then it is not stored.
OneHolder ==
    /\ \A t, u \in Thread : mine[t] # None /\ mine[t] = mine[u] => t = u
    /\ \A t \in Thread : mine[t] # None => SERVICE_HANDLE # mine[t]

\* An address or a device belongs to the services whose task has bound it and
\* not ended; an address to one at most.
PortsBound ==
    /\ \A i \in Service, e \in Endpoint :
          i \in port[e] <=> task[i][e] \in {"run", "stuck"}
    /\ \A e \in Endpoint \ {"tun"} : \A i, j \in port[e] : i = j

\* A service that is stored, or about to be, has a running runtime and has not
\* been told to stop.
StoredRuns ==
    /\ \A i \in Service : SERVICE_HANDLE = i => runtime[i] = "up" /\ ~signal[i]
    /\ \A t \in Thread : call[t] = "store" => runtime[mine[t]] = "up" /\ ~signal[mine[t]]

\* A shutdown that has joined the tasks has only the log left to do.
JoinedDone ==
    \A t \in Thread :
        call[t] = "unlog" /\ mine[t] # None =>
            \A e \in Endpoint : task[mine[t]][e] = "done"

IInv ==
    /\ TypeOK
    /\ Fresh
    /\ HandsHold
    /\ OneHolder
    /\ PortsBound
    /\ StoredRuns
    /\ JoinedDone
    /\ NoOrphanService

-----------------------------------------------------------------------------
(* None is no service, and the services are numbered.                      *)
LEMMA NoneIsNoService == None \notin Service /\ Service \subseteq Nat
  BY ServiceAssumption DEF None, Service

(* The initial state satisfies the inductive invariant.                    *)
LEMMA InitIInv == Init => IInv
  <1> SUFFICES ASSUME Init PROVE IInv
    OBVIOUS
  <1> USE ServiceAssumption, NoneIsNoService DEF Init
  <1>1. TypeOK
    <2>1. /\ tracing \in BOOLEAN /\ subscriber \in BOOLEAN
          /\ signal \in [Service -> BOOLEAN] /\ connections \in [Service -> BOOLEAN]
      OBVIOUS
    <2>2. task \in [Service -> [Endpoint -> {"none", "starting", "run", "stuck", "done"}]]
      OBVIOUS
    <2> QED
      BY <2>1, <2>2 DEF TypeOK
  <1>2. Fresh /\ HandsHold /\ OneHolder
    BY DEF Fresh, HandsHold, OneHolder, InHand
  <1>3. PortsBound /\ StoredRuns /\ JoinedDone
    BY DEF PortsBound, StoredRuns, JoinedDone
  <1>4. NoOrphanService
    BY DEF NoOrphanService
  <1> QED
    BY <1>1, <1>2, <1>3, <1>4 DEF IInv

(* Every step keeps the types.                                             *)
LEMMA NextTypeOK ==
    ASSUME TypeOK, HandsHold, [Next]_vars
    PROVE  TypeOK'
  <1> USE ServiceAssumption, NoneIsNoService DEF TypeOK, config, logging, calls, tasks
  <1>1. ASSUME NEW t \in Thread, Startup(t) \/ Rebind(t)
        PROVE  TypeOK'
    BY <1>1 DEF Startup, Rebind, Returns, Goes
  <1>2. ASSUME NEW t \in Thread, Shutdown(t)
        PROVE  TypeOK'
    <2>1. signal' \in [Service -> BOOLEAN]
      BY <1>2 DEF Shutdown
    <2> QED
      BY <1>2, <2>1 DEF Shutdown
  <1>3. ASSUME NEW t \in Thread, CallStep(t)
        PROVE  TypeOK'
    <2>1. CASE InitLogging(t)
      <3>1. subscriber' \in BOOLEAN /\ LOG_GUARD' \in {"none", "held", "poisoned"}
        BY <2>1 DEF InitLogging
      <3>2. /\ call' \in [Thread -> {"idle", "log", "build", "store", "drop", "rebind",
                                      "join", "unlog"}]
            /\ mine' \in [Thread -> Service \union {None}]
            /\ result' \in [Thread -> {"none", "ok", "failed", "panic"}]
        BY <2>1 DEF InitLogging, Returns, Goes
      <3> QED
        BY <2>1, <3>1, <3>2 DEF InitLogging
    <2>2. CASE BuildFails(t) \/ RebindReturns(t)
      BY <2>2 DEF BuildFails, RebindReturns, Returns
    <2>3. ASSUME NEW i \in Service, Build(t, i)
          PROVE  TypeOK'
      BY <2>3 DEF Build, Service
    <2>4. CASE Store(t)
      BY <2>4 DEF Store, Returns, Goes, HandsHold
    <2>5. CASE DropService(t)
      <3>1. mine[t] \in Service
        BY <2>5 DEF DropService, HandsHold
      <3>2. signal' \in [Service -> BOOLEAN] /\ connections' \in [Service -> BOOLEAN]
        BY <2>5, <3>1 DEF DropService
      <3>3. port' \in [Endpoint -> SUBSET Service]
        BY <2>5, <3>1 DEF DropService, TasksDropped
      <3>4. closed' \subseteq Service
        <4>1. tun_fd[mine[t]] \in Service
          BY <3>1
        <4> QED
          BY <2>5, <4>1 DEF DropService, TasksDropped
      <3>5. /\ task' \in [Service -> [Endpoint -> {"none", "starting", "run", "stuck", "done"}]]
            /\ runtime' \in [Service -> {"none", "up", "background", "down"}]
        BY <2>5, <3>1 DEF DropService, TasksDropped
      <3> QED
        BY <2>5, <3>1, <3>2, <3>3, <3>4, <3>5 DEF DropService, Returns
    <2>6. CASE Join(t)
      BY <2>6 DEF Join, Goes
    <2>7. CASE Unlog(t)
      BY <2>7 DEF Unlog, Returns
    <2> QED
      BY <1>3, <2>1, <2>2, <2>3, <2>4, <2>5, <2>6, <2>7 DEF CallStep
  <1>4. ASSUME NEW i \in Service, NEW e \in Endpoint, TaskStep(i, e)
        PROVE  TypeOK'
    <2>1. port' \in [Endpoint -> SUBSET Service]
      <3>1. port[e] \union {i} \in SUBSET Service /\ port[e] \ {i} \in SUBSET Service
        OBVIOUS
      <3> QED
        BY <1>4, <3>1 DEF TaskStep, Bind, EndpointEnds
    <2>2. closed' \subseteq Service
      <3>1. closed' = closed \/ closed' = closed \union {tun_fd[i]}
        BY <1>4 DEF TaskStep, Bind, EndpointEnds
      <3>2. tun_fd[i] \in Service
        OBVIOUS
      <3> QED
        BY <3>1, <3>2
    <2>3. task' \in [Service -> [Endpoint -> {"none", "starting", "run", "stuck", "done"}]]
      BY <1>4 DEF TaskStep, Bind, EndpointEnds
    <2> QED
      BY <1>4, <2>1, <2>2, <2>3 DEF TaskStep, Bind, EndpointEnds
  <1>5. ASSUME NEW i \in Service, ConnectionEnds(i) \/ (\E e \in Endpoint : Accept(i, e))
        PROVE  TypeOK'
    <2>1. connections' \in [Service -> BOOLEAN]
      BY <1>5 DEF ConnectionEnds, Accept
    <2> QED
      BY <1>5, <2>1 DEF ConnectionEnds, Accept
  <1>6. CASE UNCHANGED vars
    BY <1>6 DEF vars
  <1> QED
    BY <1>1, <1>2, <1>3, <1>4, <1>5, <1>6 DEF Next

(* The parts of a call that touch neither a service nor the handle.        *)
LEMMA CallIdleIInv ==
    ASSUME IInv, TypeOK', NEW t \in Thread, 
           Startup(t) \/ Rebind(t) \/ InitLogging(t) \/ BuildFails(t) \/ RebindReturns(t)
    PROVE  IInv'
  <1> USE ServiceAssumption, NoneIsNoService
      DEF IInv, TypeOK, Fresh, HandsHold, OneHolder, InHand, config, logging, calls, tasks
  <1>1. Fresh'
    BY DEF Startup, Rebind, InitLogging, BuildFails, RebindReturns, Returns, Goes
  <1>2. HandsHold'
    BY DEF Startup, Rebind, InitLogging, BuildFails, RebindReturns, Returns, Goes
  <1>3. OneHolder'
    BY DEF Startup, Rebind, InitLogging, BuildFails, RebindReturns, Returns, Goes
  <1>4. PortsBound'
    BY DEF PortsBound, Startup, Rebind, InitLogging, BuildFails, RebindReturns, Returns, Goes
  <1>5. StoredRuns'
    BY DEF StoredRuns, Startup, Rebind, InitLogging, BuildFails, RebindReturns, Returns, Goes
  <1>6. JoinedDone'
    <2>1. UNCHANGED task /\ call'[t] # "unlog"
      BY DEF Startup, Rebind, InitLogging, BuildFails, RebindReturns, Returns, Goes
    <2>2. \A u \in Thread : u # t => call'[u] = call[u] /\ mine'[u] = mine[u]
      BY DEF Startup, Rebind, InitLogging, BuildFails, RebindReturns, Returns, Goes
    <2> QED
      BY <2>1, <2>2 DEF JoinedDone
  <1>7. NoOrphanService'
    BY DEF NoOrphanService, Startup, Rebind, InitLogging, BuildFails, RebindReturns, Returns, Goes
  <1> QED
    BY <1>1, <1>2, <1>3, <1>4, <1>5, <1>6, <1>7

(* A new service gets the next number and is in the hands of its builder.  *)
LEMMA BuildIInv ==
    ASSUME IInv, TypeOK', NEW t \in Thread, NEW i \in Service, Build(t, i)
    PROVE  IInv'
  <1> USE ServiceAssumption, NoneIsNoService
      DEF IInv, TypeOK, Fresh, HandsHold, OneHolder, InHand, config, logging, calls, tasks
  <1>1. Fresh'
    BY DEF Build
  <1>2. HandsHold'
    BY DEF Build
  <1>3. OneHolder'
    BY DEF Build
  <1>4. PortsBound'
    BY DEF PortsBound, Build
  <1>5. StoredRuns'
    BY DEF StoredRuns, Build
  <1>6. JoinedDone'
    BY DEF JoinedDone, Build
  <1>7. NoOrphanService'
    BY DEF NoOrphanService, Build
  <1> QED
    BY <1>1, <1>2, <1>3, <1>4, <1>5, <1>6, <1>7

(* The service is stored, or kept in hand to be dropped (ffi.rs).          *)
LEMMA StoreIInv ==
    ASSUME IInv, TypeOK', NEW t \in Thread, Store(t)
    PROVE  IInv'
  <1> USE ServiceAssumption, NoneIsNoService
      DEF IInv, TypeOK, Fresh, HandsHold, OneHolder, InHand, config, logging, calls, tasks
  <1>1. Fresh'
    BY DEF Store, Returns, Goes
  <1>2. HandsHold'
    BY DEF Store, Returns, Goes
  <1>3. OneHolder'
    BY DEF Store, Returns, Goes
  <1>4. PortsBound'
    BY DEF PortsBound, Store, Returns, Goes
  <1>5. StoredRuns'
    BY DEF StoredRuns, Store, Returns, Goes
  <1>6. JoinedDone'
    BY DEF JoinedDone, Store, Returns, Goes
  <1>7. NoOrphanService'
    BY DEF NoOrphanService, Store, Returns, Goes
  <1> QED
    BY <1>1, <1>2, <1>3, <1>4, <1>5, <1>6, <1>7

(* A dropped service leaves no task and no address.                        *)
LEMMA DropServiceIInv ==
    ASSUME IInv, TypeOK', NEW t \in Thread, DropService(t)
    PROVE  IInv'
  <1> USE ServiceAssumption, NoneIsNoService
      DEF IInv, TypeOK, Fresh, HandsHold, OneHolder, InHand, config, logging, calls, tasks
  <1>1. Fresh'
    BY DEF DropService, TasksDropped, Returns
  <1>2. HandsHold'
    BY DEF DropService, TasksDropped, Returns
  <1>3. OneHolder'
    BY DEF DropService, TasksDropped, Returns
  <1>4. PortsBound'
    BY DEF PortsBound, DropService, TasksDropped, Returns
  <1>5. StoredRuns'
    BY DEF StoredRuns, DropService, TasksDropped, Returns
  <1>6. JoinedDone'
    BY DEF JoinedDone, DropService, TasksDropped, Returns
  <1>7. NoOrphanService'
    BY DEF NoOrphanService, DropService, TasksDropped, Returns
  <1> QED
    BY <1>1, <1>2, <1>3, <1>4, <1>5, <1>6, <1>7

(* The stored service passes into the hands of the shutdown.               *)
LEMMA ShutdownIInv ==
    ASSUME IInv, TypeOK', NEW t \in Thread, Shutdown(t)
    PROVE  IInv'
  <1> USE ServiceAssumption, NoneIsNoService
      DEF IInv, TypeOK, Fresh, HandsHold, OneHolder, InHand, config, logging, calls, tasks
  <1>1. Fresh'
    BY DEF Shutdown
  <1>2. HandsHold'
    BY DEF Shutdown
  <1>3. OneHolder'
    BY DEF Shutdown
  <1>4. PortsBound'
    BY DEF PortsBound, Shutdown
  <1>5. StoredRuns'
    BY DEF StoredRuns, Shutdown
  <1>6. JoinedDone'
    BY DEF JoinedDone, Shutdown
  <1>7. NoOrphanService'
    BY DEF NoOrphanService, Shutdown
  <1> QED
    BY <1>1, <1>2, <1>3, <1>4, <1>5, <1>6, <1>7

(* The joins are over when every endpoint task has ended.                  *)
LEMMA JoinIInv ==
    ASSUME IInv, TypeOK', NEW t \in Thread, Join(t)
    PROVE  IInv'
  <1> USE ServiceAssumption, NoneIsNoService
      DEF IInv, TypeOK, Fresh, HandsHold, OneHolder, InHand, config, logging, calls, tasks
  <1>1. Fresh'
    BY DEF Join, Goes
  <1>2. HandsHold'
    BY DEF Join, Goes
  <1>3. OneHolder'
    BY DEF Join, Goes
  <1>4. PortsBound'
    BY DEF PortsBound, Join, Goes
  <1>5. StoredRuns'
    BY DEF StoredRuns, Join, Goes
  <1>6. JoinedDone'
    BY DEF JoinedDone, Join, Goes
  <1>7. NoOrphanService'
    BY DEF NoOrphanService, Join, Goes
  <1> QED
    BY <1>1, <1>2, <1>3, <1>4, <1>5, <1>6, <1>7

(* The shutdown returns and gives up a service that has ended.             *)
LEMMA UnlogIInv ==
    ASSUME IInv, TypeOK', NEW t \in Thread, Unlog(t)
    PROVE  IInv'
  <1> USE ServiceAssumption, NoneIsNoService
      DEF IInv, TypeOK, Fresh, HandsHold, OneHolder, InHand, config, logging, calls, tasks
  <1>1. Fresh'
    BY DEF Unlog, Returns
  <1>2. HandsHold'
    BY DEF Unlog, Returns
  <1>3. OneHolder'
    BY DEF Unlog, Returns
  <1>4. PortsBound'
    BY DEF PortsBound, Unlog, Returns
  <1>5. StoredRuns'
    BY DEF StoredRuns, Unlog, Returns
  <1>6. JoinedDone'
    BY DEF JoinedDone, Unlog, Returns
  <1>7. NoOrphanService'
    <2> SUFFICES ASSUME NEW i \in Service, NEW e \in Endpoint,
                        task[i][e] \in {"starting", "run", "stuck"} \/ i \in port[e]
                 PROVE  SERVICE_HANDLE' = i \/ InHand(i)'
      BY DEF NoOrphanService, Unlog
    <2>1. task[i][e] \in {"starting", "run", "stuck"}
      BY DEF PortsBound
    <2>2. SERVICE_HANDLE = i \/ InHand(i)
      BY <2>1 DEF NoOrphanService
    <2>3. mine[t] # i
      BY <2>1 DEF JoinedDone, Unlog
    <2> QED
      BY <2>2, <2>3 DEF Unlog, Returns
  <1> QED
    BY <1>1, <1>2, <1>3, <1>4, <1>5, <1>6, <1>7

(* An endpoint task binds, fails to, or ends.                              *)
LEMMA TaskStepIInv ==
    ASSUME IInv, TypeOK', NEW i \in Service, NEW e \in Endpoint, TaskStep(i, e)
    PROVE  IInv'
  <1> USE ServiceAssumption, NoneIsNoService
      DEF IInv, TypeOK, Fresh, HandsHold, OneHolder, InHand, config, logging, calls, tasks
  <1>1. Fresh'
    BY DEF TaskStep, Bind, Available, EndpointEnds
  <1>2. HandsHold'
    BY DEF TaskStep, Bind, Available, EndpointEnds
  <1>3. OneHolder'
    BY DEF TaskStep, Bind, Available, EndpointEnds
  <1>4. PortsBound'
    BY DEF PortsBound, TaskStep, Bind, Available, EndpointEnds
  <1>5. StoredRuns'
    BY DEF StoredRuns, TaskStep, Bind, EndpointEnds
  <1>6. JoinedDone'
    <2>1. task[i][e] # "done"
      BY DEF TaskStep, Bind, Available, EndpointEnds
    <2>2. \A j \in Service, f \in Endpoint : j # i \/ f # e => task'[j][f] = task[j][f]
      BY DEF TaskStep, Bind, Available, EndpointEnds
    <2>3. \A j \in Service, f \in Endpoint : task[j][f] = "done" => task'[j][f] = "done"
      BY <2>1, <2>2
    <2>4. UNCHANGED <<call, mine>>
      BY DEF TaskStep, Bind, Available, EndpointEnds
    <2>5. ASSUME NEW t \in Thread, call[t] = "unlog", mine[t] # None, NEW f \in Endpoint
          PROVE  task'[mine[t]][f] = "done"
      <3>1. mine[t] \in Service /\ task[mine[t]][f] = "done"
        BY <2>5 DEF JoinedDone
      <3> QED
        BY <2>3, <3>1
    <2> QED
      BY <2>4, <2>5 DEF JoinedDone
  <1>7. NoOrphanService'
    BY DEF NoOrphanService, TaskStep, Bind, Available, EndpointEnds
  <1> QED
    BY <1>1, <1>2, <1>3, <1>4, <1>5, <1>6, <1>7

(* Connections come and go without touching the endpoint tasks.            *)
LEMMA ConnectionStepIInv ==
    ASSUME IInv, TypeOK', NEW i \in Service, 
           ConnectionEnds(i) \/ (\E e \in Endpoint : Accept(i, e))
    PROVE  IInv'
  <1> USE ServiceAssumption, NoneIsNoService
      DEF IInv, TypeOK, Fresh, HandsHold, OneHolder, InHand, config, logging, calls, tasks
  <1>1. Fresh'
    BY DEF ConnectionEnds, Accept
  <1>2. HandsHold'
    BY DEF ConnectionEnds, Accept
  <1>3. OneHolder'
    BY DEF ConnectionEnds, Accept
  <1>4. PortsBound'
    BY DEF PortsBound, ConnectionEnds, Accept
  <1>5. StoredRuns'
    BY DEF StoredRuns, ConnectionEnds, Accept
  <1>6. JoinedDone'
    BY DEF JoinedDone, ConnectionEnds, Accept
  <1>7. NoOrphanService'
    BY DEF NoOrphanService, ConnectionEnds, Accept
  <1> QED
    BY <1>1, <1>2, <1>3, <1>4, <1>5, <1>6, <1>7

-----------------------------------------------------------------------------
(* Every step keeps the inductive invariant.                               *)
LEMMA NextIInv ==
    ASSUME IInv, [Next]_vars
    PROVE  IInv'
  <1>1. TypeOK'
    BY NextTypeOK DEF IInv
  <1>2. CASE UNCHANGED vars
    BY <1>2 DEF vars, config, calls, logging, tasks, IInv, TypeOK, Fresh, HandsHold, OneHolder,
                PortsBound, StoredRuns, JoinedDone, NoOrphanService, InHand
  <1>3. ASSUME NEW t \in Thread, Startup(t) \/ Rebind(t) \/ Shutdown(t) \/ CallStep(t)
        PROVE  IInv'
    BY <1>1, <1>3, CallIdleIInv, BuildIInv, StoreIInv, DropServiceIInv, ShutdownIInv,
       JoinIInv, UnlogIInv DEF CallStep
  <1> QED
    BY <1>1, <1>2, <1>3, TaskStepIInv, ConnectionStepIInv DEF Next

(* IInv is an inductive invariant of the C interface, for any number of    *)
(* threads that call it at once (ffi.rs 87-249).                           *)
THEOREM Invariance == Spec => []IInv
  BY InitIInv, NextIInv, PTL DEF Spec

(* The handle, the calls, the services and their tasks have their types.   *)
THEOREM TypeCorrect == Spec => []TypeOK
  BY Invariance, PTL DEF IInv

(* Whatever the order in which startups, rebinds and shutdowns meet, no    *)
(* endpoint task and no address is left to a service that is neither       *)
(* stored nor in the hands of a call (ffi.rs 87-249, service.rs 220-245).  *)
THEOREM NoServiceOrphaned == Spec => []NoOrphanService
  BY Invariance, PTL DEF IInv

(* A running endpoint has its address, and has it alone.                   *)
LEMMA RunningHolds ==
    ASSUME IInv, NEW i \in Service, NEW e \in Endpoint, task[i][e] = "run"
    PROVE  i \in port[e] /\ (e # "tun" => port[e] = {i})
  BY DEF IInv, PortsBound

(* A step that leaves the service's task and the addresses alone, and      *)
(* closes no descriptor, keeps its endpoints.                              *)
LEMMA EndpointsUntouched ==
    ASSUME IInv, UNCHANGED <<task, port, closed>>, NEW i \in Service
    PROVE  \A e \in Endpoint : EndpointKept(i, e)
  BY RunningHolds DEF EndpointKept

(* So does a step that changes the task of another service and takes that  *)
(* service, at most, from the holders of an address or a device.           *)
LEMMA OtherServiceEnds ==
    ASSUME IInv, NEW i \in Service, NEW j \in Service, i # j,
           task'[i] = task[i],
           \A e \in Endpoint : port'[e] = port[e] \/ port'[e] = port[e] \ {j},
           \/ UNCHANGED closed
           \/ /\ closed' = closed \union {tun_fd[j]}
              /\ \A e \in Endpoint : e = "tun" => j \in port[e] /\ j \notin port'[e]
    PROVE  \A e \in Endpoint : EndpointKept(i, e)
  <1> SUFFICES ASSUME NEW e \in Endpoint, task[i][e] = "run"
               PROVE  /\ i \in port'[e]
                      /\ e # "tun" => port'[e] = {i}
                      /\ e = "tun" /\ tun_fd[i] \notin closed =>
                            \/ tun_fd[i] \notin closed'
                            \/ \E k \in Service : /\ tun_fd[k] = tun_fd[i]
                                                 /\ k \in port[e] \ port'[e]
    BY DEF EndpointKept
  <1>1. i \in port[e] /\ (e # "tun" => port[e] = {i})
    BY RunningHolds
  <1>2. i \in port'[e] /\ (e # "tun" => port'[e] = {i})
    BY <1>1
  <1>3. ASSUME e = "tun", tun_fd[i] \notin closed, tun_fd[i] \in closed'
        PROVE  tun_fd[j] = tun_fd[i] /\ j \in port[e] \ port'[e]
    BY <1>3
  <1> QED
    BY <1>2, <1>3

(* One step never takes the stored service away except into the hands of a *)
(* shutdown that has told it to stop; until then its runtime is up.        *)
LEMMA StepKeepsHandle ==
    ASSUME IInv, Next, NEW i \in Service, SERVICE_HANDLE = i
    PROVE  \/ SERVICE_HANDLE' = i /\ ~signal'[i] /\ runtime'[i] = "up"
           \/ SERVICE_HANDLE' = None /\ signal'[i]
                /\ \E t \in Thread : call'[t] = "join" /\ mine'[t] = i
  <1> USE NoneIsNoService
      DEF IInv, TypeOK, Fresh, HandsHold, OneHolder, StoredRuns, config, logging, calls, tasks
  <1>1. ASSUME NEW t \in Thread,
               \/ Startup(t) \/ Rebind(t) \/ InitLogging(t) \/ BuildFails(t)
               \/ RebindReturns(t) \/ Unlog(t)
        PROVE  SERVICE_HANDLE' = i /\ ~signal'[i] /\ runtime'[i] = "up"
    BY <1>1 DEF Startup, Rebind, InitLogging, BuildFails, RebindReturns, Unlog
  <1>2. ASSUME NEW t \in Thread, NEW j \in Service, Build(t, j)
        PROVE  SERVICE_HANDLE' = i /\ ~signal'[i] /\ runtime'[i] = "up"
    BY <1>2 DEF Build
  <1>3. ASSUME NEW t \in Thread, Store(t) \/ DropService(t) \/ Join(t)
        PROVE  SERVICE_HANDLE' = i /\ ~signal'[i] /\ runtime'[i] = "up"
    BY <1>3 DEF Store, DropService, Join
  <1>4. ASSUME NEW t \in Thread, Shutdown(t)
        PROVE  /\ SERVICE_HANDLE' = None /\ signal'[i]
               /\ call'[t] = "join" /\ mine'[t] = i
    BY <1>4 DEF Shutdown
  <1>5. ASSUME NEW j \in Service, NEW e \in Endpoint, TaskStep(j, e) \/ Accept(j, e)
        PROVE  SERVICE_HANDLE' = i /\ ~signal'[i] /\ runtime'[i] = "up"
    BY <1>5 DEF TaskStep, Bind, EndpointEnds, Accept
  <1>6. ASSUME NEW j \in Service, ConnectionEnds(j)
        PROVE  SERVICE_HANDLE' = i /\ ~signal'[i] /\ runtime'[i] = "up"
    BY <1>6 DEF ConnectionEnds
  <1> QED
    BY <1>1, <1>2, <1>3, <1>4, <1>5, <1>6 DEF Next, CallStep

(* No step ends an endpoint of the stored service, takes its address or    *)
(* closes its descriptor for it: what ends here is another service's.      *)
LEMMA StepKeepsEndpoints ==
    ASSUME IInv, Next, NEW i \in Service, SERVICE_HANDLE = i
    PROVE  \A e \in Endpoint : EndpointKept(i, e)
  <1> USE NoneIsNoService
      DEF IInv, TypeOK, Fresh, HandsHold, OneHolder, StoredRuns, config, logging, calls, tasks
  <1>1. ASSUME NEW t \in Thread,
               \/ Startup(t) \/ Rebind(t) \/ InitLogging(t) \/ BuildFails(t)
               \/ RebindReturns(t) \/ Unlog(t) \/ Store(t) \/ Join(t) \/ Shutdown(t)
        PROVE  UNCHANGED <<task, port, closed>>
    BY <1>1 DEF Startup, Rebind, InitLogging, BuildFails, RebindReturns, Unlog, Store, Join,
                Shutdown
  <1>2. ASSUME NEW t \in Thread, NEW j \in Service, Build(t, j)
        PROVE  \A e \in Endpoint : EndpointKept(i, e)
    <2>1. j # i /\ task'[i] = task[i] /\ UNCHANGED <<port, closed>>
      BY <1>2 DEF Build
    <2> QED
      BY <1>2, <2>1, OtherServiceEnds
  <1>3. ASSUME NEW t \in Thread, DropService(t)
        PROVE  \A e \in Endpoint : EndpointKept(i, e)
    <2>1. mine[t] \in Service /\ mine[t] # i /\ task'[i] = task[i]
      BY <1>3 DEF DropService, TasksDropped
    <2>2. \A e \in Endpoint : port'[e] = port[e] \ {mine[t]}
      BY <1>3 DEF DropService, TasksDropped
    <2>3. CASE \E e \in Endpoint : Releases(mine[t], e)
      <3>1. closed' = closed \union {tun_fd[mine[t]]}
        BY <1>3, <2>3 DEF DropService, TasksDropped
      <3>2. \A e \in Endpoint : e = "tun" => mine[t] \in port[e] /\ mine[t] \notin port'[e]
        BY <2>2, <2>3 DEF Releases
      <3> QED
        BY <2>1, <2>2, <3>1, <3>2, OtherServiceEnds
    <2>4. CASE ~ \E e \in Endpoint : Releases(mine[t], e)
      <3>1. UNCHANGED closed
        BY <1>3, <2>4 DEF DropService, TasksDropped
      <3> QED
        BY <2>1, <2>2, <3>1, OtherServiceEnds
    <2> QED
      BY <2>3, <2>4
  <1>4. ASSUME NEW j \in Service, NEW f \in Endpoint, Bind(j, f)
        PROVE  \A e \in Endpoint : EndpointKept(i, e)
    <2> SUFFICES ASSUME NEW e \in Endpoint, task[i][e] = "run"
                 PROVE  EndpointKept(i, e)
      BY DEF EndpointKept
    <2>1. i \in port[e] /\ (e # "tun" => port[e] = {i})
      BY RunningHolds
    <2>2. task'[i][e] = "run" /\ UNCHANGED closed
      BY <1>4 DEF Bind
    <2>3. i \in port'[e] /\ (e # "tun" => port'[e] = {i})
      BY <1>4, <2>1 DEF Bind, Available
    <2> QED
      BY <2>2, <2>3 DEF EndpointKept
  <1>5. ASSUME NEW j \in Service, NEW f \in Endpoint, EndpointEnds(j, f)
        PROVE  \A e \in Endpoint : EndpointKept(i, e)
    <2>1. j # i /\ task'[i] = task[i]
      BY <1>5 DEF EndpointEnds
    <2>2. \A e \in Endpoint : port'[e] = port[e] \/ port'[e] = port[e] \ {j}
      BY <1>5 DEF EndpointEnds
    <2>3. \/ UNCHANGED closed
          \/ /\ closed' = closed \union {tun_fd[j]}
             /\ \A e \in Endpoint : e = "tun" => j \in port[e] /\ j \notin port'[e]
      BY <1>5 DEF EndpointEnds, PortsBound
    <2> QED
      BY <2>1, <2>2, <2>3, OtherServiceEnds
  <1>6. ASSUME NEW j \in Service, ConnectionEnds(j) \/ (\E e \in Endpoint : Accept(j, e))
        PROVE  UNCHANGED <<task, port, closed>>
    BY <1>6 DEF ConnectionEnds, Accept
  <1> QED
    BY <1>1, <1>2, <1>3, <1>4, <1>5, <1>6, EndpointsUntouched DEF Next, CallStep, TaskStep

(* A running service is replaced by no startup and stopped by no step but  *)
(* a shutdown: it leaves SERVICE_HANDLE only into the hands of one that    *)
(* has sent it the signal, and keeps its endpoints, their addresses and    *)
(* its TUN descriptor until then, unless another service closes the same   *)
(* descriptor (ffi.rs 87-249, service.rs 220-245, 298-304).                *)
THEOREM ServiceKept == Spec => RunningServiceKept
  <1>1. IInv /\ [Next]_vars =>
          [\A i \in Service :
             SERVICE_HANDLE = i =>
                 \/ /\ SERVICE_HANDLE' = i /\ ~signal'[i] /\ runtime'[i] = "up"
                    /\ \A e \in Endpoint : EndpointKept(i, e)
                 \/ SERVICE_HANDLE' = None /\ signal'[i]
                      /\ \E t \in Thread : call'[t] = "join" /\ mine'[t] = i]_vars
    BY StepKeepsHandle, StepKeepsEndpoints
  <1> QED
    BY <1>1, Invariance, PTL DEF RunningServiceKept, Spec
=============================================================================
