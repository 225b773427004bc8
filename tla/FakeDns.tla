------------------------------- MODULE FakeDns -------------------------------
(***************************************************************************)
(* The fake DNS of the TUN endpoint: it answers each A query with an       *)
(* address of a private pool and remembers which domain the address stands *)
(* for.                                                                    *)
(*                                                                         *)
(* crates/ombrac-client/src/endpoint/tun.rs, mod fakedns.  Two moka caches *)
(* hold the mapping, a lock-free queue the recycled addresses, an atomic   *)
(* cursor the first address never used.  When an entry of ip_to_domain is  *)
(* evicted, an asynchronous listener first invalidates the domain's entry  *)
(* and then pushes the address on the queue.                               *)
(*                                                                         *)
(* One query runs at a time: process_incoming_udp_packets is the only      *)
(* caller of handle_dns_query and awaits it before it takes the next       *)
(* packet (tun.rs 440-443).  Expiry and listeners do run beside it: moka   *)
(* evicts in whichever task uses a cache, and the tasks of the TCP and UDP *)
(* flows look their addresses up while a query is between two of its       *)
(* steps.                                                                  *)
(*                                                                         *)
(* An address is its offset in the pool: `current` of allocate_unique_ip,  *)
(* so network + 1 + current.  recycled_ips is a bag: the order of the      *)
(* queue is left out, a pop takes any address in it.                       *)
(***************************************************************************)
EXTENDS Integers

CONSTANTS Domain,     \* domain names asked for
          NoDomain,   \* absent entry of ip_to_domain
          MaxHosts    \* max_hosts: number of host addresses of the network

FirstHost == 2                       \* initial value of the cursor
Ip == FirstHost..(MaxHosts - 1)      \* the addresses the cursor hands out
NoIp == 0                            \* absent entry of domain_to_ip, no address held

ASSUME ConstantsAssumption ==
    /\ NoDomain \notin Domain
    /\ MaxHosts \in Nat

VARIABLES
    domain_to_ip,   \* cache: domain -> address
    ip_to_domain,   \* cache: address -> domain
    recycled_ips,   \* how many times each address is in the queue
    cursor,
    evicting,       \* progress of the eviction listener of each address
    evicted,        \* the domain that listener was called with
    pc,             \* where handle_dns_query stands
    domain_name,    \* the domain the query asks for
    new_ip          \* the address it holds and has not yet mapped

caches == <<domain_to_ip, ip_to_domain>>
pool == <<recycled_ips, cursor>>
listener == <<evicting, evicted>>
locals == <<pc, domain_name, new_ip>>
vars == <<caches, pool, listener, locals>>

-----------------------------------------------------------------------------
Init ==
    /\ domain_to_ip = [d \in Domain |-> NoIp]
    /\ ip_to_domain = [i \in Ip |-> NoDomain]
    /\ recycled_ips = [i \in Ip |-> 0]
    /\ cursor = FirstHost
    /\ evicting = [i \in Ip |-> "idle"]
    /\ evicted = [i \in Ip |-> NoDomain]
    /\ pc = "idle"
    /\ domain_name = NoDomain
    /\ new_ip = NoIp

Goto(from, to) == pc = from /\ pc' = to

(***************************************************************************)
(* handle_dns_query                                                        *)
(***************************************************************************)
\* domain_to_ip has the domain: answer with its address.  A query that is not of
\* type A, or does not parse, is answered or dropped here too: nothing changes.
LookupHit(d) ==
    /\ pc = "idle"
    /\ domain_to_ip[d] # NoIp
    /\ UNCHANGED vars

LookupMiss(d) ==
    /\ Goto("idle", "pop")
    /\ domain_to_ip[d] = NoIp
    /\ domain_name' = d
    /\ UNCHANGED <<caches, pool, listener, new_ip>>

\* ip_to_domain.insert(new_ip, domain)
InsertIp ==
    /\ Goto("insert_ip", "insert_domain")
    /\ ip_to_domain' = [ip_to_domain EXCEPT ![new_ip] = domain_name]
    /\ UNCHANGED <<domain_to_ip, pool, listener, domain_name, new_ip>>

\* domain_to_ip.insert(domain, new_ip), and the answer is sent.
InsertDomain ==
    /\ Goto("insert_domain", "idle")
    /\ domain_to_ip' = [domain_to_ip EXCEPT ![domain_name] = new_ip]
    /\ domain_name' = NoDomain
    /\ new_ip' = NoIp
    /\ UNCHANGED <<ip_to_domain, pool, listener>>

(***************************************************************************)
(* allocate_unique_ip                                                      *)
(***************************************************************************)
PopRecycled(i) ==
    /\ Goto("pop", "insert_ip")
    /\ recycled_ips[i] > 0
    /\ recycled_ips' = [recycled_ips EXCEPT ![i] = @ - 1]
    /\ new_ip' = i
    /\ UNCHANGED <<caches, cursor, listener, domain_name>>

PopEmpty ==
    /\ Goto("pop", "load")
    /\ \A i \in Ip : recycled_ips[i] = 0
    /\ UNCHANGED <<caches, pool, listener, domain_name, new_ip>>

\* Only the query moves the cursor, so the first compare_exchange succeeds.
AllocateFresh ==
    /\ Goto("load", "insert_ip")
    /\ cursor < MaxHosts
    /\ cursor' = cursor + 1
    /\ new_ip' = cursor
    /\ UNCHANGED <<caches, recycled_ips, listener, domain_name>>

\* The pool is exhausted: the query is not answered.
Exhausted ==
    /\ Goto("load", "idle")
    /\ cursor >= MaxHosts
    /\ domain_name' = NoDomain
    /\ UNCHANGED <<caches, pool, listener, new_ip>>

(***************************************************************************)
(* Idle expiry.  Both caches expire on their own (a hit on one does not    *)
(* refresh the other).  The time to idle is a week: an entry does not      *)
(* expire while the query that inserted it is still on its next line.      *)
(* Neither cache outgrows its capacity of max_hosts.                       *)
(***************************************************************************)
\* Mutant: the expiry of domain_to_ip recycles the address, still mapped, as well.
ExpireDomainRecycles(d) ==
    /\ domain_to_ip[d] # NoIp
    /\ recycled_ips' = [recycled_ips EXCEPT ![domain_to_ip[d]] = @ + 1]
    /\ domain_to_ip' = [domain_to_ip EXCEPT ![d] = NoIp]
    /\ UNCHANGED <<ip_to_domain, cursor, listener, locals>>

ExpireDomain(d) ==
    /\ domain_to_ip[d] # NoIp
    /\ domain_to_ip' = [domain_to_ip EXCEPT ![d] = NoIp]
    /\ UNCHANGED <<ip_to_domain, pool, listener, locals>>

\* The entry is gone; the listener is about to run.
ExpireIp(i) ==
    /\ ip_to_domain[i] # NoDomain
    /\ ~(pc = "insert_domain" /\ new_ip = i)
    /\ ip_to_domain' = [ip_to_domain EXCEPT ![i] = NoDomain]
    /\ evicting' = [evicting EXCEPT ![i] = "invalidate"]
    /\ evicted' = [evicted EXCEPT ![i] = ip_to_domain[i]]
    /\ UNCHANGED <<domain_to_ip, pool, locals>>

\* Mutant: the listener does not invalidate the domain.
InvalidateSkipped(i) ==
    /\ evicting[i] = "invalidate"
    /\ evicting' = [evicting EXCEPT ![i] = "push"]
    /\ UNCHANGED <<caches, pool, evicted, locals>>

ListenerInvalidates(i) ==
    /\ evicting[i] = "invalidate"
    /\ domain_to_ip' = [domain_to_ip EXCEPT ![evicted[i]] = NoIp]
    /\ evicting' = [evicting EXCEPT ![i] = "push"]
    /\ UNCHANGED <<ip_to_domain, pool, evicted, locals>>

ListenerPushes(i) ==
    /\ evicting[i] = "push"
    /\ recycled_ips' = [recycled_ips EXCEPT ![i] = @ + 1]
    /\ evicting' = [evicting EXCEPT ![i] = "idle"]
    /\ evicted' = [evicted EXCEPT ![i] = NoDomain]
    /\ UNCHANGED <<caches, cursor, locals>>

-----------------------------------------------------------------------------
AllocateStep ==
    \/ \E i \in Ip : PopRecycled(i)
    \/ PopEmpty \/ AllocateFresh \/ Exhausted

QueryStep == AllocateStep \/ InsertIp \/ InsertDomain

ListenerStep(i) == ListenerInvalidates(i) \/ ListenerPushes(i)

Next ==
    \/ \E d \in Domain : LookupHit(d) \/ LookupMiss(d)
    \/ QueryStep
    \/ \E d \in Domain : ExpireDomain(d)
    \/ \E i \in Ip : ExpireIp(i) \/ ListenerStep(i)

Spec == Init /\ [][Next]_vars

-----------------------------------------------------------------------------
TypeOK ==
    /\ domain_to_ip \in [Domain -> Ip \union {NoIp}]
    /\ ip_to_domain \in [Ip -> Domain \union {NoDomain}]
    /\ recycled_ips \in [Ip -> Nat]
    /\ cursor \in Nat
    /\ evicting \in [Ip -> {"idle", "invalidate", "push"}]
    /\ evicted \in [Ip -> Domain \union {NoDomain}]
    /\ pc \in {"idle", "pop", "load", "insert_ip", "insert_domain"}
    /\ domain_name \in Domain \union {NoDomain}
    /\ new_ip \in Ip \union {NoIp}

One(condition) == IF condition THEN 1 ELSE 0

\* The query owns the address it was given until it has mapped it.
Held(i) == pc = "insert_ip" /\ new_ip = i

\* In how many places an address is: the queue (as often as it is in it), the
\* hands of the query, a mapping to a domain, the listener.
Places(i) ==
    recycled_ips[i] + One(Held(i)) + One(ip_to_domain[i] # NoDomain) + One(evicting[i] # "idle")

(* Every address the cursor has passed is in exactly one place, and none   *)
(* beyond it is in use: none is handed out twice, none is lost, although   *)
(* both caches expire and the listener runs while a query is between two   *)
(* of its steps (tun.rs 72-80, 98-122, 147-155).                           *)
OneOwner == \A i \in Ip : Places(i) = One(i < cursor)

(* No two domains meet on an address: an answer given from domain_to_ip    *)
(* names an address that maps back to that domain or to none, because the  *)
(* listener invalidates before it recycles (tun.rs 72-80, 147-155).        *)
AnswersMapBack ==
    \A d \in Domain :
        LET i == domain_to_ip[d] IN
        i # NoIp => \/ ip_to_domain[i] = d
                    \/ evicting[i] = "invalidate" /\ evicted[i] = d
=============================================================================
