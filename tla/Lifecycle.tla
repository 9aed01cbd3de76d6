------------------------------- MODULE Lifecycle ------------------------------
(***************************************************************************)
(* The transports of a node: the health_monitor of each starts it, polls   *)
(* the network, restarts it and reports the change; peer_stream            *)
(* (router.rs) and accept_loop (node.rs) follow through the "started"      *)
(* watch channel and through what discover() and accept() of the transport *)
(* return.  A transport is like the QUIC one (pathweave-transport-quic):   *)
(* its endpoint, and the mDNS channel that discover() hands out once per   *)
(* start.                                                                  *)
(***************************************************************************)
EXTENDS Naturals

CONSTANTS
    Addr,           \* values of the non-loopback IPv4 address set
    CostOf,         \* CostOf[t][a]: cost() of transport t after start() with a
    Setups          \* nodes: the number of their transports, the transports
                    \* whose peer_stream and accept_loop run, and bounds on
                    \* changes of the network and on failing calls of start()

Transport == UNION {1..u.count : u \in Setups}      \* in order of registration

ASSUME AddrNonEmpty == Addr # {}
ASSUME CostType == CostOf \in [Transport -> [Addr -> 0..2]]
ASSUME SetupsType ==
    \A u \in Setups :
        /\ u.count \in Nat \ {0} /\ u.tasks \subseteq 1..u.count
        /\ u.changes \in Nat /\ u.fails \in Nat

VARIABLES
    setup,          \* one of Setups
    net,            \* the address set the operating system reports
    prev, curr,     \* prev[t], curr[t]: prev_addrs and curr_addrs of health_monitor
    recovery,       \* recovery[t]: its in_recovery
    hm,             \* hm[t]: what it is doing
    next,           \* next[t]: the transport it is about to report instead of t
    available,      \* available[t]: the flag Router::send reads
    started,        \* started[t]: the value in the watch channel
    last,           \* "to" of the last TransportChanged, 0 before there is one
    endpoint,       \* endpoint[t]: is the QUIC endpoint open?
    browse,         \* browse[t]: the mDNS channel: "none", "ready", or "taken"
    bound,          \* bound[t]: the address set when the instance registered itself
    ps,             \* ps[t]: what peer_stream is doing
    psLive,         \* psLive[t]: is its stream the running instance's?
    al,             \* al[t]: what accept_loop is doing
    alLive,         \* alLive[t]: is the endpoint it accepts on the running instance's?
    changes, fails  \* counters for the bounds

monVars == <<prev, curr, recovery, hm, next, available, started, last>>
transportVars == <<endpoint, browse, bound>>
vars == <<setup, net, monVars, transportVars, ps, psLive, al, alLive, changes, fails>>

Running == 1..setup.count

TypeOK ==
    /\ setup \in Setups
    /\ net \in Addr
    /\ {prev, curr, bound} \subseteq [Transport -> Addr]
    /\ {recovery, available, started, endpoint, psLive, alLive} \subseteq [Transport -> BOOLEAN]
    /\ hm \in [Transport -> {"start", "announce", "up", "sleep", "down", "away", "stop"}]
    /\ next \in [Transport -> Transport]
    /\ last \in {0} \cup Running
    /\ browse \in [Transport -> {"none", "ready", "taken"}]
    /\ ps \in [Transport -> {"await_start", "open", "stream", "connect", "await_stop"}]
    /\ al \in [Transport -> {"await_start", "call", "accept", "backoff"}]
    /\ \A t \in Transport : (psLive[t] => browse[t] = "taken") /\ (alLive[t] => endpoint[t])
    /\ changes \in 0..setup.changes /\ fails \in 0..setup.fails

(* The monitors have read prev_addrs and are calling start().              *)
Init ==
    /\ setup \in Setups
    /\ net \in Addr
    /\ prev = [t \in Transport |-> net] /\ curr = prev /\ bound = prev
    /\ recovery = [t \in Transport |-> FALSE]
    /\ hm = [t \in Transport |-> "start"]
    /\ next = [t \in Transport |-> t]
    /\ available = recovery /\ started = recovery
    /\ last = 0
    /\ endpoint = recovery /\ browse = [t \in Transport |-> "none"]
    /\ ps = [t \in Transport |-> "await_start"] /\ psLive = recovery
    /\ al = ps /\ alLive = recovery
    /\ changes = 0 /\ fails = 0

NetworkChanges(a) ==
    /\ changes < setup.changes
    /\ changes' = changes + 1
    /\ a # net
    /\ net' = a
    /\ UNCHANGED <<setup, monVars, transportVars, ps, psLive, al, alLive, fails>>

-----------------------------------------------------------------------------
(* health_monitor and the transport's start() and stop().                  *)

(* start() binds the endpoint, registers the current address with mDNS,    *)
(* opens the channel for discover() and detects the cost.                  *)
StartOk(t) ==
    /\ hm[t] = "start"
    /\ endpoint' = [endpoint EXCEPT ![t] = TRUE]
    /\ browse' = [browse EXCEPT ![t] = "ready"]
    /\ bound' = [bound EXCEPT ![t] = net]
    /\ hm' = [hm EXCEPT ![t] = "announce"]
    /\ UNCHANGED <<setup, net, prev, curr, recovery, next, available, started, last, ps, psLive, al, alLive, changes, fails>>

(* start() fails before or after the endpoint is bound.                    *)
StartErr(t) ==
    /\ hm[t] = "start"
    /\ fails < setup.fails
    /\ fails' = fails + 1
    /\ \E open \in BOOLEAN : endpoint' = [endpoint EXCEPT ![t] = open]
    /\ recovery' = [recovery EXCEPT ![t] = TRUE]
    /\ hm' = [hm EXCEPT ![t] = "sleep"]
    /\ UNCHANGED <<setup, net, prev, curr, next, available, started, last, browse, bound, ps, psLive, al, alLive, changes>>

(* A successful (re)start is published in the flag and the watch channel.  *)
Announce(t) ==
    /\ hm[t] = "announce"
    /\ available' = [available EXCEPT ![t] = TRUE]
    /\ started' = [started EXCEPT ![t] = TRUE]
    /\ hm' = [hm EXCEPT ![t] = "up"]
    /\ UNCHANGED <<setup, net, prev, curr, recovery, next, last, transportVars, ps, psLive, al, alLive, changes, fails>>

(* Fault: the address set seen before the restart is not remembered.       *)
ReportForgetful(t) ==
    /\ hm[t] = "up"
    /\ last' = t
    /\ recovery' = [recovery EXCEPT ![t] = FALSE]
    /\ hm' = [hm EXCEPT ![t] = "sleep"]
    /\ UNCHANGED <<setup, net, prev, curr, next, available, started, transportVars, ps, psLive, al, alLive, changes, fails>>

(* Fault: only the first start is reported.                                *)
ReportFirst(t) ==
    /\ hm[t] = "up"
    /\ last' = IF last = 0 THEN t ELSE last
    /\ prev' = [prev EXCEPT ![t] = curr[t]]
    /\ recovery' = [recovery EXCEPT ![t] = FALSE]
    /\ hm' = [hm EXCEPT ![t] = "sleep"]
    /\ UNCHANGED <<setup, net, curr, next, available, started, transportVars, ps, psLive, al, alLive, changes, fails>>

(* It is reported: TransportChanged from None to t.                        *)
Report(t) ==
    /\ hm[t] = "up"
    /\ last' = t
    /\ prev' = [prev EXCEPT ![t] = curr[t]]
    /\ recovery' = [recovery EXCEPT ![t] = FALSE]
    /\ hm' = [hm EXCEPT ![t] = "sleep"]
    /\ UNCHANGED <<setup, net, curr, next, available, started, transportVars, ps, psLive, al, alLive, changes, fails>>

(* Fault: the transport stays available while it is restarted.             *)
PollKeepsAvailable(t) ==
    /\ hm[t] = "sleep"
    /\ recovery[t] \/ net # prev[t]
    /\ curr' = [curr EXCEPT ![t] = net]
    /\ started' = [started EXCEPT ![t] = FALSE]
    /\ hm' = [hm EXCEPT ![t] = IF available[t] THEN "down" ELSE "stop"]
    /\ UNCHANGED <<setup, net, prev, recovery, next, available, last, transportVars, ps, psLive, al, alLive, changes, fails>>

(* A tick that finds a new address set, or is in recovery mode; only the   *)
(* end of a transport that was available is worth an event.                *)
Poll(t) ==
    /\ hm[t] = "sleep"
    /\ recovery[t] \/ net # prev[t]
    /\ curr' = [curr EXCEPT ![t] = net]
    /\ available' = [available EXCEPT ![t] = FALSE]
    /\ started' = [started EXCEPT ![t] = FALSE]
    /\ hm' = [hm EXCEPT ![t] = IF available[t] THEN "down" ELSE "stop"]
    /\ UNCHANGED <<setup, net, prev, recovery, next, last, transportVars, ps, psLive, al, alLive, changes, fails>>

(* next_best_transport: the cheapest other transport that is available,    *)
(* the first registered one of several.                                    *)
Others(t) == {u \in Running \ {t} : available[u]}
Cost(t) == CostOf[t][bound[t]]
NextBest(t) ==
    {u \in Others(t) : \A v \in Others(t) \ {u} :
        Cost(u) < Cost(v) \/ (Cost(u) = Cost(v) /\ u < v)}

FallBack(t) ==
    /\ hm[t] = "down"
    /\ \/ /\ Others(t) = {}
          /\ hm' = [hm EXCEPT ![t] = "stop"]
          /\ UNCHANGED next
       \/ \E u \in NextBest(t) :
          /\ next' = [next EXCEPT ![t] = u]
          /\ hm' = [hm EXCEPT ![t] = "away"]
    /\ UNCHANGED <<setup, net, prev, curr, recovery, available, started, last, transportVars, ps, psLive, al, alLive, changes, fails>>

(* TransportChanged from t to what FallBack has found.                     *)
ReportAway(t) ==
    /\ hm[t] = "away"
    /\ last' = next[t]
    /\ next' = [next EXCEPT ![t] = t]
    /\ hm' = [hm EXCEPT ![t] = "stop"]
    /\ UNCHANGED <<setup, net, prev, curr, recovery, available, started, transportVars, ps, psLive, al, alLive, changes, fails>>

(* Fault: stop() leaves the mDNS bridge and its channel alone.             *)
StopKeepsBridge(t) ==
    /\ hm[t] = "stop"
    /\ endpoint' = [endpoint EXCEPT ![t] = FALSE]
    /\ browse' = [browse EXCEPT ![t] = "none"]
    /\ alLive' = [alLive EXCEPT ![t] = FALSE]
    /\ hm' = [hm EXCEPT ![t] = "start"]
    /\ UNCHANGED <<setup, net, prev, curr, recovery, next, available, started, last, bound, ps, psLive, al, changes, fails>>

(* stop() closes the endpoint and the mDNS channel.                        *)
Stop(t) ==
    /\ hm[t] = "stop"
    /\ endpoint' = [endpoint EXCEPT ![t] = FALSE]
    /\ browse' = [browse EXCEPT ![t] = "none"]
    /\ psLive' = [psLive EXCEPT ![t] = FALSE]
    /\ alLive' = [alLive EXCEPT ![t] = FALSE]
    /\ hm' = [hm EXCEPT ![t] = "start"]
    /\ UNCHANGED <<setup, net, prev, curr, recovery, next, available, started, last, bound, ps, al, changes, fails>>

-----------------------------------------------------------------------------
(* peer_stream.                                                            *)

PsStarted(t) ==
    /\ ps[t] = "await_start" /\ started[t]
    /\ ps' = [ps EXCEPT ![t] = "open"]
    /\ UNCHANGED <<setup, net, monVars, transportVars, psLive, al, alLive, changes, fails>>

(* discover() takes the channel; without one the stream is empty.          *)
PsDiscover(t) ==
    /\ ps[t] = "open"
    /\ ps' = [ps EXCEPT ![t] = "stream"]
    /\ psLive' = [psLive EXCEPT ![t] = (browse[t] = "ready")]
    /\ browse' = [browse EXCEPT ![t] = IF browse[t] = "ready" THEN "taken" ELSE @]
    /\ UNCHANGED <<setup, net, monVars, endpoint, bound, al, alLive, changes, fails>>

(* An announced address is dialled; nothing else is read meanwhile.        *)
PsArrival(t) ==
    /\ ps[t] = "stream" /\ psLive[t]
    /\ ps' = [ps EXCEPT ![t] = "connect"]
    /\ UNCHANGED <<setup, net, monVars, transportVars, psLive, al, alLive, changes, fails>>

PsConnected(t) ==
    /\ ps[t] = "connect"
    /\ ps' = [ps EXCEPT ![t] = "stream"]
    /\ UNCHANGED <<setup, net, monVars, transportVars, psLive, al, alLive, changes, fails>>

PsEnded(t) ==
    /\ ps[t] = "stream" /\ ~psLive[t]
    /\ ps' = [ps EXCEPT ![t] = "await_stop"]
    /\ UNCHANGED <<setup, net, monVars, transportVars, psLive, al, alLive, changes, fails>>

PsStopped(t) ==
    /\ ps[t] = "await_stop" /\ ~started[t]
    /\ ps' = [ps EXCEPT ![t] = "await_start"]
    /\ UNCHANGED <<setup, net, monVars, transportVars, psLive, al, alLive, changes, fails>>

-----------------------------------------------------------------------------
(* accept_loop.                                                            *)

AlStarted(t) ==
    /\ al[t] = "await_start" /\ started[t]
    /\ al' = [al EXCEPT ![t] = "call"]
    /\ UNCHANGED <<setup, net, monVars, transportVars, ps, psLive, alLive, changes, fails>>

(* accept() clones the endpoint, or fails when there is none.              *)
AlCall(t) ==
    /\ al[t] = "call"
    /\ al' = [al EXCEPT ![t] = IF endpoint[t] THEN "accept" ELSE "backoff"]
    /\ alLive' = [alLive EXCEPT ![t] = endpoint[t]]
    /\ UNCHANGED <<setup, net, monVars, transportVars, ps, psLive, changes, fails>>

(* It returns with a connection, handed to handle_incoming.                *)
AlConnection(t) ==
    /\ al[t] = "accept" /\ alLive[t]
    /\ al' = [al EXCEPT ![t] = "call"]
    /\ UNCHANGED <<setup, net, monVars, transportVars, ps, psLive, alLive, changes, fails>>

(* It returns with an error on a running endpoint: the incoming connection *)
(* fails.                                                                  *)
AlFailed(t) ==
    /\ al[t] = "accept" /\ alLive[t]
    /\ al' = [al EXCEPT ![t] = "backoff"]
    /\ UNCHANGED <<setup, net, monVars, transportVars, ps, psLive, alLive, changes, fails>>

(* Fault: accept() on a closed endpoint does not return.                   *)
AlClosedWaits(t) ==
    /\ al[t] = "accept" /\ ~alLive[t]
    /\ UNCHANGED vars

(* It returns with an error: the endpoint is closed.                       *)
AlClosed(t) ==
    /\ al[t] = "accept" /\ ~alLive[t]
    /\ al' = [al EXCEPT ![t] = "backoff"]
    /\ UNCHANGED <<setup, net, monVars, transportVars, ps, psLive, alLive, changes, fails>>

AlRetry(t) ==
    /\ al[t] = "backoff"
    /\ al' = [al EXCEPT ![t] = "call"]
    /\ UNCHANGED <<setup, net, monVars, transportVars, ps, psLive, alLive, changes, fails>>

-----------------------------------------------------------------------------
MonitorStep(t) ==
    \/ StartOk(t) \/ StartErr(t) \/ Announce(t) \/ Report(t)
    \/ Poll(t) \/ FallBack(t) \/ ReportAway(t) \/ Stop(t)
PeerStreamStep(t) == PsStarted(t) \/ PsDiscover(t) \/ PsEnded(t) \/ PsStopped(t)
AcceptStep(t) == AlStarted(t) \/ AlCall(t) \/ AlClosed(t) \/ AlRetry(t)

Next ==
    \/ \E a \in Addr : NetworkChanges(a)
    \/ \E t \in Running : MonitorStep(t)
    \/ \E t \in setup.tasks :
        \/ PeerStreamStep(t) \/ PsArrival(t) \/ PsConnected(t)
        \/ AcceptStep(t) \/ AlConnection(t) \/ AlFailed(t)

Spec == Init /\ [][Next]_vars

(* The three tasks run.  Nobody need announce anything or connect, and a   *)
(* handshake of peer_stream need not end.  start() fails at most           *)
(* setup.fails times.                                                      *)
FairSpec ==
    /\ Spec
    /\ \A t \in Transport :
        /\ WF_vars(t \in Running /\ MonitorStep(t))
        /\ WF_vars(t \in setup.tasks /\ PeerStreamStep(t))
        /\ WF_vars(t \in setup.tasks /\ AcceptStep(t))

(* The flag Router::send trusts, and the watch value that accept_loop and  *)
(* peer_stream trust, are set only while the transport is up with its      *)
(* endpoint and its discovery channel.                                     *)
AvailableMeansUp ==
    \A t \in Running : available[t] \/ started[t] => endpoint[t] /\ browse[t] # "none"

(* Who follows the TransportChanged events is not left with a transport    *)
(* that is down while another one is up, once no monitor has an event to   *)
(* fire: the choice of next_best_transport may be outdated when its event  *)
(* is fired, but a transport that has come up since fires one of its own.  *)
Reported == \A t \in Running : hm[t] \notin {"up", "down", "away"}
LastEventIsUp ==
    Reported /\ (\E t \in Running : available[t]) => last # 0 /\ available[last]

(* This holds for a node with two transports.                              *)
LastEventOfTwoIsUp == setup.count <= 2 => LastEventIsUp

(* Once the network has settled, restarts end and the transports stay up.  *)
Settles == <>[](\A t \in Running : available[t])

(* Whatever restarts it has lived through, accept_loop comes back to       *)
(* accepting on the running endpoint.                                      *)
AcceptFollowsRestart ==
    \A t \in Transport : <>[](t \in setup.tasks /\ available[t]) => []<>(al[t] = "accept" /\ alLive[t])

(* "Drives peer discovery for a single transport across restarts"          *)
(* (peer_stream).                                                          *)
DiscoveryFollowsRestart ==
    \A t \in Transport : <>[](t \in setup.tasks /\ available[t]) => <>[]psLive[t]

(* "restarts the transport when the set changes" (health_monitor): in the  *)
(* end the running instance has the addresses the network has.             *)
AddressFollowsNetwork == <>[](\A t \in Running : available[t] /\ bound[t] = net)
=============================================================================
