------------------------------- MODULE WifiDirect -----------------------------
(***************************************************************************)
(* The WiFi Direct transport (pathweave-transport-wifi-direct) on two      *)
(* nodes: start, stop, connect and accept, the task that turns P2P groups  *)
(* into TCP listeners, and the group owner rule of ADR 022.  Both nodes    *)
(* run Linux (wpa_supplicant over D-Bus) or both run Windows (WinRT).      *)
(* Group formation and TCP are external.                                   *)
(***************************************************************************)
EXTENDS Naturals, Sequences, FiniteSets, FiniteSetsExt

CONSTANTS
    Platforms,      \* platforms the nodes may run on
    MaxStarts,      \* bound: calls of start() by node n, MaxStarts[n]; all but
                    \* the last are followed by stop()
    MaxConnects,    \* bound: calls of connect()
    MaxGroups       \* bound: P2P groups formed

ASSUME PlatformsKnown == Platforms \subseteq {"linux", "windows"}

Node == {1, 2}                      \* node n has short id n
Peer(n) == 3 - n
Greater == 2
Start == 1..Max({MaxStarts[1], MaxStarts[2]})

ASSUME BoundTypes == MaxStarts \in [Node -> Nat \ {0}] /\ MaxConnects \in Nat /\ MaxGroups \in Nat

VARIABLES
    platform,
    monitor,        \* monitor[n]: inside start(), up, or inside stop()
    starts,         \* starts[n]: starts so far
    state,          \* state[n]: is the LinuxState or WindowsState stored?
    connRx,         \* connRx[n]: the start whose receiver is in conn_rx, 0 for None
    accept,         \* accept[n]: accept_loop of node.rs; it holds conn_rx in "recv"
    loops,          \* loops[n]: starts whose accept_loop or publisher_thread runs
    listeners,      \* tasks of node n and start g that listen for group i's client
    queue,          \* queue[n][g]: connections sent to the receiver of start g
    connects,       \* calls of connect() so far
    call,           \* call[n]: its connect()
    weAreGo,        \* weAreGo[n]: the role it has worked out
    seen,           \* seen[n]: groups formed before it subscribed
    target,         \* target[n]: whose address it dials
    asked,          \* asked[n]: the intent n's wpa_supplicant negotiates with
    groups,         \* the owners of the groups formed
    blind           \* history: has the node with the greater short id connected
                    \* without the other's?

nodeVars == <<monitor, starts, state, connRx, loops>>
callVars == <<connects, call, weAreGo, seen, target, blind>>
netVars == <<asked, groups>>
vars == <<platform, nodeVars, accept, listeners, queue, callVars, netVars>>

Listener == [n : Node, g : Start, i : 1..MaxGroups, st : {"bind", "listen"}]

(* Only one listener of a node has the port.                               *)
TypeOK ==
    /\ platform \in Platforms
    /\ monitor \in [Node -> {"start", "publish", "up", "clear"}]
    /\ starts \in [Node -> {0} \cup Start]
    /\ state \in [Node -> BOOLEAN]
    /\ accept \in [Node -> {"await", "call", "tried", "recv", "backoff"}]
    /\ \A n \in Node : connRx[n] \in {0, starts[n]} /\ loops[n] \subseteq 1..starts[n]
    /\ \A n \in Node : accept[n] = "recv" => connRx[n] # 0
    /\ listeners \subseteq Listener
    /\ \A n \in Node : Cardinality({l \in listeners : l.n = n /\ l.st = "listen"}) <= 1
    /\ queue \in [Node -> [Start -> 0..MaxGroups]]
    /\ connects \in 0..MaxConnects
    /\ call \in [Node -> {"idle", "sub", "group", "dial"}]
    /\ weAreGo \in [Node -> BOOLEAN] /\ seen \in [Node -> 0..Len(groups)]
    /\ target \in [Node -> {0} \cup Node] /\ asked \in [Node -> {0, 7, 15}]
    /\ groups \in Seq(Node) /\ Len(groups) <= MaxGroups /\ blind \in BOOLEAN

Init ==
    /\ platform \in Platforms
    /\ monitor = [n \in Node |-> "start"] /\ starts = [n \in Node |-> 0]
    /\ state = [n \in Node |-> FALSE] /\ connRx = [n \in Node |-> 0]
    /\ accept = [n \in Node |-> "await"]
    /\ loops = [n \in Node |-> {}] /\ listeners = {}
    /\ queue = [n \in Node |-> [g \in Start |-> 0]]
    /\ connects = 0
    /\ call = [n \in Node |-> "idle"] /\ weAreGo = [n \in Node |-> FALSE]
    /\ seen = [n \in Node |-> 0] /\ target = [n \in Node |-> 0]
    /\ asked = [n \in Node |-> 7] /\ groups = <<>> /\ blind = FALSE

Windows == platform = "windows"

(* A receiver of n takes what is sent to it until stop() has dropped it.   *)
Open(n, g) == g = starts[n] /\ monitor[n] # "start"
-----------------------------------------------------------------------------
(* start() and stop(), called in turn by health_monitor.                   *)

(* start() spawns the accept_loop or the publisher_thread and stores the   *)
(* state...                                                                *)
StartTasks(n) ==
    /\ monitor[n] = "start" /\ starts[n] < MaxStarts[n]
    /\ starts' = [starts EXCEPT ![n] = @ + 1]
    /\ loops' = [loops EXCEPT ![n] = @ \cup {starts[n] + 1}]
    /\ state' = [state EXCEPT ![n] = TRUE]
    /\ monitor' = [monitor EXCEPT ![n] = "publish"]
    /\ UNCHANGED <<platform, connRx, accept, listeners, queue, callVars, netVars>>

(* Fault: the receiver is not stored.                                      *)
PublishNothing(n) ==
    /\ monitor[n] = "publish" /\ accept[n] # "recv"
    /\ monitor' = [monitor EXCEPT ![n] = "up"]
    /\ UNCHANGED <<platform, starts, state, connRx, loops, accept, listeners, queue, callVars, netVars>>

(* ... then the receiver, under its lock.                                  *)
Publish(n) ==
    /\ monitor[n] = "publish" /\ accept[n] # "recv"
    /\ connRx' = [connRx EXCEPT ![n] = starts[n]]
    /\ monitor' = [monitor EXCEPT ![n] = "up"]
    /\ UNCHANGED <<platform, starts, state, loops, accept, listeners, queue, callVars, netVars>>

(* stop() drops the state, which on Windows signals the publisher_thread;  *)
(* on Linux accept_loop has its own handle of the D-Bus connection.        *)
DropState(n) ==
    /\ monitor[n] = "up" /\ starts[n] < MaxStarts[n]
    /\ state' = [state EXCEPT ![n] = FALSE]
    /\ monitor' = [monitor EXCEPT ![n] = "clear"]
    /\ UNCHANGED <<platform, starts, connRx, loops, accept, listeners, queue, callVars, netVars>>

(* Then it waits for the lock of conn_rx.                                  *)
ClearConnRx(n) ==
    /\ monitor[n] = "clear" /\ accept[n] # "recv"
    /\ connRx' = [connRx EXCEPT ![n] = 0]
    /\ queue' = [queue EXCEPT ![n][starts[n]] = 0]
    /\ monitor' = [monitor EXCEPT ![n] = "start"]
    /\ UNCHANGED <<platform, starts, state, loops, accept, listeners, callVars, netVars>>

(* Fault: nothing tells the publisher_thread to exit.                      *)
PublisherExitNever(n) == FALSE /\ UNCHANGED vars

(* publisher_thread returns from stop_rx and drops its conn_tx.            *)
PublisherExit(n) ==
    /\ Windows
    /\ \E g \in loops[n] :
        /\ g # starts[n] \/ ~state[n]
        /\ loops' = [loops EXCEPT ![n] = @ \ {g}]
    /\ UNCHANGED <<platform, monitor, starts, state, connRx, accept, listeners, queue, callVars, netVars>>

(* The task gives up: a proxy, a signal subscription or the publisher      *)
(* cannot be set up.                                                       *)
TaskFails(n) ==
    /\ starts[n] \in loops[n] /\ groups = <<>>
    /\ loops' = [loops EXCEPT ![n] = @ \ {starts[n]}]
    /\ UNCHANGED <<platform, monitor, starts, state, connRx, accept, listeners, queue, callVars, netVars>>
-----------------------------------------------------------------------------
(* accept_loop of node.rs and accept().  stop() and start() are ahead of   *)
(* it when they already wait for the lock.                                 *)

Goto(n, s) == accept' = [accept EXCEPT ![n] = s]
Unlocked(n) == monitor[n] \notin {"publish", "clear"}

AcceptBegin(n) ==
    /\ (accept[n] = "await" /\ monitor[n] = "up") \/ accept[n] = "backoff"
    /\ Goto(n, "call")
    /\ UNCHANGED <<platform, nodeVars, listeners, queue, callVars, netVars>>

(* On Linux the lock is first taken for a try_recv.                        *)
AcceptTry(n) ==
    /\ accept[n] = "call" /\ ~Windows /\ Unlocked(n)
    /\ IF connRx[n] # 0 /\ queue[n][starts[n]] > 0
       THEN queue' = [queue EXCEPT ![n][starts[n]] = @ - 1] /\ UNCHANGED accept
       ELSE Goto(n, "tried") /\ UNCHANGED queue
    /\ UNCHANGED <<platform, nodeVars, listeners, callVars, netVars>>

AcceptLock(n) ==
    /\ accept[n] = (IF Windows THEN "call" ELSE "tried") /\ Unlocked(n)
    /\ Goto(n, IF connRx[n] = 0 THEN "backoff" ELSE "recv")
    /\ UNCHANGED <<platform, nodeVars, listeners, queue, callVars, netVars>>

AcceptConn(n) ==
    /\ accept[n] = "recv" /\ queue[n][connRx[n]] > 0
    /\ queue' = [queue EXCEPT ![n][connRx[n]] = @ - 1]
    /\ Goto(n, "call")
    /\ UNCHANGED <<platform, nodeVars, listeners, callVars, netVars>>

(* recv() returns None when the loop and its listeners have dropped every  *)
(* clone of conn_tx.                                                       *)
AcceptEnded(n) ==
    /\ accept[n] = "recv" /\ queue[n][connRx[n]] = 0
    /\ connRx[n] \notin loops[n]
    /\ ~\E l \in listeners : l.n = n /\ l.g = connRx[n]
    /\ Goto(n, "backoff")
    /\ UNCHANGED <<platform, nodeVars, listeners, queue, callVars, netVars>>
-----------------------------------------------------------------------------
(* connect().  The side with the greater short id is to own the group; a   *)
(* peer whose announcement has no short id is taken for the owner.         *)
ElectGo(n, known) == known /\ n > Peer(n)

(* Fault: the two intents are the wrong way round.                         *)
GoIntentSwapped(go) == IF go THEN 0 ELSE 15

GoIntent(go) == IF go THEN 15 ELSE 0

(* It returns an error at once without a state, and on Windows to the      *)
(* owner, which is to wait in accept() instead.  On Linux it subscribes to *)
(* the signal for new groups.                                              *)
Connect(n, known) ==
    /\ connects < MaxConnects
    /\ connects' = connects + 1
    /\ call[n] = "idle"
    /\ state[n] /\ ~(Windows /\ ElectGo(n, known))
    /\ call' = [call EXCEPT ![n] = IF Windows THEN "group" ELSE "sub"]
    /\ weAreGo' = [weAreGo EXCEPT ![n] = ElectGo(n, known)]
    /\ seen' = [seen EXCEPT ![n] = Len(groups)]
    /\ blind' = (blind \/ (n = Greater /\ ~known))
    /\ UNCHANGED <<platform, nodeVars, accept, listeners, queue, target, netVars>>

(* It returns.                                                             *)
Return(n) ==
    /\ call' = [call EXCEPT ![n] = "idle"] /\ target' = [target EXCEPT ![n] = 0]
    /\ weAreGo' = [weAreGo EXCEPT ![n] = FALSE] /\ seen' = [seen EXCEPT ![n] = 0]
    /\ UNCHANGED <<platform, nodeVars, accept, connects, blind>>

(* P2PConnect: wpa_supplicant takes the intent over.  It does not come     *)
(* back to the default when the caller gives up.                           *)
P2PConnect(n) ==
    /\ call[n] = "sub"
    /\ asked' = [asked EXCEPT ![n] = GoIntent(weAreGo[n])]
    /\ call' = [call EXCEPT ![n] = "group"]
    /\ UNCHANGED <<platform, nodeVars, accept, listeners, queue, connects, weAreGo, seen, target, blind, groups>>

(* One listener for every accept_loop, or publisher_thread, that hears of  *)
(* the group.                                                              *)
NewListeners(go) ==
    listeners' = listeners \cup
        {[n |-> go, g |-> g, i |-> Len(groups) + 1, st |-> "bind"] : g \in loops[go]}

(* wpa_supplicant: the greater intent owns the group, a tie is broken by   *)
(* chance, and two nodes that insist get none.  A node that has not asked  *)
(* takes part with the default intent.                                     *)
LinuxGroup(go) ==
    /\ ~Windows /\ Len(groups) < MaxGroups
    /\ \E n \in Node : asked[n] # 7
    /\ asked[go] >= asked[Peer(go)] /\ ~\A n \in Node : asked[n] = 15
    /\ groups' = Append(groups, go)
    /\ asked' = [n \in Node |-> 7]
    /\ NewListeners(go)
    /\ UNCHANGED <<platform, nodeVars, accept, queue, callVars>>

(* connect takes the first group since it subscribed, whoever asked for    *)
(* it: extract_go_ip reads "ip_addr", the address of the node itself, when *)
(* the role it has worked out is the owner's, else "ip_addr_go".           *)
TakeGroup(n) ==
    /\ ~Windows /\ call[n] = "group" /\ Len(groups) > seen[n]
    /\ call' = [call EXCEPT ![n] = "dial"]
    /\ target' = [target EXCEPT ![n] = IF weAreGo[n] THEN n ELSE groups[seen[n] + 1]]
    /\ UNCHANGED <<platform, nodeVars, accept, listeners, queue, connects, weAreGo, seen, blind, netVars>>

(* WinRT: FromIdAsync of the client raises ConnectionRequested at a peer   *)
(* that listens.                                                           *)
WindowsGroup(n) ==
    /\ Windows /\ Len(groups) < MaxGroups
    /\ call[n] = "group" /\ loops[Peer(n)] # {}
    /\ groups' = Append(groups, Peer(n))
    /\ NewListeners(Peer(n))
    /\ call' = [call EXCEPT ![n] = "dial"] /\ target' = [target EXCEPT ![n] = Peer(n)]
    /\ UNCHANGED <<platform, nodeVars, accept, queue, connects, weAreGo, seen, blind, asked>>

(* P2PConnect or FromIdAsync fails, no group forms within 30 s, or the     *)
(* property that extract_go_ip looks for is missing.                       *)
ConnectErr(n) ==
    /\ call[n] \in {"sub", "group"}
    /\ Return(n)
    /\ UNCHANGED <<listeners, queue, netVars>>

(* The port is bound for one group at a time, and the attempt may fail.    *)
Bind(l) ==
    /\ l.st = "bind"
    /\ \/ /\ ~\E o \in listeners : o.n = l.n /\ o.st = "listen"
          /\ listeners' = (listeners \ {l}) \cup {[l EXCEPT !.st = "listen"]}
       \/ listeners' = listeners \ {l}
    /\ UNCHANGED <<platform, nodeVars, accept, queue, callVars, netVars>>

(* A dialled listener takes this one connection, sends it to the receiver  *)
(* of its start, if there still is one, and ends.                          *)
DialOk(n) ==
    /\ call[n] = "dial"
    /\ \E l \in listeners :
        /\ l.n = target[n] /\ l.st = "listen"
        /\ listeners' = listeners \ {l}
        /\ queue' = IF Open(l.n, l.g) THEN [queue EXCEPT ![l.n][l.g] = @ + 1] ELSE queue
    /\ Return(n)
    /\ UNCHANGED netVars

DialErr(n) ==
    /\ call[n] = "dial"
    /\ Return(n)
    /\ UNCHANGED <<listeners, queue, netVars>>
-----------------------------------------------------------------------------
AcceptStep(n) ==
    AcceptBegin(n) \/ AcceptTry(n) \/ AcceptLock(n) \/ AcceptConn(n) \/ AcceptEnded(n)
MonitorStep(n) == Publish(n) \/ ClearConnRx(n)
CallStep(n) == P2PConnect(n) \/ TakeGroup(n) \/ ConnectErr(n) \/ DialOk(n) \/ DialErr(n)

Next ==
    \/ \E n \in Node :
        \/ StartTasks(n) \/ DropState(n) \/ MonitorStep(n)
        \/ PublisherExit(n) \/ TaskFails(n)
        \/ AcceptStep(n)
        \/ \E known \in BOOLEAN : Connect(n, known)
        \/ CallStep(n)
        \/ LinuxGroup(n) \/ WindowsGroup(n)
    \/ \E l \in listeners : Bind(l)

Spec == Init /\ [][Next]_vars

(* Tasks run, timers fire, a bind and a dial come to an end.  Nobody need  *)
(* connect, and no group need form.                                        *)
FairSpec ==
    /\ Spec
    /\ \A n \in Node :
        WF_vars(MonitorStep(n)) /\ WF_vars(PublisherExit(n))
        /\ WF_vars(AcceptStep(n)) /\ WF_vars(CallStep(n))
    /\ WF_vars(\E l \in listeners : Bind(l))

(* "higher short_id becomes GO" (windows.rs, connect): as long as the node *)
(* with the greater short id has had its peer's in every connect(), it     *)
(* owns every group, and the other node dials it, whichever side asked for *)
(* the group, with or without a short id, and whether the group comes in   *)
(* time or is the late result of a connect() that gave up.                 *)
(* Every variable has its type, too.                                       *)
GreaterIsOwner ==
    /\ TypeOK
    /\ ~blind =>
        /\ \A i \in DOMAIN groups : groups[i] = Greater
        /\ call[Peer(Greater)] = "dial" => target[Peer(Greater)] = Greater

(* A connection that a listener has accepted is handed to accept_loop of   *)
(* the node, unless the transport is being stopped.                        *)
Waits(n) == \E g \in Start : queue[n][g] > 0
InboundIsAccepted ==
    \A n \in Node : Waits(n) ~> ~Waits(n) \/ monitor[n] = "clear"

(* "conn_tx dropping causes accept()'s recv() to return None" (Windows):   *)
(* stop() returns, unless a listener still waits for the client of a group.*)
WindowsStopReturns ==
    \A n \in Node : Windows /\ monitor[n] = "clear" ~>
        monitor[n] = "start" \/ \E l \in listeners : l.n = n /\ l.st = "listen"

(* "conn_tx dropping causes accept_loop's channel send to fail, exiting    *)
(* the loop" (Linux): stop() returns.                                      *)
StopReturns == \A n \in Node : monitor[n] = "clear" ~> monitor[n] = "start"

(* "we bind and wait for the incoming TCP connection instead"              *)
(* (extract_go_ip): the owner of a group does not dial.                    *)
OwnerDoesNotDial == \A n \in Node : call[n] = "dial" => target[n] # n

(* "When we are GO, the peer is the client; when we are client, the peer   *)
(* is GO" (extract_go_ip): the role connect() has worked out is the one it *)
(* has in the group it takes.                                              *)
RoleIsKept ==
    ~Windows => \A n \in Node :
        call[n] = "dial" => (weAreGo[n] <=> groups[seen[n] + 1] = n)

(* While the transport is up, a connection accepted on its port is queued  *)
(* for accept(): no task of an earlier start takes it.                     *)
NoStaleListener ==
    [][\A n \in Node : DialOk(n) /\ monitor[target[n]] = "up" => queue' # queue]_vars
=============================================================================
