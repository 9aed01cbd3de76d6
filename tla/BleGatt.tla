-------------------------------- MODULE BleGatt -------------------------------
(***************************************************************************)
(* The GATT transport of pathweave-transport-ble: one node in the          *)
(* peripheral role (start, stop and accept of BleTransport, the task that  *)
(* bridges GATT events to connections, the handle_incoming tasks they are  *)
(* given to) and the centrals that call connect() on it.  The three        *)
(* platforms share accept, stop and BlePeripheralConnection; the bridging  *)
(* task is peripheral_loop on Linux and windows_peripheral_task or         *)
(* macos_peripheral_task, which are alike, elsewhere.                      *)
(*                                                                         *)
(* A session is what a central does with one connect(): message 1 out,     *)
(* message 2 back, message 3 and a payload out, an answer back.            *)
(***************************************************************************)
EXTENDS Naturals, Sequences, FiniteSets, FiniteSetsExt

CONSTANTS
    Platforms,      \* platforms the peripheral may run on
    Setups,         \* what is around it: the centrals in range, whether its
                    \* tasks are quicker than the radio, and a bound on the
                    \* calls of connect()
    MaxStarts       \* bound: calls of start(); all but the last are followed by stop()

ASSUME PlatformsKnown == Platforms \subseteq {"linux", "windows", "macos"}
ASSUME MaxStartsType == MaxStarts \in Nat
ASSUME SetupsType ==
    Setups # {} /\ \A u \in Setups :
        IsFiniteSet(u.present) /\ u.prompt \in BOOLEAN /\ u.sessions \in Nat \ {0}

Central == UNION {u.present : u \in Setups}
Session == 1..Max({u.sessions : u \in Setups})
Start == 1..MaxStarts
Conn == 1..(2 * Cardinality(Session))
Frame == [k : {"m1", "m2", "m3", "data", "answer"}, s : {0} \cup Session]

VARIABLES
    platform,       \* the peripheral's platform
    setup,          \* one of Setups
    monitor,        \* health_monitor: inside start(), up, or inside stop()
    starts,         \* starts so far; each has a GATT application of its own
    connRx,         \* the start whose receiver is in conn_rx, 0 for None
    accept,         \* accept_loop; it holds the guard of conn_rx in "recv"
    gatt,           \* gatt[g]: the GATT application and the task of start g
    conn,           \* conn[k]: the k-th BlePeripheralConnection and its handler
    conns,          \* how many there are
    central,        \* central[c]: its current session
    sessions        \* sessions so far

transportVars == <<monitor, starts, connRx, accept>>
fixed == <<platform, setup>>
vars == <<fixed, transportVars, gatt, conn, conns, central, sessions>>

NoGatt == [task |-> "none", stop |-> FALSE, events |-> <<>>, signals |-> 0,
           writes |-> <<>>, active |-> 0, writer |-> 0, current |-> 0,
           replies |-> <<>>, queue |-> <<>>]
NoConn == [gen |-> 0, st |-> "none", rx |-> <<>>, ses |-> 0]
NoSession == [st |-> "idle", ses |-> 0, link |-> 0, inbox |-> <<>>, hung |-> FALSE]

Init ==
    /\ platform \in Platforms
    /\ setup \in Setups
    /\ monitor = "start" /\ starts = 0 /\ connRx = 0 /\ accept = "await"
    /\ gatt = [g \in Start |-> NoGatt]
    /\ conn = [k \in Conn |-> NoConn] /\ conns = 0
    /\ central = [c \in Central |-> NoSession] /\ sessions = 0

(* accept() only waits on a receiver that is in conn_rx, and what is       *)
(* queued there has not been handled.                                      *)
TypeOK ==
    /\ monitor \in {"start", "publish", "up", "clear"}
    /\ accept \in {"await", "call", "recv", "backoff"}
    /\ starts \in 0..MaxStarts /\ connRx \in {0, starts}
    /\ conns \in 0..Cardinality(Conn) /\ sessions \in {0} \cup Session
    /\ accept = "recv" => connRx # 0
    /\ \A g \in Start :
        /\ gatt[g].task \in {"none", "wait", "serve", "gone"}
        /\ gatt[g].active \in 0..conns /\ gatt[g].current \in 0..conns
        /\ \A i \in DOMAIN gatt[g].queue : conn[gatt[g].queue[i]].st = "queued"
    /\ \A k \in Conn :
        /\ conn[k].st \in {"none", "queued", "m1", "m3", "data", "ended"}
        /\ conn[k].st = "none" <=> k > conns
    /\ \A c \in Central :
        /\ central[c].st \in {"idle", "settle", "subscribed", "m2", "answer", "done", "failed"}
        /\ central[c].link \in 0..starts

Linux == platform = "linux"
Serving(g) == gatt[g].task \in {"wait", "serve"}
Subscribed(g) == {c \in Central : central[c].link = g}
Ended(k) == [NoConn EXCEPT !.gen = conn[k].gen, !.st = "ended"]
-----------------------------------------------------------------------------
(* The transport: start() and stop(), called in turn by health_monitor.    *)

(* start_peripheral registers the application and spawns the task...       *)
StartPeripheral ==
    /\ monitor = "start"
    /\ starts < MaxStarts
    /\ starts' = starts + 1
    /\ gatt' = [gatt EXCEPT ![starts + 1].task = "wait"]
    /\ monitor' = "publish"
    /\ UNCHANGED <<fixed, connRx, accept, conn, conns, central, sessions>>

(* ... and stores the receiver, under the lock of conn_rx.                 *)
Publish ==
    /\ monitor = "publish" /\ accept # "recv"
    /\ connRx' = starts
    /\ monitor' = "up"
    /\ UNCHANGED <<fixed, starts, accept, gatt, conn, conns, central, sessions>>

(* stop() drops BlePeripheralState: the handles on Linux, the stop signal  *)
(* elsewhere.                                                              *)
DropPeripheral ==
    /\ monitor = "up"
    /\ starts < MaxStarts
    /\ gatt' = [gatt EXCEPT ![starts].stop = TRUE]
    /\ monitor' = "clear"
    /\ UNCHANGED <<fixed, starts, connRx, accept, conn, conns, central, sessions>>

(* Then it waits for the lock, and drops the receiver with all that is     *)
(* queued in it.                                                           *)
ClearConnRx ==
    /\ monitor = "clear" /\ accept # "recv"
    /\ connRx' = 0
    /\ gatt' = [gatt EXCEPT ![starts].queue = <<>>]
    /\ conn' = [k \in Conn |-> IF conn[k].st = "queued" THEN Ended(k) ELSE conn[k]]
    /\ monitor' = "start"
    /\ UNCHANGED <<fixed, starts, accept, conns, central, sessions>>

(* accept_loop waits for the first start().                                *)
AcceptStarted ==
    /\ accept = "await" /\ monitor = "up"
    /\ accept' = "call"
    /\ UNCHANGED <<fixed, monitor, starts, connRx, gatt, conn, conns, central, sessions>>

(* accept() takes the lock; stop() and start() are ahead of it when they   *)
(* already wait for it.                                                    *)
AcceptCall ==
    /\ accept = "call" /\ monitor \notin {"publish", "clear"}
    /\ accept' = IF connRx = 0 THEN "backoff" ELSE "recv"
    /\ UNCHANGED <<fixed, monitor, starts, connRx, gatt, conn, conns, central, sessions>>

AcceptConn ==
    /\ accept = "recv" /\ gatt[connRx].queue # <<>>
    /\ gatt' = [gatt EXCEPT ![connRx].queue = Tail(@)]
    /\ conn' = [conn EXCEPT ![Head(gatt[connRx].queue)].st = "m1"]
    /\ accept' = "call"
    /\ UNCHANGED <<fixed, monitor, starts, connRx, conns, central, sessions>>

(* recv() returns None once the task has dropped conn_tx.                  *)
AcceptEnded ==
    /\ accept = "recv" /\ gatt[connRx].queue = <<>> /\ gatt[connRx].task = "gone"
    /\ accept' = "backoff"
    /\ UNCHANGED <<fixed, monitor, starts, connRx, gatt, conn, conns, central, sessions>>

AcceptRetry ==
    /\ accept = "backoff"
    /\ accept' = "call"
    /\ UNCHANGED <<fixed, monitor, starts, connRx, gatt, conn, conns, central, sessions>>
-----------------------------------------------------------------------------
(* The bridging task.                                                      *)

(* A new BlePeripheralConnection goes to conn_tx; it is dropped at once    *)
(* when stop() has already dropped the receiver.  new is the application   *)
(* record with the event consumed.                                         *)
Open(g, new) ==
    LET heard == g = starts /\ monitor # "start"
    IN  /\ conns' = conns + 1
        /\ conn' = [conn EXCEPT ![conns + 1] =
                      [NoConn EXCEPT !.gen = g, !.st = IF heard THEN "queued" ELSE "ended"]]
        /\ gatt' = [gatt EXCEPT ![g] =
                      [new EXCEPT !.active = conns + 1, !.current = conns + 1,
                                  !.queue = IF heard THEN Append(@, conns + 1) ELSE @]]

(* A notification reaches the centrals in to that still hold their         *)
(* BleConnection.                                                          *)
Waiting == {"subscribed", "m2", "answer"}
Notify(to, f) ==
    central' = [c \in Central |->
                  IF c \in to /\ central[c].st \in Waiting
                  THEN [central[c] EXCEPT !.inbox = Append(@, f)] ELSE central[c]]

(* Fault: a connection counts as active until a write to it fails.         *)
LinuxNotifyAnyActive(g) ==
    /\ Linux /\ Serving(g) /\ gatt[g].events # <<>>
    /\ LET new == [gatt[g] EXCEPT !.events = Tail(@)]
       IN  IF gatt[g].active # 0 THEN gatt' = [gatt EXCEPT ![g] = new] /\ UNCHANGED <<conn, conns>>
           ELSE Open(g, [new EXCEPT !.writer = Head(gatt[g].events)])
    /\ UNCHANGED <<fixed, transportVars, central, sessions>>

(* peripheral_loop: a subscriber is ignored while the connection is open.  *)
LinuxNotify(g) ==
    /\ Linux /\ Serving(g) /\ gatt[g].events # <<>>
    /\ LET new == [gatt[g] EXCEPT !.events = Tail(@)]
           busy == gatt[g].active # 0 /\ conn[gatt[g].active].st # "ended"
       IN  IF busy THEN gatt' = [gatt EXCEPT ![g] = new] /\ UNCHANGED <<conn, conns>>
                   ELSE Open(g, [new EXCEPT !.writer = Head(gatt[g].events)])
    /\ UNCHANGED <<fixed, transportVars, central, sessions>>

(* A written frame goes to the active connection, whoever wrote it; with   *)
(* none it is discarded.  peripheral_loop forgets a connection that has    *)
(* dropped its receiver.                                                   *)
LinuxWrite(g) ==
    /\ Linux /\ Serving(g) /\ gatt[g].writes # <<>>
    /\ LET k == gatt[g].active
           closed == k # 0 /\ conn[k].st = "ended"
       IN  /\ gatt' = [gatt EXCEPT ![g].writes = Tail(@), ![g].active = IF closed THEN 0 ELSE @]
           /\ conn' = IF k = 0 \/ closed THEN conn
                      ELSE [conn EXCEPT ![k].rx = Append(@, Head(gatt[g].writes))]
    /\ UNCHANGED <<fixed, transportVars, conns, central, sessions>>

(* The callbacks of Windows and macOS do not look whether the send failed. *)
ForwardWrite(g) ==
    /\ ~Linux /\ Serving(g) /\ gatt[g].writes # <<>>
    /\ gatt' = [gatt EXCEPT ![g].writes = Tail(@)]
    /\ LET k == gatt[g].active
       IN  conn' = IF k = 0 \/ conn[k].st = "ended" THEN conn
                   ELSE [conn EXCEPT ![k].rx = Append(@, Head(gatt[g].writes))]
    /\ UNCHANGED <<fixed, transportVars, conns, central, sessions>>

(* peripheral_loop writes a reply to the subscriber it knows.  The replies *)
(* of all its connections share one channel.                               *)
LinuxReply(g) ==
    /\ Linux /\ Serving(g) /\ gatt[g].replies # <<>> /\ gatt[g].writer # 0
    /\ LET to == {c \in Subscribed(g) : central[c].ses = gatt[g].writer}
       IN  /\ gatt' = [gatt EXCEPT ![g].replies = Tail(@),
                                   ![g].writer = IF to = {} THEN 0 ELSE @,
                                   ![g].active = IF to = {} THEN 0 ELSE @]
           /\ Notify(to, Head(gatt[g].replies))
    /\ UNCHANGED <<fixed, transportVars, conn, conns, sessions>>

(* Fault: the handler ignores subscribers that go.                         *)
WindowsClientsChangedComingOnly(g) ==
    /\ platform = "windows" /\ gatt[g].events # <<>>
    /\ gatt' = [gatt EXCEPT ![g].events = Tail(@),
                            ![g].signals = IF Subscribed(g) # {} THEN @ + 1 ELSE @]
    /\ UNCHANGED <<fixed, transportVars, conn, conns, central, sessions>>

(* Windows calls SubscribedClientsChanged for subscribers that come and    *)
(* that go, and the handler looks at how many there are now.               *)
WindowsClientsChanged(g) ==
    /\ platform = "windows" /\ gatt[g].events # <<>>
    /\ gatt' = [gatt EXCEPT ![g].events = Tail(@),
                            ![g].signals = IF Subscribed(g) # {} THEN @ + 1 ELSE @,
                            ![g].active = IF Subscribed(g) # {} THEN @ ELSE 0]
    /\ UNCHANGED <<fixed, transportVars, conn, conns, central, sessions>>

MacosDidSubscribe(g) ==
    /\ platform = "macos" /\ gatt[g].events # <<>>
    /\ gatt' = [gatt EXCEPT ![g].events = Tail(@), ![g].signals = @ + 1]
    /\ UNCHANGED <<fixed, transportVars, conn, conns, central, sessions>>

(* The task of Windows and macOS, outer loop.                              *)
TakeSubscriber(g) ==
    /\ ~Linux /\ gatt[g].task = "wait" /\ gatt[g].signals > 0
    /\ Open(g, [gatt[g] EXCEPT !.signals = @ - 1, !.task = "serve"])
    /\ UNCHANGED <<fixed, transportVars, central, sessions>>

(* Inner loop: a later signal is consumed; a reply goes to everyone        *)
(* subscribed; the loop ends when the handler has dropped reply_tx.        *)
IgnoreSubscriber(g) ==
    /\ ~Linux /\ gatt[g].task = "serve" /\ gatt[g].signals > 0
    /\ gatt' = [gatt EXCEPT ![g].signals = @ - 1]
    /\ UNCHANGED <<fixed, transportVars, conn, conns, central, sessions>>

TaskReply(g) ==
    /\ ~Linux /\ gatt[g].task = "serve" /\ gatt[g].replies # <<>>
    /\ gatt' = [gatt EXCEPT ![g].replies = Tail(@)]
    /\ Notify(Subscribed(g), Head(gatt[g].replies))
    /\ UNCHANGED <<fixed, transportVars, conn, conns, sessions>>

ConnectionGone(g) ==
    /\ ~Linux /\ gatt[g].task = "serve"
    /\ gatt[g].replies = <<>> /\ conn[gatt[g].current].st = "ended"
    /\ gatt' = [gatt EXCEPT ![g].task = "wait", ![g].active = 0]
    /\ UNCHANGED <<fixed, transportVars, conn, conns, central, sessions>>

(* Fault: the task leaves write_forward set when it exits.                 *)
TaskExitKeepsForward(g) ==
    /\ Serving(g) /\ gatt[g].stop
    /\ gatt' = [gatt EXCEPT ![g] = [NoGatt EXCEPT !.task = "gone", !.stop = TRUE,
                                                  !.queue = gatt[g].queue, !.active = gatt[g].active]]
    /\ UNCHANGED <<fixed, transportVars, conn, conns, central, sessions>>

(* Fault: the inner loop does not watch for the stop signal.               *)
TaskExitWhenIdle(g) ==
    /\ gatt[g].task = "wait" /\ gatt[g].stop
    /\ gatt' = [gatt EXCEPT ![g] = [NoGatt EXCEPT !.task = "gone", !.stop = TRUE,
                                                  !.queue = gatt[g].queue]]
    /\ UNCHANGED <<fixed, transportVars, conn, conns, central, sessions>>

(* The streams of peripheral_loop have ended, or the stop signal fired.    *)
TaskExit(g) ==
    /\ Serving(g) /\ gatt[g].stop
    /\ gatt' = [gatt EXCEPT ![g] = [NoGatt EXCEPT !.task = "gone", !.stop = TRUE,
                                                  !.queue = gatt[g].queue]]
    /\ UNCHANGED <<fixed, transportVars, conn, conns, central, sessions>>
-----------------------------------------------------------------------------
(* handle_incoming on a BlePeripheralConnection.                           *)

(* send_bytes fails when the task has dropped the other end.               *)
Reply(k, kind, s, st) ==
    LET g == conn[k].gen
        sent == Serving(g)
    IN  /\ gatt' = IF sent THEN [gatt EXCEPT ![g].replies = Append(@, [k |-> kind, s |-> s])] ELSE gatt
        /\ conn' = [conn EXCEPT ![k] = IF sent THEN [@ EXCEPT !.rx = Tail(@), !.ses = s, !.st = st]
                                               ELSE Ended(k)]

(* Message 1 is not authenticated: a frame of another kind is refused for  *)
(* its first byte, or by chance read as one.  Every later frame must be of *)
(* the session, and anything else ends the handler.                        *)
Receive(k) ==
    /\ conn[k].st \in {"m1", "m3", "data"} /\ conn[k].rx # <<>>
    /\ LET f == Head(conn[k].rx)
           ours == f.s = conn[k].ses
           end == conn' = [conn EXCEPT ![k] = Ended(k)] /\ UNCHANGED gatt
       IN  \/ conn[k].st = "m1" /\ f.k = "m1" /\ Reply(k, "m2", f.s, "m3")
           \/ conn[k].st = "m1" /\ f.k # "m1" /\ (end \/ Reply(k, "m2", 0, "m3"))
           \/ /\ conn[k].st = "m3" /\ f.k = "m3" /\ ours
              /\ conn' = [conn EXCEPT ![k].st = "data", ![k].rx = Tail(@)]
              /\ UNCHANGED gatt
           \/ conn[k].st = "data" /\ f.k = "data" /\ ours /\ Reply(k, "answer", f.s, "data")
           \/ conn[k].st # "m1" /\ ~(ours /\ f.k = conn[k].st) /\ end
    /\ UNCHANGED <<fixed, transportVars, conns, central, sessions>>

(* recv_bytes fails once the sender, active_write_tx or write_forward, is  *)
(* gone and the channel is drained.                                        *)
ReceiveClosed(k) ==
    /\ conn[k].st \in {"m1", "m3", "data"} /\ conn[k].rx = <<>>
    /\ gatt[conn[k].gen].active # k
    /\ conn' = [conn EXCEPT ![k] = Ended(k)]
    /\ UNCHANGED <<fixed, transportVars, gatt, conns, central, sessions>>

Task(g) ==
    \/ LinuxNotify(g) \/ LinuxReply(g)
    \/ WindowsClientsChanged(g) \/ MacosDidSubscribe(g)
    \/ LinuxWrite(g) \/ ForwardWrite(g)
    \/ TakeSubscriber(g) \/ IgnoreSubscriber(g) \/ TaskReply(g) \/ ConnectionGone(g)
    \/ TaskExit(g)
Handler(k) == Receive(k) \/ ReceiveClosed(k)
AcceptStep == AcceptStarted \/ AcceptCall \/ AcceptConn \/ AcceptEnded

Local == AcceptStep \/ (\E g \in Start : Task(g)) \/ (\E k \in Conn : Handler(k))

(* A frame or an event takes the radio milliseconds; when the tasks are    *)
(* prompt, and the transport is up, they have dealt with the last one      *)
(* before the next arrives.                                                *)
Radio == setup.prompt => monitor = "up" /\ accept = "recv" /\ ~ENABLED Local
-----------------------------------------------------------------------------
(* The centrals: connect() and the session on the BleConnection it returns. *)

(* Losing a subscriber is an event on Windows only.                        *)
Leave(c) ==
    LET g == central[c].link
    IN  IF g # 0 /\ platform = "windows" /\ Serving(g)
        THEN [gatt EXCEPT ![g].events = Append(@, 0)] ELSE gatt

Send(g, kinds, s) ==
    IF Serving(g) THEN [gatt EXCEPT ![g].writes = @ \o [i \in DOMAIN kinds |-> [k |-> kinds[i], s |-> s]]]
                  ELSE gatt

(* connect() first disconnects what an earlier call left connected.        *)
Connect(c) ==
    /\ Radio
    /\ c \in setup.present /\ central[c].st \in {"idle", "done", "failed"}
    /\ sessions < setup.sessions
    /\ sessions' = sessions + 1
    /\ gatt' = Leave(c)
    /\ central' = [central EXCEPT ![c].st = "settle", ![c].ses = sessions + 1,
                                  ![c].link = 0, ![c].inbox = <<>>]
    /\ UNCHANGED <<fixed, transportVars, conn, conns>>

(* After 500 ms it connects and subscribes to the notify characteristic,   *)
(* or returns an error.                                                    *)
Subscribe(c) ==
    /\ Radio
    /\ central[c].st = "settle"
    /\ \E g \in Start :
        /\ Serving(g) /\ (Linux => ~gatt[g].stop)
        /\ gatt' = [gatt EXCEPT ![g].events = Append(@, central[c].ses)]
        /\ central' = [central EXCEPT ![c].st = "subscribed", ![c].link = g]
    /\ UNCHANGED <<fixed, transportVars, conn, conns, sessions>>

ConnectErr(c) ==
    /\ central[c].st = "settle"
    /\ central' = [central EXCEPT ![c].st = "failed", ![c].hung = FALSE]
    /\ UNCHANGED <<fixed, transportVars, gatt, conn, conns, sessions>>

(* The initiator: message 1; message 2 in, message 3 and a payload out;    *)
(* the answer.                                                             *)
Initiate(c) ==
    /\ Radio
    /\ central[c].st = "subscribed"
    /\ gatt' = Send(central[c].link, <<"m1">>, central[c].ses)
    /\ central' = [central EXCEPT ![c].st = "m2"]
    /\ UNCHANGED <<fixed, transportVars, conn, conns, sessions>>

ReadM2(c) ==
    /\ Radio
    /\ central[c].st = "m2" /\ central[c].inbox # <<>>
    /\ IF Head(central[c].inbox) = [k |-> "m2", s |-> central[c].ses]
       THEN /\ gatt' = Send(central[c].link, <<"m3", "data">>, central[c].ses)
            /\ central' = [central EXCEPT ![c].st = "answer", ![c].inbox = Tail(@)]
       ELSE /\ central' = [central EXCEPT ![c].st = "failed", ![c].inbox = <<>>, ![c].hung = FALSE]
            /\ UNCHANGED gatt
    /\ UNCHANGED <<fixed, transportVars, conn, conns, sessions>>

ReadAnswer(c) ==
    /\ central[c].st = "answer" /\ central[c].inbox # <<>>
    /\ LET ours == Head(central[c].inbox) = [k |-> "answer", s |-> central[c].ses]
       IN  central' = [central EXCEPT ![c].st = IF ours THEN "done" ELSE "failed",
                                      ![c].inbox = <<>>, ![c].hung = FALSE]
    /\ UNCHANGED <<fixed, transportVars, gatt, conn, conns, sessions>>

(* try_connect closes its session; try_send just drops it.                 *)
Close(c) ==
    /\ Radio
    /\ central[c].st = "done" /\ central[c].link # 0
    /\ gatt' = Leave(c)
    /\ central' = [central EXCEPT ![c].link = 0]
    /\ UNCHANGED <<fixed, transportVars, conn, conns, sessions>>

(* The central waits for a frame that nothing will send, although the      *)
(* peripheral it is linked to is up.                                       *)
Stuck(c) ==
    /\ central[c].st \in {"m2", "answer"} /\ central[c].inbox = <<>>
    /\ monitor = "up" /\ central[c].link = starts
    /\ accept = "recv"
    /\ ~ENABLED Local

(* The link breaks: the notification stream of the central ends.           *)
LinkLoss(c) ==
    /\ Radio
    /\ central[c].link # 0
    /\ gatt' = Leave(c)
    /\ central' = [central EXCEPT ![c].link = 0,
                     ![c].st = IF @ \in Waiting THEN "failed" ELSE @,
                     ![c].inbox = <<>>, ![c].hung = setup.prompt /\ Stuck(c)]
    /\ UNCHANGED <<fixed, transportVars, conn, conns, sessions>>
-----------------------------------------------------------------------------
CentralStep(c) ==
    \/ Connect(c) \/ Subscribe(c) \/ ConnectErr(c) \/ Initiate(c)
    \/ ReadM2(c) \/ ReadAnswer(c) \/ Close(c) \/ LinkLoss(c)

Next ==
    \/ StartPeripheral \/ Publish \/ DropPeripheral \/ ClearConnRx
    \/ AcceptStep \/ AcceptRetry
    \/ \E g \in Start : Task(g)
    \/ \E k \in Conn : Handler(k)
    \/ \E c \in Central : CentralStep(c)

Spec == Init /\ [][Next]_vars

(* The peripheral's tasks run and its calls of stop() go on once they can; *)
(* nothing is assumed of the centrals, of the radio or of when stop() is   *)
(* called.                                                                 *)
FairSpec ==
    /\ Spec
    /\ WF_vars(Publish) /\ WF_vars(ClearConnRx) /\ WF_vars(AcceptStep)
    /\ \A g \in Start : WF_vars(Task(g))
    /\ \A k \in Conn : WF_vars(Handler(k))

Lone == Cardinality(setup.present) = 1

(* stop() returns although accept() holds the lock it needs while waiting  *)
(* for a connection (comment on accept).                                   *)
StopReturns == monitor = "clear" ~> monitor = "start"

(* After stop() every connection of the stopped application is given up,   *)
(* also the ones still queued: no handler waits on a dead link for ever.   *)
StopEndsHandlers ==
    \A g \in Start : gatt[g].stop ~> \A k \in Conn : conn[k].gen = g => conn[k].st = "ended"

(* "Without this, the inner loop stays stuck" (Windows): a central that    *)
(* comes back, to a peripheral whose tasks keep up with the radio, is      *)
(* served each time.                                                       *)
ReturningCentralIsServed ==
    platform = "windows" /\ setup.prompt /\ Lone => \A c \in setup.present : ~Stuck(c)

(* On every platform an attempt that is left hanging by a connection it    *)
(* found open makes that connection end, so the next attempt is served.    *)
(* Every variable has its type, too.                                       *)
NeverStuckTwice ==
    /\ TypeOK
    /\ setup.prompt /\ Lone => \A c \in setup.present : Stuck(c) => ~central[c].hung

(* "allowing the next subscriber to open a fresh connection"               *)
(* (peripheral_loop): no attempt of a central that comes back hangs.       *)
NextSubscriberIsServed == setup.prompt /\ Lone => \A c \in setup.present : ~Stuck(c)

(* "A second subscriber while a connection is active is dropped" (ADR      *)
(* 014): it leaves the session of the first one alone.                     *)
SecondSubscriberIsDropped ==
    setup.prompt => \A c \in setup.present :
        central[c].st \in {"m2", "answer"} /\ central[c].link # 0 /\ gatt[central[c].link].writer = central[c].ses => ~Stuck(c)
=============================================================================
