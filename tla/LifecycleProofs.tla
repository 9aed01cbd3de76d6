--------------------------- MODULE LifecycleProofs ----------------------------
(***************************************************************************)
(* Invariants of the health monitors, for any number of transports, costs, *)
(* address sets, changes of the network and failures of start().           *)
(***************************************************************************)
EXTENDS Lifecycle, TLAPS

(* What the step of a monitor says of its transport: the flag and the      *)
(* watch value are set from Announce to Poll, and what they promise is     *)
(* there from the end of start() to stop().                                *)
MonitorInv(t) ==
    /\ hm[t] = "start" => ~endpoint[t] /\ browse[t] = "none"
    /\ hm[t] = "up" => available[t]
    /\ available[t] \/ started[t] => hm[t] \in {"up", "sleep"}
    /\ hm[t] = "announce" \/ available[t] \/ started[t] => endpoint[t] /\ browse[t] # "none"
    /\ hm[t] = "away" => next[t] \in Running /\ next[t] # t

IInv == TypeOK /\ \A t \in Running : MonitorInv(t)

(* With two transports an event that is outdated when it is fired names    *)
(* the only transport that can be up.                                      *)
TwoInv ==
    setup.count <= 2 /\ (\E t \in Running : available[t]) =>
        \/ last # 0 /\ available[last]
        \/ \E t \in Running : hm[t] \in {"up", "down", "away"}

-----------------------------------------------------------------------------
(* The transports of a setup are among those of all setups.                *)
LEMMA RunningIsTransport == setup \in Setups => Running \subseteq Transport
BY DEF Running, Transport

(* No monitor has done anything when the transports have been registered.  *)
LEMMA InitHolds == Init => IInv /\ TwoInv
<1> SUFFICES ASSUME Init PROVE IInv /\ TwoInv
    OBVIOUS
<1>1. Running \subseteq Transport
    BY RunningIsTransport DEF Init
<1>2. setup \in Setups /\ net \in Addr /\ last = 0 /\ changes = 0 /\ fails = 0
    BY DEF Init
<1>3. \A t \in Transport : ~available[t] /\ ~psLive[t] /\ ~alLive[t]
    BY DEF Init
<1>4. TypeOK
  <2>1. {prev, curr, bound} \subseteq [Transport -> Addr]
    BY <1>2 DEF Init
  <2>2. {recovery, available, started, endpoint, psLive, alLive} \subseteq [Transport -> BOOLEAN]
    BY DEF Init
  <2>3. hm \in [Transport -> {"start", "announce", "up", "sleep", "down", "away", "stop"}]
    BY DEF Init
  <2>4. next \in [Transport -> Transport]
    BY DEF Init
  <2>5. browse \in [Transport -> {"none", "ready", "taken"}]
    BY DEF Init
  <2>6. /\ ps \in [Transport -> {"await_start", "open", "stream", "connect", "await_stop"}]
        /\ al \in [Transport -> {"await_start", "call", "accept", "backoff"}]
    BY DEF Init
  <2>7. changes \in 0..setup.changes /\ fails \in 0..setup.fails
    BY <1>2, SetupsType
  <2> QED
    BY <1>2, <1>3, <2>1, <2>2, <2>3, <2>4, <2>5, <2>6, <2>7 DEF TypeOK
<1>5. ASSUME NEW t \in Running PROVE MonitorInv(t)
    BY <1>1 DEF Init, MonitorInv
<1> QED
    BY <1>1, <1>3, <1>4, <1>5 DEF IInv, TwoInv

(* The steps of a monitor keep the types.                                  *)
LEMMA MonitorTyped ==
    ASSUME IInv, NEW t \in Running, MonitorStep(t)
    PROVE  TypeOK'
<1>1. t \in Transport /\ MonitorInv(t) /\ TypeOK
    BY RunningIsTransport DEF IInv, TypeOK
<1>2. CASE StartOk(t)
    BY <1>1, <1>2 DEF StartOk, TypeOK, MonitorInv, Running
<1>3. CASE StartErr(t)
    BY <1>1, <1>3, SetupsType DEF StartErr, TypeOK, MonitorInv, Running
<1>4. CASE Announce(t)
    BY <1>1, <1>4 DEF Announce, TypeOK, Running, transportVars
<1>5. CASE Report(t)
    BY <1>1, <1>5 DEF Report, TypeOK, Running, transportVars
<1>6. CASE Poll(t)
    BY <1>1, <1>6 DEF Poll, TypeOK, Running, transportVars
<1>7. CASE FallBack(t)
  <2>1. NextBest(t) \subseteq Transport
    BY RunningIsTransport, <1>1 DEF NextBest, Others, TypeOK
  <2> QED
    BY <1>1, <1>7, <2>1 DEF FallBack, TypeOK, Running, transportVars
<1>8. CASE ReportAway(t)
    BY <1>1, <1>8 DEF ReportAway, TypeOK, MonitorInv, Running, transportVars
<1>9. CASE Stop(t)
    BY <1>1, <1>9 DEF Stop, TypeOK, Running
<1> QED
    BY <1>2, <1>3, <1>4, <1>5, <1>6, <1>7, <1>8, <1>9 DEF MonitorStep

(* A monitor changes nothing that MonitorInv says of another transport.    *)
LEMMA MonitorLocal ==
    ASSUME IInv, NEW t \in Running, MonitorStep(t), NEW u \in Running, u # t
    PROVE  MonitorInv(u)'
<1> USE DEF Running
<1>1. t \in Transport /\ u \in Transport /\ MonitorInv(u) /\ TypeOK
    BY RunningIsTransport DEF IInv, TypeOK
<1>2. /\ setup' = setup
      /\ hm'[u] = hm[u] /\ next'[u] = next[u]
      /\ available'[u] = available[u] /\ started'[u] = started[u]
      /\ endpoint'[u] = endpoint[u] /\ browse'[u] = browse[u]
    BY <1>1 DEF MonitorStep, StartOk, StartErr, Announce, Report, Poll, FallBack, ReportAway, Stop, transportVars, TypeOK
<1> QED
    BY <1>1, <1>2 DEF MonitorInv

(* ... and keeps what it says of its own.                                  *)
LEMMA MonitorOwn ==
    ASSUME IInv, NEW t \in Running, MonitorStep(t)
    PROVE  MonitorInv(t)'
<1> USE DEF Running
<1>1. t \in Transport /\ MonitorInv(t) /\ TypeOK
    BY RunningIsTransport DEF IInv, TypeOK
<1>2. CASE StartOk(t)
    BY <1>1, <1>2 DEF StartOk, TypeOK, MonitorInv
<1>3. CASE StartErr(t)
    BY <1>1, <1>3 DEF StartErr, TypeOK, MonitorInv
<1>4. CASE Announce(t)
    BY <1>1, <1>4 DEF Announce, TypeOK, MonitorInv, transportVars
<1>5. CASE Report(t)
    BY <1>1, <1>5 DEF Report, TypeOK, MonitorInv, transportVars
<1>6. CASE Poll(t)
    BY <1>1, <1>6 DEF Poll, TypeOK, MonitorInv, transportVars
<1>7. CASE FallBack(t)
  <2>1. NextBest(t) \subseteq Running \ {t}
    BY DEF NextBest, Others
  <2> QED
    BY <1>1, <1>7, <2>1 DEF FallBack, TypeOK, MonitorInv, transportVars
<1>8. CASE ReportAway(t)
    BY <1>1, <1>8 DEF ReportAway, TypeOK, MonitorInv, transportVars
<1>9. CASE Stop(t)
    BY <1>1, <1>9 DEF Stop, TypeOK, MonitorInv
<1> QED
    BY <1>2, <1>3, <1>4, <1>5, <1>6, <1>7, <1>8, <1>9 DEF MonitorStep

(* peer_stream and accept_loop write their own state, and peer_stream      *)
(* takes the discovery channel that is ready.                              *)
TaskStep(t) ==
    \/ PeerStreamStep(t) \/ PsArrival(t) \/ PsConnected(t)
    \/ AcceptStep(t) \/ AlConnection(t) \/ AlFailed(t)

LEMMA TaskKeepsMonitors ==
    ASSUME IInv, NEW t \in setup.tasks, TaskStep(t)
    PROVE  UNCHANGED <<setup, monVars, endpoint>>
           /\ browse' \in [Transport -> {"none", "ready", "taken"}]
           /\ \A u \in Transport : browse'[u] = "none" <=> browse[u] = "none"
<1>1. TypeOK
    BY DEF IInv
<1>2. CASE PsDiscover(t)
    BY <1>1, <1>2, Zenon DEF PsDiscover, TypeOK
<1>3. CASE ~PsDiscover(t)
    BY <1>1, <1>3, SMTT(30) DEF TaskStep, PeerStreamStep, AcceptStep, PsStarted, PsArrival, PsConnected, PsEnded,
        PsStopped, AlStarted, AlCall, AlConnection, AlFailed, AlClosed, AlRetry, transportVars, TypeOK
<1> QED
    BY <1>2, <1>3

LEMMA TaskTyped ==
    ASSUME IInv, NEW t \in setup.tasks, TaskStep(t)
    PROVE  TypeOK'
<1> USE DEF Running
<1>1. t \in Transport /\ TypeOK
    BY RunningIsTransport, SetupsType DEF IInv, TypeOK
<1>2. CASE PsDiscover(t)
    BY <1>1, <1>2 DEF PsDiscover, TypeOK, monVars
<1>3. CASE PsStarted(t) \/ PsArrival(t) \/ PsConnected(t) \/ PsEnded(t) \/ PsStopped(t)
  <2>1. /\ ps' \in [Transport -> {"await_start", "open", "stream", "connect", "await_stop"}]
        /\ UNCHANGED <<setup, net, monVars, transportVars, psLive, al, alLive, changes, fails>>
    BY <1>1, <1>3 DEF PsStarted, PsArrival, PsConnected, PsEnded, PsStopped, TypeOK
  <2> QED
    BY <1>1, <2>1 DEF TypeOK, monVars, transportVars
<1>4. CASE AlCall(t)
    BY <1>1, <1>4 DEF AlCall, TypeOK, monVars, transportVars
<1>5. CASE AlStarted(t) \/ AlConnection(t) \/ AlFailed(t) \/ AlClosed(t) \/ AlRetry(t)
  <2>1. /\ al' \in [Transport -> {"await_start", "call", "accept", "backoff"}]
        /\ UNCHANGED <<setup, net, monVars, transportVars, ps, psLive, alLive, changes, fails>>
    BY <1>1, <1>5 DEF AlStarted, AlConnection, AlFailed, AlClosed, AlRetry, TypeOK
  <2> QED
    BY <1>1, <2>1 DEF TypeOK, monVars, transportVars
<1> QED
    BY <1>2, <1>3, <1>4, <1>5 DEF TaskStep, PeerStreamStep, AcceptStep

-----------------------------------------------------------------------------
(* IInv is inductive.                                                      *)
LEMMA StepHolds == IInv /\ [Next]_vars => IInv'
<1> SUFFICES ASSUME IInv, [Next]_vars PROVE IInv'
    OBVIOUS
<1>1. CASE \E t \in Running : MonitorStep(t)
  <2> PICK t \in Running : MonitorStep(t)
    BY <1>1
  <2>1. setup' = setup
    BY DEF MonitorStep, StartOk, StartErr, Announce, Report, Poll, FallBack, ReportAway, Stop
  <2>2. \A u \in Running : MonitorInv(u)'
    BY MonitorOwn, MonitorLocal
  <2> QED
    BY <2>1, <2>2, MonitorTyped DEF IInv, Running
<1>2. CASE \E t \in setup.tasks : TaskStep(t)
  <2> PICK t \in setup.tasks : TaskStep(t)
    BY <1>2
  <2>1. UNCHANGED <<setup, hm, next, available, started, endpoint>>
        /\ \A u \in Transport : browse'[u] = "none" <=> browse[u] = "none"
    BY TaskKeepsMonitors DEF monVars
  <2>2. ASSUME NEW u \in Running PROVE MonitorInv(u)'
    BY <2>1, RunningIsTransport, Zenon DEF IInv, TypeOK, MonitorInv, Running
  <2> QED
    BY <2>1, <2>2, TaskTyped DEF IInv, Running
<1>3. CASE \E a \in Addr : NetworkChanges(a)
  <2>1. TypeOK'
    BY <1>3, SetupsType DEF NetworkChanges, IInv, TypeOK, Running, monVars, transportVars
  <2>2. ASSUME NEW u \in Running PROVE MonitorInv(u)'
    BY <1>3 DEF NetworkChanges, IInv, MonitorInv, Running, monVars, transportVars
  <2> QED
    BY <1>3, <2>1, <2>2 DEF IInv, Running, NetworkChanges
<1>4. CASE UNCHANGED vars
    BY <1>4 DEF vars, monVars, transportVars, IInv, TypeOK, MonitorInv, Running
<1> QED
    BY <1>1, <1>2, <1>3, <1>4 DEF Next, TaskStep

(* While IInv holds, TwoInv is kept: an event that leaves the state        *)
(* reported names a transport that is up, if one is.                       *)
LEMMA StepKeepsTwo == IInv /\ TwoInv /\ [Next]_vars => TwoInv'
<1> SUFFICES ASSUME IInv, TwoInv, [Next]_vars, setup'.count <= 2,
                    NEW w \in Running', available'[w]
             PROVE  \/ last' # 0 /\ available'[last']
                    \/ \E t \in Running' : hm'[t] \in {"up", "down", "away"}
    BY DEF TwoInv
<1>0. TypeOK /\ Running \subseteq Transport /\ setup.count \in Nat
    BY RunningIsTransport, SetupsType DEF IInv, TypeOK
<1>1. CASE UNCHANGED <<setup, monVars>>
    BY <1>1 DEF monVars, TwoInv, Running
<1>2. CASE \E t \in Running : MonitorStep(t)
  <2> PICK t \in Running : MonitorStep(t)
    BY <1>2
  <2>1. t \in Transport /\ MonitorInv(t)
    BY <1>0, SMTT(30) DEF IInv
  <2>2. setup' = setup /\ Running' = Running /\ w \in Transport
    BY <1>0, SMTT(30) DEF MonitorStep, StartOk, StartErr, Announce, Report, Poll, FallBack, ReportAway, Stop, Running
  <2>3. CASE StartOk(t) \/ StartErr(t) \/ Stop(t)
    BY <1>0, <2>1, <2>2, <2>3, SMTT(30) DEF StartOk, StartErr, Stop, TwoInv, TypeOK
  <2>4. CASE Announce(t)
    BY <1>0, <2>1, <2>2, <2>4 DEF Announce, TypeOK
  <2>5. CASE Report(t)
    BY <1>0, <2>1, <2>2, <2>5 DEF Report, Running, TypeOK, MonitorInv
  <2>6. CASE Poll(t)
    BY <1>0, <2>1, <2>2, <2>6, SMTT(30) DEF Poll, TypeOK, TwoInv
  <2>7. CASE FallBack(t)
    BY <1>0, <2>1, <2>2, <2>7 DEF FallBack, Others, TypeOK, TwoInv, MonitorInv
  <2>8. CASE ReportAway(t)
    <3>1. available'[t] = FALSE /\ w # t /\ last' = next[t] /\ next[t] \in Running /\ next[t] # t
      BY <1>0, <2>1, <2>2, <2>8 DEF ReportAway, TypeOK, MonitorInv
    <3>2. w = next[t]
      BY <1>0, <2>2, <3>1 DEF Running
    <3> QED
      BY <3>1, <3>2, SMTT(30) DEF Running
  <2> QED
    BY <2>3, <2>4, <2>5, <2>6, <2>7, <2>8 DEF MonitorStep
<1> QED
  <2>1. CASE \E t \in setup.tasks : TaskStep(t)
    BY <2>1, <1>1, TaskKeepsMonitors
  <2>2. CASE \E a \in Addr : NetworkChanges(a)
    BY <2>2, <1>1 DEF NetworkChanges
  <2>3. CASE UNCHANGED vars
    BY <2>3, <1>1 DEF vars
  <2> QED
    BY <1>2, <2>1, <2>2, <2>3 DEF Next, TaskStep

-----------------------------------------------------------------------------
(* The types are right; and a stream or endpoint of the running instance   *)
(* is held only while that instance has its channel handed out and its     *)
(* endpoint open, over every stop, restart and start that fails half-way.  *)
THEOREM HandlesAreLive == Spec => []TypeOK
<1>1. Init => IInv
    BY InitHolds
<1>2. IInv => TypeOK
    BY DEF IInv
<1> QED
    BY <1>1, <1>2, StepHolds, PTL DEF Spec

(* The flag that Router::send and the watch value that peer_stream and     *)
(* accept_loop trust are set only while the transport is up: for every     *)
(* number of transports, restarts and failing starts.                      *)
THEOREM FlagsAreTrue == Spec => []AvailableMeansUp
<1>1. Init => IInv
    BY InitHolds
<1>2. IInv => AvailableMeansUp
    BY DEF IInv, MonitorInv, AvailableMeansUp
<1> QED
    BY <1>1, <1>2, StepHolds, PTL DEF Spec

(* A node with two transports never leaves the follower of its             *)
(* TransportChanged events at one that is down while the other is up, in   *)
(* whatever order their monitors choose and fire them.                     *)
THEOREM EventsOfTwo == Spec => []LastEventOfTwoIsUp
<1>1. Init => IInv /\ TwoInv
    BY InitHolds
<1>2. IInv /\ TwoInv => LastEventOfTwoIsUp
    BY DEF TwoInv, LastEventOfTwoIsUp, LastEventIsUp, Reported
<1> QED
    BY <1>1, <1>2, StepHolds, StepKeepsTwo, PTL DEF Spec
=============================================================================
