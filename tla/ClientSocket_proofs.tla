------------------------ MODULE ClientSocket_proofs ------------------------
(***************************************************************************)
(* What holds of the client socket for every set of addresses and every    *)
(* bound on the delegate blocks and the timers.                            *)
(***************************************************************************)
EXTENDS ClientSocket, TLAPS

(* Every step is one of the named actions. *)
LEMMA StepCases ==
    ASSUME Next
    PROVE \/ \E host \in Hosts \union {NoHost, EmptyHost} : connectActionIp(host)
          \/ connectActionIpEnds \/ disconnectClient \/ clientSendData
          \/ heartConnect
          \/ didConnectToHost \/ didReadData \/ socketDidDisconnect
          \/ ConnectSucceeds \/ ConnectionFails \/ DataArrives
BY DEF Next, User, Callback, Network

-----------------------------------------------------------------------------

(* Beginning a connection, handing a block over, running one and closing the
   socket keep the types of what they change. *)
LEMMA ConnectTypes ==
    ASSUME TypeOK, NEW host, NEW by \in {"call", "timer"}, connectToHost(host, by)
    PROVE /\ socket' \in {"idle", "connecting", "connected"}
          /\ first' \in {"none", "handshake", "heartbeat", "data"}
          /\ begunBy' \in {"call", "timer"}
BY DEF TypeOK, connectToHost, Packets

LEMMA Counters ==
    ASSUME TypeOK
    PROVE /\ reads \in Nat
          /\ timers \in Nat
          /\ timers <= MaxTimers
          /\ MaxTimers \in Nat \ {0}
<1>1. reads \in Nat /\ timers \in 0..MaxTimers
  BY DEF TypeOK
<1>2. MaxTimers \in Nat \ {0}
  BY ClientAssumption DEF ClientAssumption
<1> QED BY <1>1, <1>2

(* Queuing a read on a connection leaves one waiting; a started timer counts. *)
LEMMA ReadQueued ==
    ASSUME TypeOK
    PROVE ReadsAfter \in Nat /\ (socket = "connected" => ReadsAfter > 0)
BY Counters DEF ReadsAfter

LEMMA TimerStarted ==
    ASSUME TypeOK, startMonitor
    PROVE timers' \in 0..MaxTimers /\ timers' > 0
BY Counters DEF startMonitor

LEMMA MethodNames ==
    /\ "didConnect" \in Methods
    /\ "didReadData" \in Methods
    /\ "didDisconnect" \in Methods
BY DEF Methods

LEMMA PostCounts ==
    ASSUME TypeOK, NEW m \in Methods, Post(m)
    PROVE /\ callbacks' \in [Methods -> Nat]
          /\ callbacks'[m] > 0
          /\ \A n \in Methods \ {m} : callbacks'[n] = callbacks[n]
<1>1. callbacks \in [Methods -> Nat]
  BY DEF TypeOK
<1> QED BY <1>1 DEF Post

LEMMA TakeCounts ==
    ASSUME TypeOK, NEW m \in Methods, Take(m)
    PROVE /\ callbacks' \in [Methods -> Nat]
          /\ callbacks[m] \in Nat \ {0}
          /\ \A n \in Methods \ {m} : callbacks'[n] = callbacks[n]
<1>1. callbacks \in [Methods -> Nat]
  BY DEF TypeOK
<1> QED BY <1>1 DEF Take

LEMMA FirstTypes ==
    ASSUME TypeOK, NEW packet \in Packets
    PROVE FirstAfter(packet) \in Packets
BY DEF TypeOK, FirstAfter, Packets

(* Type correctness: whatever the order of calls, timers and delegate blocks,
   every variable keeps its type; in particular no block is run that was not
   handed over. *)
THEOREM TypeCorrect == Spec => []TypeOK
<1>1. Init => TypeOK
  <2> SUFFICES ASSUME Init PROVE TypeOK
    OBVIOUS
  <2>1. timers \in 0..MaxTimers /\ reads \in Nat
    BY ClientAssumption DEF ClientAssumption, Init
  <2>2. callbacks \in [Methods -> Nat]
    BY DEF Init
  <2> QED BY <2>1, <2>2 DEF Init, TypeOK, Packets
<1>2. TypeOK /\ [Next]_vars => TypeOK'
  <2> SUFFICES ASSUME TypeOK, [Next]_vars PROVE TypeOK'
    OBVIOUS
  <2>1. CASE \E host \in Hosts \union {NoHost, EmptyHost} : connectActionIp(host)
    <3> PICK host \in Hosts \union {NoHost, EmptyHost} : connectActionIp(host)
      BY <2>1
    <3>1. /\ socket' \in {"idle", "connecting", "connected"}
          /\ first' \in {"none", "handshake", "heartbeat", "data"}
          /\ begunBy' \in {"call", "timer"}
      BY ConnectTypes DEF connectActionIp
    <3> QED BY <3>1 DEF connectActionIp, TypeOK, Packets
  <2>2. CASE connectActionIpEnds
    BY <2>2, FirstTypes DEF connectActionIpEnds, TypeOK, historyVars, Packets
  <2>3. CASE disconnectClient
    <3>1. CASE socket = "connected" /\ HasRoom /\ closeWithError
      BY <2>3, <3>1, PostCounts, MethodNames DEF disconnectClient, closeWithError, TypeOK, Packets
    <3>2. CASE socket # "connected" /\ UNCHANGED socketVars
      BY <2>3, <3>2 DEF disconnectClient, socketVars, TypeOK
    <3> QED BY <2>3, <3>1, <3>2 DEF disconnectClient
  <2>4. CASE clientSendData
    BY <2>4, FirstTypes DEF clientSendData, TypeOK, toolVars, flagVars, Packets, historyVars
  <2>5. CASE heartConnect
    <3>1. clinetIp' \in Hosts \union {NoHost, EmptyHost}
      BY <2>5, ClientAssumption DEF heartConnect, Address, TypeOK, ClientAssumption
    <3>2. CASE connectToHost(Address, "timer")
      BY <2>5, <3>1, <3>2, ConnectTypes DEF heartConnect, TypeOK, flagVars, Packets
    <3>3. CASE first' = FirstAfter("heartbeat") /\ UNCHANGED <<socket, begunBy>>
      BY <2>5, <3>1, <3>3, FirstTypes DEF heartConnect, TypeOK, flagVars, Packets
    <3> QED BY <2>5, <3>2, <3>3 DEF heartConnect
  <2>6. CASE didConnectToHost
    <3>1. timers' \in 0..MaxTimers
      BY <2>6, TimerStarted DEF didConnectToHost
    <3> QED BY <2>6, <3>1, TakeCounts, MethodNames, ReadQueued DEF didConnectToHost, TypeOK, historyVars, Packets
  <2>7. CASE didReadData
    BY <2>7, TakeCounts, MethodNames, ReadQueued DEF didReadData, TypeOK, historyVars, Packets
  <2>8. CASE socketDidDisconnect
    BY <2>8, TakeCounts, MethodNames DEF socketDidDisconnect, TypeOK, historyVars, Packets
  <2>9. CASE ConnectSucceeds
    BY <2>9, PostCounts, MethodNames DEF ConnectSucceeds, TypeOK, toolVars, flagVars, Packets, historyVars
  <2>10. CASE ConnectionFails
    BY <2>10, PostCounts, MethodNames DEF ConnectionFails, closeWithError, TypeOK, toolVars, flagVars, Packets, historyVars
  <2>11. CASE DataArrives
    <3>1. reads' \in Nat
      BY <2>11, Counters DEF DataArrives
    <3> QED BY <2>11, <3>1, PostCounts, MethodNames DEF DataArrives, TypeOK, toolVars, flagVars, Packets, historyVars
  <2>12. CASE UNCHANGED vars
    BY <2>12 DEF vars, toolVars, flagVars, socketVars, historyVars, TypeOK
  <2> QED
    BY StepCases, <2>1, <2>2, <2>3, <2>4, <2>5, <2>6, <2>7, <2>8, <2>9, <2>10, <2>11, <2>12
<1> QED BY <1>1, <1>2, PTL DEF Spec

-----------------------------------------------------------------------------

(* A connection can always receive, and its loss is noticed.  Both are one
   invariant of the same shape: what a connection needs is there already, or
   the block that brings it is waiting; a block of an earlier connection that
   runs late only adds to it. *)
ArmedInv == ReadIsArmed /\ ConnectionIsWatched

LEMMA ArmedInvCorrect == Spec => []ArmedInv
<1>1. Init => ArmedInv
  BY DEF Init, ArmedInv, ReadIsArmed, ConnectionIsWatched
<1>2. TypeOK /\ ArmedInv /\ [Next]_vars => ArmedInv'
  <2> SUFFICES ASSUME TypeOK, ArmedInv, [Next]_vars
               PROVE (ReadIsArmed /\ ConnectionIsWatched)'
    BY DEF ArmedInv
  <2> USE DEF ArmedInv, ReadIsArmed, ConnectionIsWatched
  <2>1. CASE \E host \in Hosts \union {NoHost, EmptyHost} : connectActionIp(host)
    BY <2>1 DEF connectActionIp, connectToHost, ConnectAccepted
  <2>2. CASE connectActionIpEnds
    BY <2>2 DEF connectActionIpEnds
  <2>3. CASE disconnectClient
    BY <2>3 DEF disconnectClient, closeWithError, socketVars
  <2>4. CASE clientSendData
    BY <2>4 DEF clientSendData, toolVars, flagVars
  <2>5. CASE heartConnect
    BY <2>5 DEF heartConnect, connectToHost, ConnectAccepted, flagVars
  <2>6. CASE didConnectToHost
    <3>1. socket = "connected" => reads' > 0
      BY <2>6, ReadQueued DEF didConnectToHost
    <3>2. timers' > 0
      BY <2>6, TimerStarted DEF didConnectToHost
    <3> QED BY <2>6, <3>1, <3>2 DEF didConnectToHost
  <2>7. CASE didReadData
    <3>1. socket = "connected" => reads' > 0
      BY <2>7, ReadQueued DEF didReadData
    <3>2. callbacks'["didConnect"] = callbacks["didConnect"]
      BY <2>7, TakeCounts, MethodNames DEF didReadData
    <3> QED BY <2>7, <3>1, <3>2 DEF didReadData
  <2>8. CASE socketDidDisconnect
    <3>1. /\ callbacks'["didConnect"] = callbacks["didConnect"]
          /\ callbacks'["didReadData"] = callbacks["didReadData"]
      BY <2>8, TakeCounts, MethodNames DEF socketDidDisconnect
    <3> QED BY <2>8, <3>1 DEF socketDidDisconnect
  <2>9. CASE ConnectSucceeds
    <3>1. callbacks'["didConnect"] > 0
      BY <2>9, PostCounts, MethodNames DEF ConnectSucceeds
    <3> QED BY <3>1
  <2>10. CASE ConnectionFails
    BY <2>10 DEF ConnectionFails, closeWithError
  <2>11. CASE DataArrives
    <3>1. /\ callbacks'["didReadData"] > 0
          /\ callbacks'["didConnect"] = callbacks["didConnect"]
      BY <2>11, PostCounts, MethodNames DEF DataArrives
    <3> QED BY <2>11, <3>1 DEF DataArrives, toolVars, flagVars
  <2>12. CASE UNCHANGED vars
    BY <2>12 DEF vars, toolVars, flagVars, socketVars
  <2> QED
    BY StepCases, <2>1, <2>2, <2>3, <2>4, <2>5, <2>6, <2>7, <2>8, <2>9, <2>10, <2>11, <2>12
<1> QED BY <1>1, <1>2, TypeCorrect, PTL DEF Spec

\* A connection can always receive: a read is queued, or the block that queues one
\* is waiting (didConnectToHost, didReadData).
THEOREM ArmedCorrect == Spec => []ReadIsArmed
<1> QED BY ArmedInvCorrect, PTL DEF ArmedInv

\* The loss of a connection is noticed: its heartbeat runs, or the block that
\* starts one is waiting (didConnectToHost, startMonitor).
THEOREM WatchedCorrect == Spec => []ConnectionIsWatched
<1> QED BY ArmedInvCorrect, PTL DEF ArmedInv

-----------------------------------------------------------------------------

(* A disconnection asked for in a settled state is kept.  The strengthening:
   no block of a disconnection is waiting, because only such a block clears
   the flag the heartbeat looks at, and an idle socket hands none over. *)
SettledInv ==
    asked = "disconnect when settled" =>
        socket = "idle" /\ isMakeDisConnect /\ callbacks["didDisconnect"] = 0

THEOREM SettledCorrect == Spec => []SettledDisconnectIsKept
<1>1. Init => SettledInv
  BY DEF Init, SettledInv
<1>2. TypeOK /\ SettledInv /\ [Next]_vars => SettledInv'
  <2> SUFFICES ASSUME TypeOK, SettledInv, [Next]_vars PROVE SettledInv'
    OBVIOUS
  <2> USE DEF SettledInv
  <2>1. CASE \E host \in Hosts \union {NoHost, EmptyHost} : connectActionIp(host)
    BY <2>1 DEF connectActionIp
  <2>2. CASE connectActionIpEnds
    BY <2>2 DEF connectActionIpEnds, historyVars
  <2>3. CASE disconnectClient
    BY <2>3 DEF disconnectClient, socketVars
  <2>4. CASE clientSendData
    BY <2>4 DEF clientSendData, toolVars, flagVars, historyVars
  <2>5. CASE heartConnect
    BY <2>5 DEF heartConnect, flagVars
  <2>6. CASE didConnectToHost
    <3>1. callbacks'["didDisconnect"] = callbacks["didDisconnect"]
      BY <2>6, TakeCounts, MethodNames DEF didConnectToHost
    <3> QED BY <2>6, <3>1 DEF didConnectToHost, historyVars
  <2>7. CASE didReadData
    <3>1. callbacks'["didDisconnect"] = callbacks["didDisconnect"]
      BY <2>7, TakeCounts, MethodNames DEF didReadData
    <3> QED BY <2>7, <3>1 DEF didReadData, historyVars
  <2>8. CASE socketDidDisconnect
    <3>1. callbacks["didDisconnect"] # 0
      BY <2>8, TakeCounts, MethodNames DEF socketDidDisconnect
    <3> QED BY <2>8, <3>1 DEF socketDidDisconnect, historyVars
  <2>9. CASE ConnectSucceeds
    BY <2>9 DEF ConnectSucceeds, historyVars
  <2>10. CASE ConnectionFails
    BY <2>10 DEF ConnectionFails, historyVars
  <2>11. CASE DataArrives
    BY <2>11 DEF DataArrives, historyVars
  <2>12. CASE UNCHANGED vars
    BY <2>12 DEF vars, toolVars, flagVars, socketVars, historyVars
  <2> QED
    BY StepCases, <2>1, <2>2, <2>3, <2>4, <2>5, <2>6, <2>7, <2>8, <2>9, <2>10, <2>11, <2>12
<1>3. SettledInv => SettledDisconnectIsKept
  BY DEF SettledInv, SettledDisconnectIsKept
<1> QED BY <1>1, <1>2, <1>3, TypeCorrect, PTL DEF Spec

-----------------------------------------------------------------------------

(* The greeting opens a connection the program began.  The strengthening: an
   idle socket holds no packet, and a connection begun by a call that has no
   packet yet still has the call running, so that no other packet of the main
   thread can come first. *)
GreetingInv ==
    /\ GreetingLeads
    /\ socket = "idle" => first = "none"
    /\ begunBy = "call" /\ socket # "idle" /\ first = "none" => calling = "yes"

THEOREM GreetingCorrect == Spec => []GreetingLeads
<1>1. Init => GreetingInv
  BY DEF Init, GreetingInv, GreetingLeads
<1>2. TypeOK /\ GreetingInv /\ [Next]_vars => GreetingInv'
  <2> SUFFICES ASSUME TypeOK, GreetingInv, [Next]_vars PROVE GreetingInv'
    OBVIOUS
  <2> USE DEF GreetingInv, GreetingLeads
  <2>1. CASE \E host \in Hosts \union {NoHost, EmptyHost} : connectActionIp(host)
    BY <2>1 DEF connectActionIp, connectToHost, ConnectAccepted
  <2>2. CASE connectActionIpEnds
    BY <2>2 DEF connectActionIpEnds, FirstAfter, historyVars
  <2>3. CASE disconnectClient
    BY <2>3 DEF disconnectClient, closeWithError, socketVars
  <2>4. CASE clientSendData
    BY <2>4 DEF clientSendData, FirstAfter, toolVars, flagVars, historyVars
  <2>5. CASE heartConnect
    BY <2>5 DEF heartConnect, connectToHost, ConnectAccepted, FirstAfter, flagVars
  <2>6. CASE didConnectToHost
    BY <2>6 DEF didConnectToHost, historyVars
  <2>7. CASE didReadData
    BY <2>7 DEF didReadData, historyVars
  <2>8. CASE socketDidDisconnect
    BY <2>8 DEF socketDidDisconnect, historyVars
  <2>9. CASE ConnectSucceeds
    BY <2>9 DEF ConnectSucceeds, toolVars, flagVars, historyVars
  <2>10. CASE ConnectionFails
    BY <2>10 DEF ConnectionFails, closeWithError, toolVars, flagVars, historyVars
  <2>11. CASE DataArrives
    BY <2>11 DEF DataArrives, toolVars, flagVars, historyVars
  <2>12. CASE UNCHANGED vars
    BY <2>12 DEF vars, toolVars, flagVars, socketVars, historyVars
  <2> QED
    BY StepCases, <2>1, <2>2, <2>3, <2>4, <2>5, <2>6, <2>7, <2>8, <2>9, <2>10, <2>11, <2>12
<1>3. GreetingInv => GreetingLeads
  BY DEF GreetingInv
<1> QED BY <1>1, <1>2, <1>3, TypeCorrect, PTL DEF Spec
=============================================================================
