---------------------------- MODULE ClientSocket ----------------------------
(***************************************************************************)
(* The client half of the socket tool (HGBClientSocketTool): a singleton   *)
(* around one GCDAsyncSocket, which is driven from two sides.              *)
(*                                                                         *)
(*   - The main thread runs the program's calls (connectActionIp,          *)
(*     disconnectClient, clientSendData) and the heartbeat timers, which   *)
(*     are on the main run loop; none of them interrupts another.          *)
(*   - The delegate methods run on the global concurrent queue: the socket *)
(*     hands each of them over as a block, and blocks that wait there run  *)
(*     in any order, and in the middle of a call of the main thread.       *)
(*                                                                         *)
(* Every method is one action but connectActionIp, which reads the result  *)
(* of connectToHost and stores it later: delegate blocks run in between.   *)
(* The payloads are left out; of what is written the model keeps the first *)
(* packet of each connection, which is what the peer takes for the         *)
(* greeting of the protocol.                                               *)
(***************************************************************************)
EXTENDS Integers, FiniteSets

CONSTANTS Hosts,         \* the addresses the program connects to
          DefaultHost,   \* the one that stands for no address, "192.168.1.102"
          NoHost,        \* no address: nil
          EmptyHost,     \* the empty string
          MaxCallbacks,  \* bound: delegate blocks waiting at once
          MaxTimers      \* bound: the timers that are told apart

ASSUME ClientAssumption ==
    /\ DefaultHost \in Hosts
    /\ NoHost \notin Hosts /\ EmptyHost \notin Hosts
    /\ NoHost # EmptyHost
    /\ MaxCallbacks \in Nat \ {0}
    /\ MaxTimers \in Nat \ {0}

Methods == {"didConnect", "didReadData", "didDisconnect"}
Packets == {"none", "handshake", "heartbeat", "data"}

VARIABLES
    isConnect,        \* what the tool tells the program
    isMakeDisConnect, \* the last disconnection was asked for
    clinetIp,         \* the address the heartbeat reconnects to
    timers,           \* repeating timers on the main run loop, never invalidated
    calling,          \* connectActionIp between connectToHost and its end: the flag it holds
    socket,           \* the flags kSocketStarted and kConnected of the GCDAsyncSocket
    reads,            \* reads waiting for data on the present connection
    first,            \* the first packet queued on the present connection
    callbacks,        \* for each delegate method, its blocks not yet run
    asked,            \* history: what the program asked for last
    begunBy           \* history: who began the present connection, a call or a timer

flagVars == <<isConnect, isMakeDisConnect, timers, calling>>
toolVars == <<flagVars, clinetIp>>
socketVars == <<socket, reads, first, callbacks>>
historyVars == <<asked, begunBy>>
vars == <<toolVars, socketVars, historyVars>>

Pending == callbacks["didConnect"] + callbacks["didReadData"] + callbacks["didDisconnect"]
HasRoom == Pending < MaxCallbacks

(***************************************************************************)
(* The socket.  A connection is begun only on an idle socket, a packet or  *)
(* a read is queued only on one that is started, and closing drops both    *)
(* queues and tells the delegate.                                          *)
(***************************************************************************)

ConnectAccepted(host) == socket = "idle" /\ host \notin {NoHost, EmptyHost}

connectToHost(host, by) ==
    IF ConnectAccepted(host)
    THEN socket' = "connecting" /\ first' = "none" /\ begunBy' = by
    ELSE UNCHANGED <<socket, first, begunBy>>

(* Mutant: a packet waits on an idle socket. *)
QueuedAnyway(packet) == IF first = "none" THEN packet ELSE first

FirstAfter(packet) == IF socket # "idle" /\ first = "none" THEN packet ELSE first

ReadsAfter == IF socket = "idle" THEN reads ELSE reads + 1

Post(method) == callbacks' = [callbacks EXCEPT ![method] = @ + 1]

closeWithError ==
    /\ socket' = "idle"
    /\ reads' = 0
    /\ first' = "none"
    /\ Post("didDisconnect")

-----------------------------------------------------------------------------
(* The calls of the program. *)

connectActionIp(host) ==
    /\ calling = "none"
    /\ asked' = "connect"
    /\ isMakeDisConnect' = FALSE
    /\ clinetIp' = host
    /\ calling' = IF ConnectAccepted(host) THEN "yes" ELSE "no"
    /\ connectToHost(host, "call")
    /\ UNCHANGED <<isConnect, timers, reads, callbacks>>

connectActionIpEnds ==
    /\ calling # "none"
    /\ isConnect' = (calling = "yes")
    /\ calling' = "none"
    /\ first' = FirstAfter("handshake")
    /\ UNCHANGED <<isMakeDisConnect, clinetIp, timers, socket, reads, callbacks, historyVars>>

disconnectClient ==
    /\ calling = "none"
    /\ asked' = IF socket = "idle" /\ callbacks["didDisconnect"] = 0
                THEN "disconnect when settled" ELSE "disconnect"
    /\ isMakeDisConnect' = TRUE
    /\ \/ socket = "connected" /\ HasRoom /\ closeWithError
       \/ socket # "connected" /\ UNCHANGED socketVars
    /\ UNCHANGED <<isConnect, clinetIp, timers, calling, begunBy>>

clientSendData ==
    /\ calling = "none"
    /\ first' = FirstAfter("data")
    /\ UNCHANGED <<toolVars, socket, reads, callbacks, historyVars>>

-----------------------------------------------------------------------------
(* The heartbeat of every timer: its packet goes out before it reconnects,
   to the address as its getter gives it, which puts the default in the
   place of nil and keeps it. *)

Address == IF clinetIp = NoHost THEN DefaultHost ELSE clinetIp

(* Mutant: the heartbeat does not look at isMakeDisConnect. *)
reconnectAlways ==
    /\ timers > 0
    /\ calling = "none"
    /\ clinetIp' = Address
    /\ IF ConnectAccepted(Address)
       THEN connectToHost(Address, "timer")
       ELSE first' = FirstAfter("heartbeat") /\ UNCHANGED <<socket, begunBy>>
    /\ UNCHANGED <<flagVars, reads, callbacks, asked>>

(* Mutant: the heartbeat only sends its packet. *)
beatOnly ==
    /\ timers > 0
    /\ calling = "none"
    /\ first' = FirstAfter("heartbeat")
    /\ UNCHANGED <<toolVars, socket, reads, callbacks, historyVars>>

heartConnect ==
    /\ timers > 0
    /\ calling = "none"
    /\ clinetIp' = IF isMakeDisConnect THEN clinetIp ELSE Address
    /\ IF ~isMakeDisConnect /\ ConnectAccepted(Address)
       THEN connectToHost(Address, "timer")
       ELSE first' = FirstAfter("heartbeat") /\ UNCHANGED <<socket, begunBy>>
    /\ UNCHANGED <<flagVars, reads, callbacks, asked>>

-----------------------------------------------------------------------------
(* The delegate methods, each a block that waits in callbacks. *)

(* Mutant: a block runs that nothing handed over. *)
TakeAnyway(method) == callbacks' = [callbacks EXCEPT ![method] = @ - 1]

Take(method) ==
    /\ callbacks[method] > 0
    /\ callbacks' = [callbacks EXCEPT ![method] = @ - 1]

(* Mutant: the timer is not started. *)
startNothing == UNCHANGED timers

startMonitor == timers' = IF timers < MaxTimers THEN timers + 1 ELSE timers

didConnectToHost ==
    /\ Take("didConnect")
    /\ isConnect' = TRUE
    /\ startMonitor
    /\ reads' = ReadsAfter
    /\ UNCHANGED <<isMakeDisConnect, clinetIp, calling, socket, first, historyVars>>

(* Mutant: only the first read of a connection is queued. *)
readOnce ==
    /\ Take("didReadData")
    /\ isConnect' = TRUE
    /\ UNCHANGED <<isMakeDisConnect, clinetIp, timers, calling, socket, reads, first, historyVars>>

didReadData ==
    /\ Take("didReadData")
    /\ isConnect' = TRUE
    /\ reads' = ReadsAfter
    /\ UNCHANGED <<isMakeDisConnect, clinetIp, timers, calling, socket, first, historyVars>>

socketDidDisconnect ==
    /\ Take("didDisconnect")
    /\ isConnect' = FALSE
    /\ isMakeDisConnect' = FALSE
    /\ UNCHANGED <<clinetIp, timers, calling, socket, reads, first, historyVars>>

-----------------------------------------------------------------------------
(* What the network does to the socket. *)

ConnectSucceeds ==
    /\ socket = "connecting" /\ HasRoom
    /\ socket' = "connected"
    /\ Post("didConnect")
    /\ UNCHANGED <<toolVars, reads, first, historyVars>>

ConnectionFails ==
    /\ socket # "idle" /\ HasRoom
    /\ closeWithError
    /\ UNCHANGED <<toolVars, historyVars>>

DataArrives ==
    /\ socket = "connected" /\ reads > 0 /\ HasRoom
    /\ reads' = reads - 1
    /\ Post("didReadData")
    /\ UNCHANGED <<toolVars, socket, first, historyVars>>

-----------------------------------------------------------------------------

Init ==
    /\ isConnect = FALSE
    /\ isMakeDisConnect = FALSE
    /\ clinetIp = NoHost
    /\ timers = 0
    /\ calling = "none"
    /\ socket = "idle"
    /\ reads = 0
    /\ first = "none"
    /\ callbacks = [m \in Methods |-> 0]
    /\ asked = "nothing"
    /\ begunBy = "call"

User ==
    \/ \E host \in Hosts \union {NoHost, EmptyHost} : connectActionIp(host)
    \/ disconnectClient
    \/ clientSendData

Callback == didConnectToHost \/ didReadData \/ socketDidDisconnect

Network == ConnectSucceeds \/ ConnectionFails \/ DataArrives

Next == User \/ connectActionIpEnds \/ heartConnect \/ Callback \/ Network

Spec == Init /\ [][Next]_vars

(***************************************************************************)
(* Fairness: a call returns, a block that waits on the queue runs, a timer *)
(* fires between two calls (the main run loop fires what is due on every   *)
(* pass, however often the program calls), and a server that is tried over *)
(* and over lets one attempt through.  Nothing is owed by the program, and *)
(* nothing keeps a connection up.                                          *)
(***************************************************************************)
FairSpec ==
    /\ Spec
    /\ WF_vars(connectActionIpEnds)
    /\ SF_vars(heartConnect)
    /\ WF_vars(didConnectToHost) /\ WF_vars(didReadData) /\ WF_vars(socketDidDisconnect)
    /\ SF_vars(ConnectSucceeds)

-----------------------------------------------------------------------------
(* Properties. *)

(* Every variable has its type: the flags, the timers up to the bound, and
   no more waiting blocks than the bound on them. *)
TypeOK ==
    /\ isConnect \in BOOLEAN
    /\ isMakeDisConnect \in BOOLEAN
    /\ clinetIp \in Hosts \union {NoHost, EmptyHost}
    /\ timers \in 0..MaxTimers
    /\ calling \in {"none", "yes", "no"}
    /\ socket \in {"idle", "connecting", "connected"}
    /\ reads \in Nat
    /\ first \in Packets
    /\ callbacks \in [Methods -> Nat]
    /\ asked \in {"nothing", "connect", "disconnect", "disconnect when settled"}
    /\ begunBy \in {"call", "timer"}

(* A connection can always receive: either a read waits on it, or a delegate
   block that will queue one has not run yet.  Blocks left over from a lost
   connection may run on the next one and never use up its own. *)
ReadIsArmed ==
    socket = "connected" =>
        reads > 0 \/ callbacks["didConnect"] > 0 \/ callbacks["didReadData"] > 0

(* A connection is watched: once there is one, a heartbeat timer exists or
   the block that starts one is still waiting, so that its loss is noticed. *)
ConnectionIsWatched ==
    socket = "connected" => timers > 0 \/ callbacks["didConnect"] > 0

(* A connection that the program began opens with the greeting: the flag's
   way through connectActionIp leaves room for the delegate's blocks, but for
   no data and no heartbeat, and nothing queued while the socket was idle is
   kept for the next connection.  (A connection that a timer began has no
   greeting at all.) *)
GreetingLeads == begunBy = "call" /\ first # "none" => first = "handshake"

(* A disconnection that is asked for when the socket is idle and no block of
   an earlier loss is waiting is kept: whatever the timers and the late
   blocks do, the socket stays idle until the next connectActionIp. *)
SettledDisconnectIsKept ==
    asked = "disconnect when settled" => socket = "idle" /\ isMakeDisConnect

(* What the flag isMakeDisConnect is for: once the program has asked for the
   disconnection, only the program begins a connection.  The code does not
   keep it: the block of the disconnection itself clears the flag. *)
ReconnectsOnlyWhenAsked ==
    [][(socket = "idle" /\ socket' # "idle") => asked' \notin {"disconnect", "disconnect when settled"}]_vars

(* A lost connection is restored: when the socket is idle and a timer runs,
   it is connected again unless the program asks for a disconnection or for
   the empty address, which no attempt accepts; nil does not stop the timer. *)
LossIsRepaired ==
    (socket = "idle" /\ timers > 0) ~> (socket = "connected" \/ isMakeDisConnect \/ clinetIp = EmptyHost)
=============================================================================
