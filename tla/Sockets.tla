-------------------------------- MODULE Sockets --------------------------------
(***************************************************************************)
(* platforms/unix/plugins/SocketPlugin/sqUnixSocket.c: the image's sockets *)
(* over the one-shot handlers of aio.c.  A primitive answers at once, and  *)
(* where it cannot, a handler of aioPoll signals a semaphore later.        *)
(*                                                                         *)
(* One thread does everything: a primitive runs between two polls, a       *)
(* handler inside one.  What can go wrong lies in the order of the two and *)
(* in the descriptors, which the operating system gives again once closed. *)
(***************************************************************************)
EXTENDS AsynchronousIO

CONSTANT Sockets       \* the sockets of the image
SocketHandlers == {"acceptHandler", "connectHandler", "dataHandler"}
States == {"Invalid", "Unconnected", "WaitingForConnection", "Connected", "OtherEndClosed"}

VARIABLES
  thisNetSession,      \* there is a network session
  pss                  \* the private struct of every socket that is valid in it

vars == <<aioVars, thisNetSession, pss>>

\* awaits is what the image asked for and was not signalled yet.
Private == [s : Descriptors \cup {NoDescriptor}, sockState : States,
            multiListen : BOOLEAN, acceptedSock : Descriptors \cup {NoDescriptor},
            tcp : BOOLEAN, awaits : SUBSET {"conn", "read", "write"}]

ASSUME SocketsAssumption ==
  Sockets \subseteq Clients /\ SocketHandlers \subseteq Handlers /\ Nil \notin Private

TypeOK ==
  /\ AioTypeOK
  /\ thisNetSession \in BOOLEAN
  /\ pss \in [Sockets -> Private \cup {Nil}]

Init ==
  /\ AioInit
  /\ thisNetSession = FALSE
  /\ pss = [s \in Sockets |-> Nil]

socketValid(s) == pss[s] # Nil

notify(p, what) == [p EXCEPT !.awaits = @ \ {what}]

-----------------------------------------------------------------------------
(* The handlers: fd, data and flag as aioPoll passes them.  A Bug definition *)
(* is a variant of the one after it that the code could have had.           *)

\* The descriptor is closed and stays enabled.
BugCloseOnly ==
  /\ Calls("acceptHandler") /\ data # Nil
  /\ flag = "X"
  /\ aio' = Taken
  /\ kernel' = [kernel EXCEPT ![fd] = "free"]
  /\ pss' = [pss EXCEPT ![data] = notify([@ EXCEPT !.sockState = "Invalid", !.s = NoDescriptor], "conn")]
  /\ UNCHANGED thisNetSession

\* error during listen()
AcceptException ==
  /\ Calls("acceptHandler") /\ data # Nil
  /\ flag = "X"
  /\ aio' = aioDisable(Taken, fd)
  /\ kernel' = [kernel EXCEPT ![fd] = "free"]
  /\ pss' = [pss EXCEPT ![data] = notify([@ EXCEPT !.sockState = "Invalid", !.s = NoDescriptor], "conn")]
  /\ UNCHANGED thisNetSession

\* The handler is not installed again.
BugNoRearm ==
  /\ Calls("acceptHandler") /\ data # Nil
  /\ flag = "R"
  /\ aio' = Taken
  /\ UNCHANGED <<kernel, pss, thisNetSession>>

\* ECONNABORTED: the connection went away.
AcceptAborted ==
  /\ Calls("acceptHandler") /\ data # Nil
  /\ flag = "R"
  /\ aio' = aioHandle(Taken, fd, "acceptHandler", {"R", "X"})
  /\ UNCHANGED <<kernel, pss, thisNetSession>>

\* The image is not told.
BugSilentFailure ==
  /\ Calls("acceptHandler") /\ data # Nil
  /\ flag = "R"
  /\ aio' = aioDisable(Taken, fd)
  /\ kernel' = [kernel EXCEPT ![fd] = "free"]
  /\ pss' = [pss EXCEPT ![data].sockState = "Invalid"]
  /\ UNCHANGED thisNetSession

\* Any other error, no descriptor to give among them.
AcceptFailed ==
  /\ Calls("acceptHandler") /\ data # Nil
  /\ flag = "R"
  /\ aio' = aioDisable(Taken, fd)
  /\ kernel' = [kernel EXCEPT ![fd] = "free"]
  /\ pss' = [pss EXCEPT ![data] = notify([@ EXCEPT !.sockState = "Invalid"], "conn")]
  /\ UNCHANGED thisNetSession

\* The connection waits for AcceptFrom.
AcceptedMulti ==
  /\ Calls("acceptHandler") /\ data # Nil
  /\ flag = "R"
  /\ FreeDescriptors # {}
  /\ pss[data].multiListen
  /\ aio' = Taken
  /\ kernel' = [kernel EXCEPT ![NewDescriptor] = "connected"]
  /\ pss' = [pss EXCEPT ![data] =
               notify([@ EXCEPT !.sockState = "Connected", !.acceptedSock = NewDescriptor], "conn")]
  /\ UNCHANGED thisNetSession

\* The connection replaces the server in place.
AcceptedInPlace ==
  /\ Calls("acceptHandler") /\ data # Nil
  /\ flag = "R"
  /\ FreeDescriptors # {}
  /\ ~pss[data].multiListen
  /\ aio' = aioEnable(aioDisable(Taken, fd), NewDescriptor, data)
  /\ kernel' = [kernel EXCEPT ![fd] = "free", ![NewDescriptor] = "connected"]
  /\ pss' = [pss EXCEPT ![data] =
               notify([@ EXCEPT !.sockState = "Connected", !.s = NewDescriptor], "conn")]
  /\ UNCHANGED thisNetSession

\* connectHandler, an exception
ConnectException ==
  /\ Calls("connectHandler") /\ data # Nil
  /\ flag = "X"
  /\ aio' = aioDisable(Taken, fd)
  /\ kernel' = [kernel EXCEPT ![fd] = IF @ = "connecting" THEN "idle" ELSE @]
  /\ pss' = [pss EXCEPT ![data] = notify([@ EXCEPT !.sockState = "Unconnected"], "conn")]
  /\ UNCHANGED thisNetSession

\* connectHandler, connect() completed: socketError tells how.
ConnectCompleted ==
  /\ Calls("connectHandler") /\ data # Nil
  /\ flag = "W"
  /\ aio' = Taken
  /\ \E state \in {"Unconnected", "Connected"} :
       /\ kernel' = [kernel EXCEPT ![fd] = IF state = "Connected" THEN "connected" ELSE "idle"]
       /\ pss' = [pss EXCEPT ![data] = notify([@ EXCEPT !.sockState = state], "conn")]
  /\ UNCHANGED thisNetSession

Signals == IF flag = "R" THEN "read" ELSE "write"

Peeked(p, closed) == IF closed THEN [p EXCEPT !.sockState = "OtherEndClosed"] ELSE p

\* dataHandler; closed: the peek found the end of the stream, or nothing to read.
DataPossible ==
  /\ Calls("dataHandler")
  /\ aio' = Taken
  /\ \E closed \in {c \in BOOLEAN : c => flag = "R"} :
       pss' = IF data = Nil \/ flag = "X" THEN pss
              ELSE [pss EXCEPT ![data] = notify(Peeked(@, closed), Signals)]
  /\ UNCHANGED <<kernel, thisNetSession>>

Handle ==
  \/ AcceptException \/ AcceptAborted \/ AcceptFailed \/ AcceptedMulti \/ AcceptedInPlace
  \/ ConnectException \/ ConnectCompleted \/ DataPossible

-----------------------------------------------------------------------------
(* The primitives                                                           *)

sqNetworkInit ==
  /\ Primitive
  /\ ~thisNetSession
  /\ thisNetSession' = TRUE
  /\ UNCHANGED <<aio, kernel, pss>>

sqNetworkShutdown ==
  /\ Primitive
  /\ thisNetSession
  /\ thisNetSession' = FALSE
  /\ aio' = aioFini(aio)
  /\ kernel' = [d \in Descriptors |-> IF d \in aio.enabled THEN "free" ELSE kernel[d]]
  /\ pss' = [s \in Sockets |-> Nil]

\* The image creates sockets in a network session.  UDP sockets are born connected.
sqSocketCreate(s, tcp) ==
  /\ Primitive
  /\ thisNetSession
  /\ ~socketValid(s)
  /\ FreeDescriptors # {}
  /\ kernel' = [kernel EXCEPT ![NewDescriptor] = IF tcp THEN "idle" ELSE "connected"]
  /\ aio' = IF tcp THEN aio ELSE aioEnable(aio, NewDescriptor, s)
  /\ pss' = [pss EXCEPT ![s] =
               [s |-> NewDescriptor, sockState |-> IF tcp THEN "Unconnected" ELSE "Connected",
                multiListen |-> FALSE, acceptedSock |-> 0, tcp |-> tcp, awaits |-> {}]]
  /\ UNCHANGED thisNetSession

\* What the image asks of a socket that is not in use yet.
Fresh(s) ==
  /\ socketValid(s)
  /\ pss[s].tcp /\ pss[s].sockState = "Unconnected"
  /\ pss[s].s # NoDescriptor
  /\ kernel[pss[s].s] = "idle"

sqSocketListenOnPort(s, multi) ==
  /\ Primitive
  /\ Fresh(s)
  /\ LET d == pss[s].s IN
       /\ kernel' = [kernel EXCEPT ![d] = "listening"]
       /\ aio' = aioHandle(aioEnable(aio, d, s), d, "acceptHandler", {"R", "X"})
  /\ pss' = [pss EXCEPT ![s].sockState = "WaitingForConnection",
                        ![s].multiListen = multi, ![s].awaits = {"conn"}]
  /\ UNCHANGED thisNetSession

sqSocketConnectToPort(s) ==
  /\ Primitive
  /\ Fresh(s)
  /\ LET d == pss[s].s
         enabled == aioEnable(aio, d, s)
     IN \/ /\ kernel' = [kernel EXCEPT ![d] = "connected"]
           /\ aio' = enabled
           /\ pss' = [pss EXCEPT ![s].sockState = "Connected"]
        \/ /\ kernel' = [kernel EXCEPT ![d] = "connecting"]
           /\ aio' = aioHandle(enabled, d, "connectHandler", {"W", "X"})
           /\ pss' = [pss EXCEPT ![s].sockState = "WaitingForConnection", ![s].awaits = {"conn"}]
        \/ /\ aio' = enabled
           /\ UNCHANGED <<kernel, pss>>
  /\ UNCHANGED thisNetSession

\* It only sets the peer of a datagram socket.
ConnectDatagrams(s) ==
  /\ Primitive
  /\ socketValid(s)
  /\ ~pss[s].tcp
  /\ pss[s].s # NoDescriptor
  /\ pss' = [pss EXCEPT ![s].sockState = "Connected"]
  /\ UNCHANGED <<aio, kernel, thisNetSession>>

sqSocketAcceptFrom(s, server) ==
  /\ Primitive
  /\ ~socketValid(s) /\ socketValid(server)
  /\ pss[server].multiListen
  /\ pss[server].sockState = "Connected"
  /\ pss[server].acceptedSock # NoDescriptor
  /\ LET d == pss[server].acceptedSock IN
       /\ aio' = aioEnable(aioHandle(aio, pss[server].s, "acceptHandler", {"R", "X"}), d, s)
       /\ pss' = [pss EXCEPT
            ![server].acceptedSock = NoDescriptor,
            ![server].sockState = "WaitingForConnection",
            ![server].awaits = @ \cup {"conn"},
            ![s] = [s |-> d, sockState |-> "Connected", multiListen |-> FALSE,
                    acceptedSock |-> 0, tcp |-> TRUE, awaits |-> {}]]
  /\ UNCHANGED <<kernel, thisNetSession>>

\* A socket found invalid is forgotten.
sqSocketConnectionStatus(s) ==
  /\ Primitive
  /\ socketValid(s)
  /\ pss[s].sockState = "Invalid"
  /\ pss' = [pss EXCEPT ![s] = Nil]
  /\ UNCHANGED <<aio, kernel, thisNetSession>>

\* The socket keeps its descriptor.
BugKeepDescriptor(p) == notify([p EXCEPT !.sockState = "Unconnected"], "conn")

\* close() fails only for a descriptor that is not open, and never would block.  When it succeeds
\* nobody is signalled: who waits for the connection still does.
Closed(p) ==
  IF kernel[p.s] = "free"
  THEN notify([p EXCEPT !.sockState = "Unconnected"], "conn")
  ELSE [p EXCEPT !.sockState = "Unconnected", !.s = NoDescriptor]

\* The image asks for the state of a socket first, and lets go of an invalid one.
Usable(s) == socketValid(s) /\ pss[s].sockState # "Invalid"

\* sqSocketAbortConnection does the same, without lingering.
sqSocketCloseConnection(s) ==
  /\ Primitive
  /\ Usable(s)
  /\ LET d == pss[s].s IN
       /\ d # NoDescriptor
       /\ aio' = aioDisable(aio, d)
       /\ kernel' = [kernel EXCEPT ![d] = "free"]
       /\ pss' = [pss EXCEPT ![s] = Closed(@)]
  /\ UNCHANGED thisNetSession

\* The struct is freed and the socket is not closed.
BugFreeOnly(s) ==
  /\ Primitive
  /\ Usable(s)
  /\ pss' = [pss EXCEPT ![s] = Nil]
  /\ UNCHANGED <<aio, kernel, thisNetSession>>

sqSocketDestroy(s) ==
  /\ Primitive
  /\ Usable(s)
  /\ LET d == pss[s].s IN
       IF d \in {0, NoDescriptor} THEN UNCHANGED <<aio, kernel>>
       ELSE /\ aio' = aioDisable(aio, d)
            /\ kernel' = [kernel EXCEPT ![d] = "free"]
  /\ pss' = [pss EXCEPT ![s] = Nil]
  /\ UNCHANGED thisNetSession

\* The image reads and writes sockets that it found connected.
Transfers(s) ==
  /\ socketValid(s)
  /\ pss[s].sockState \in {"Connected", "OtherEndClosed"}
  /\ pss[s].s # NoDescriptor
  /\ kernel[pss[s].s] = "connected"

\* It answers false, with nothing to read or the other end closed.
sqSocketReceiveDataAvailable(s) ==
  /\ Primitive
  /\ Transfers(s)
  /\ \E state \in {pss[s].sockState, "OtherEndClosed"} :
       pss' = [pss EXCEPT ![s].sockState = state, ![s].awaits = @ \cup {"read"}]
  /\ aio' = aioHandle(aio, pss[s].s, "dataHandler", {"R", "X"})
  /\ UNCHANGED <<kernel, thisNetSession>>

\* It answers false.
sqSocketSendDone(s) ==
  /\ Primitive
  /\ Transfers(s)
  /\ pss[s].sockState = "Connected"
  /\ pss' = [pss EXCEPT ![s].awaits = @ \cup {"write"}]
  /\ aio' = aioHandle(aio, pss[s].s, "dataHandler", {"W", "X"})
  /\ UNCHANGED <<kernel, thisNetSession>>

\* sqSocketReceiveDataBufCount and sqSocketSendDataBufCount fail to read or to write a
\* stream; the first signals conn, which nobody awaits of such a socket.  A success
\* changes nothing here.
TransferFails(s) ==
  /\ Primitive
  /\ Transfers(s)
  /\ pss[s].tcp
  /\ pss' = [pss EXCEPT ![s].sockState = "OtherEndClosed"]
  /\ UNCHANGED <<aio, kernel, thisNetSession>>

Request(s) ==
  \/ \E tcp \in BOOLEAN : sqSocketCreate(s, tcp)
  \/ \E multi \in BOOLEAN : sqSocketListenOnPort(s, multi)
  \/ sqSocketConnectToPort(s)
  \/ ConnectDatagrams(s)
  \/ \E server \in Sockets : sqSocketAcceptFrom(s, server)
  \/ sqSocketConnectionStatus(s)
  \/ sqSocketCloseConnection(s)
  \/ sqSocketDestroy(s)
  \/ sqSocketReceiveDataAvailable(s)
  \/ sqSocketSendDone(s)
  \/ TransferFails(s)

Poll == (Select \/ EndPoll) /\ UNCHANGED <<thisNetSession, pss>>

Operation ==
  \/ Handle
  \/ sqNetworkInit
  \/ sqNetworkShutdown
  \/ \E s \in Sockets : Request(s)

Next == Poll \/ Operation

Spec == Init /\ [][Next]_vars

-----------------------------------------------------------------------------
(* Properties                                                               *)

ValidSockets == {s \in Sockets : socketValid(s)}
OpenSockets ==
  {s \in ValidSockets : pss[s].s # NoDescriptor /\ pss[s].sockState # "Invalid"}
Pending == {s \in OpenSockets : pss[s].sockState = "Connected" /\ pss[s].multiListen}

\* No two sockets have the same descriptor, and none has one that is closed or that is
\* not a socket's: what is written to a socket never reaches the peer of another.
DescriptorsHeldOnce ==
  /\ \A s \in OpenSockets : kernel[pss[s].s] \notin {"free", "other"}
  /\ \A s, t \in OpenSockets : s # t => pss[s].s # pss[t].s
  /\ \A s \in OpenSockets, t \in Pending : pss[s].s # pss[t].acceptedSock

\* Whoever aioPoll would pass to a handler is a valid socket, and the descriptor is its
\* own: a handler never changes the state of a socket that is gone, or of another.
ClientsOwnTheirDescriptors ==
  \A d \in aio.enabled :
    /\ aio.client[d] \in OpenSockets
    /\ pss[aio.client[d]].s = d

\* The masks name only open descriptors: select never answers EBADF, which would stop
\* the signals of every other socket.
SelectNeverFails == \A e \in Watched : kernel[e[1]] # "free"

\* Of an open socket the image is owed a signal exactly when aioPoll is to call the handler for
\* reading or writing that sends it: a one-shot handler that is used, replaced or disabled takes
\* no signal with it, and none is left that was not asked for.  (Handlers of exceptions and
\* transfers that fail may signal conn besides.)
Sends(s, what) ==
  LET d == pss[s].s
      Has(e, h) == <<d, e>> \in Watched /\ aio.handler[<<d, e>>] = h
  IN CASE what = "conn" -> Has("R", "acceptHandler") \/ Has("W", "connectHandler")
       [] what = "read" -> Has("R", "dataHandler")
       [] what = "write" -> Has("W", "dataHandler")
SignalsAreOwed ==
  \A s \in OpenSockets, what \in {"conn", "read", "write"} :
    what \in pss[s].awaits <=> pss[s].s \in aio.enabled /\ Sends(s, what)

\* No handler and no request changes the state of a socket behind the back of a process that
\* waits for its connection: the step that does signals the process.  Only the image's own
\* sqSocketCloseConnection (or abort) of that socket is silent.
NoSilentChange ==
  [][\A s \in Sockets :
       socketValid(s) /\ pss'[s] # Nil /\ "conn" \in pss[s].awaits
         /\ pss'[s].sockState # pss[s].sockState
       => "conn" \notin pss'[s].awaits \/ sqSocketCloseConnection(s)]_vars

\* A connection attempt ends: the image is told, or it gave the socket up.
ConnectEnds ==
  \A s \in Sockets :
    (s \in OpenSockets /\ kernel[pss[s].s] = "connecting")
      ~> ~(s \in OpenSockets /\ kernel[pss[s].s] = "connecting")
-----------------------------------------------------------------------------
(* What a comment of the code says, and the code does not do                *)

\* sqUnixSocket.c:394 says that a completed connect() leaves the socket unhandled: no
\* handler of a connection attempt survives the attempt.
ConnectHandlerGone ==
  \A e \in Watched : aio.handler[e] = "connectHandler" => kernel[e[1]] = "connecting"
=============================================================================
