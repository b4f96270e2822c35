------------------------------- MODULE AioClients -------------------------------
(***************************************************************************)
(* Sockets and asynchronous files over one aio.c: they share the masks, the *)
(* poll and the descriptors of the process, and know nothing of each other. *)
(***************************************************************************)
EXTENDS Sockets

CONSTANTS Files, MaxPosition, MaxSize

VARIABLES session, rec, signals, transfer

AsyncFiles == INSTANCE AsyncFiles

socketVars == <<thisNetSession, pss>>
fileVars == <<session, rec, signals, transfer>>
allVars == <<aioVars, socketVars, fileVars>>

ASSUME ClientsAssumption == AsyncFiles!Assumption /\ Sockets \cap Files = {}

ClientsInit == Init /\ AsyncFiles!FilesInit

NoFiles == \A f \in Files : ~AsyncFiles!valid(f)

ClientsPoll == (Select \/ EndPoll) /\ UNCHANGED <<socketVars, fileVars>>

\* sqNetworkShutdown closes every descriptor that is enabled.  The image unloads the socket
\* plugin when it has no asynchronous file open.
SocketOperation ==
  /\ Operation
  /\ thisNetSession /\ ~thisNetSession' => NoFiles
  /\ UNCHANGED fileVars

FileOperation == AsyncFiles!Operation /\ UNCHANGED socketVars

ClientsNext == ClientsPoll \/ SocketOperation \/ FileOperation

\* Polls go on to their end, and select answers what stays ready sooner or
\* later.  A connection attempt ends; a file is always ready to be read, a stream perhaps never.
PollGoesOn ==
  \/ Handle /\ UNCHANGED fileVars
  \/ EndPoll /\ UNCHANGED <<socketVars, fileVars>>
  \/ AsyncFiles!Handle /\ UNCHANGED socketVars
Answers(d, event, kind) ==
  /\ d # NoDescriptor /\ kernel[d] = kind
  /\ ClientsPoll
  /\ ~Polling /\ <<d, event>> \in ready'
ClientsFairness ==
  /\ WF_allVars(PollGoesOn)
  /\ \A s \in Sockets : SF_allVars(socketValid(s) /\ Answers(pss[s].s, "W", "connecting"))
  /\ \A f \in Files : SF_allVars(AsyncFiles!valid(f) /\ Answers(rec[f].fd, "R", "file"))

ClientsSpec == ClientsInit /\ [][ClientsNext]_allVars /\ ClientsFairness

-----------------------------------------------------------------------------
(* Properties                                                               *)

ClientsTypeOK == TypeOK /\ AsyncFiles!TypeOK

\* A handler that aioPoll calls is there, whatever the handlers before it in the poll did, and
\* finds a socket, or a file, whose own descriptor the event is of.
EventsReachTheirClients ==
  Polling /\ LoopGoesOn =>
    \/ /\ aio.handler[First] \in SocketHandlers
       /\ data \in OpenSockets
       /\ pss[data].s = fd
    \/ /\ aio.handler[First] \in AsyncFiles!FileHandlers
       /\ data \in Files
       /\ AsyncFiles!valid(data)
       /\ rec[data].fd = fd

\* What is written to a file never goes to a socket, and the other way around: no two have
\* one descriptor, and what each has is open and of its kind.
NothingIsShared ==
  /\ DescriptorsHeldOnce
  /\ \A s \in OpenSockets : kernel[pss[s].s] \notin {"file", "stream"}
  /\ \A f \in Files : AsyncFiles!valid(f) => kernel[rec[f].fd] \in {"file", "stream"}

\* AsyncFiles, with sockets about: a transfer is answered, except for a write that failed.
FilesTransfersAreAnswered == AsyncFiles!TransfersAreAnswered

\* AsyncFiles, with sockets about: a transfer takes place where it was asked for, of a file
\* that is only read or only written.
FilesPositionsAreKnown == AsyncFiles!PositionsAreKnown

\* Whoever waits for a read of a file is signalled, whatever the socket does, or the file is
\* closed.
FileReadsEnd ==
  \A f \in Files :
    LET Waits == /\ transfer[f] = "read"
                 /\ signals[f] = 0
                 /\ kernel[rec[f].fd] = "file"
    IN Waits ~> ~Waits
=============================================================================
