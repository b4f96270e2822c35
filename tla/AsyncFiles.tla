------------------------------- MODULE AsyncFiles -------------------------------
(***************************************************************************)
(* platforms/unix/plugins/AsynchFilePlugin/sqUnixAsynchFile.c: transfers to *)
(* and from files over the one-shot handlers of aio.c.  The image starts a *)
(* transfer, waits for the file's one semaphore, asks for the result, and  *)
(* waits again if the answer is Busy.                                      *)
(*                                                                         *)
(* The file on disk is left out.  What counts is where in it a transfer    *)
(* takes place: the record keeps one position for reading and one for      *)
(* writing, and the operating system one for both.                         *)
(***************************************************************************)
EXTENDS AsynchronousIO

CONSTANTS
  Files,               \* the AsyncFile handles of the image
  MaxPosition,         \* bound: the length of a file, in units of transfer
  MaxSize              \* bound: the units one write is of

FileHandlers == {"readHandler", "writeHandler"}
Current == -1                             \* a negative fPosition
Positions == 0 .. MaxPosition
Transfers == {"read", "write"}

VARIABLES
  session,             \* sqUnixAsyncFileSessionID is not zero
  rec,                 \* the FileRec of every file that is valid in it
  signals,             \* external: the excess signals of the semaphore of every file
  transfer             \* external: the transfer the image waits for, of every file

fileVars == <<session, rec, signals, transfer>>
vars == <<aioVars, fileVars>>

\* left: the units of the write buffer still to be written.  offset is external, the operating
\* system's position in the file, and used is history, the ways the file was used.  The
\* status of reading is not kept: the code only stores it.
FileRec == [fd : Descriptors, rdPos : Positions, wrPos : Positions, offset : Positions,
            wrStatus : {"Busy", "Error", "size"}, left : 0 .. MaxSize, used : SUBSET Transfers]

\* What AioClients assumes of the constants
Assumption ==
  /\ Files \subseteq Clients
  /\ FileHandlers \subseteq Handlers
  /\ MaxPosition \in Nat /\ MaxSize \in Nat
  /\ Nil \notin FileRec

TypeOK ==
  /\ AioTypeOK
  /\ session \in BOOLEAN
  /\ rec \in [Files -> FileRec \cup {Nil}]
  /\ signals \in [Files -> Nat]
  /\ transfer \in [Files -> Transfers \cup {"none"}]

FilesInit ==
  /\ session = FALSE
  /\ rec = [f \in Files |-> Nil]
  /\ signals = [f \in Files |-> 0]
  /\ transfer = [f \in Files |-> "none"]

Init == AioInit /\ FilesInit

valid(f) == rec[f] # Nil

-----------------------------------------------------------------------------
(* Writing.  A Bug definition is a variant of the one after it that the     *)
(* code could have had.                                                     *)

\* No handler goes on with it.
BugNoHandler(a, d) == a

\* The write would block: EWOULDBLOCK.
WriteLater(a, d) == aioHandle(a, d, "writeHandler", {"W"})

\* writeBuffer, of the record r of f: n units are written before the buffer is empty, the
\* next write would block, or it fails.
writeBuffer(a, f, r) ==
  \E n \in 0 .. r.left :
    LET written == [r EXCEPT !.wrPos = @ + n, !.offset = @ + n, !.left = @ - n]
    IN \/ /\ n = r.left
          /\ rec' = [rec EXCEPT ![f] = [written EXCEPT !.wrStatus = "size"]]
          /\ signals' = [signals EXCEPT ![f] = @ + 1]
          /\ aio' = a
       \/ /\ n < r.left /\ kernel[r.fd] = "stream"
          /\ rec' = [rec EXCEPT ![f] = written]
          /\ aio' = WriteLater(a, r.fd)
          /\ UNCHANGED signals
       \/ /\ n < r.left
          /\ rec' = [rec EXCEPT ![f] = [written EXCEPT !.left = 0, !.wrStatus = "Error"]]
          /\ aio' = a
          /\ UNCHANGED signals

-----------------------------------------------------------------------------
(* The handlers                                                             *)

readHandler ==
  /\ Calls("readHandler")
  /\ aio' = Taken
  /\ signals' = [signals EXCEPT ![data] = @ + 1]
  /\ UNCHANGED <<kernel, session, rec, transfer>>

writeHandler ==
  /\ Calls("writeHandler")
  /\ writeBuffer(Taken, data, rec[data])
  /\ UNCHANGED <<kernel, session, transfer>>

Handle == readHandler \/ writeHandler

-----------------------------------------------------------------------------
(* The primitives                                                           *)

asyncFileInit ==
  /\ Primitive
  /\ ~session
  /\ session' = TRUE
  /\ UNCHANGED <<aio, kernel, rec, signals, transfer>>

\* Stale handlers would be called.
BugKeepHandlers == aio
NoHandlers == Disabled(aio, {rec[f].fd : f \in {g \in Files : valid(g)}})

\* The files stay open, and their records are forgotten.
asyncFileShutdown ==
  /\ Primitive
  /\ session
  /\ session' = FALSE
  /\ aio' = NoHandlers
  /\ rec' = [f \in Files |-> Nil]
  /\ transfer' = [f \in Files |-> "none"]
  /\ signals' = [f \in Files |-> 0]
  /\ UNCHANGED kernel

\* A stream is a terminal or a pipe; sqUnixPseudoTTYPlugin.c attaches one without opening it.
asyncFileOpen(f, kind) ==
  /\ Primitive
  /\ session
  /\ ~valid(f)
  /\ FreeDescriptors # {}
  /\ kernel' = [kernel EXCEPT ![NewDescriptor] = kind]
  /\ aio' = aioEnable(aio, NewDescriptor, f)
  /\ rec' = [rec EXCEPT ![f] = [fd |-> NewDescriptor, rdPos |-> 0, wrPos |-> 0, offset |-> 0,
                                wrStatus |-> "Busy", left |-> 0, used |-> {}]]
  /\ UNCHANGED <<session, signals, transfer>>

\* The record survives the close.
BugKeepRecord(f) ==
  /\ Primitive
  /\ valid(f)
  /\ aio' = aioDisable(aio, rec[f].fd)
  /\ kernel' = [kernel EXCEPT ![rec[f].fd] = "free"]
  /\ transfer' = [transfer EXCEPT ![f] = "none"]
  /\ signals' = [signals EXCEPT ![f] = 0]
  /\ UNCHANGED <<session, rec>>

\* The image gives up its transfer, and its semaphore.
asyncFileClose(f) ==
  /\ Primitive
  /\ valid(f)
  /\ aio' = aioDisable(aio, rec[f].fd)
  /\ kernel' = [kernel EXCEPT ![rec[f].fd] = "free"]
  /\ rec' = [rec EXCEPT ![f] = Nil]
  /\ transfer' = [transfer EXCEPT ![f] = "none"]
  /\ signals' = [signals EXCEPT ![f] = 0]
  /\ UNCHANGED session

\* "Only one operation may be in progress on a given file at a given time."
MayStart(f) == Primitive /\ valid(f) /\ transfer[f] = "none"

\* The position a transfer is asked for; a negative one is the one the record keeps.
Wanted(kept, fPosition) == IF fPosition = Current THEN kept ELSE fPosition

\* lseek, unless the record has the position already.  It fails on a stream.
CanSeek(f, kept, fPosition) == Wanted(kept, fPosition) = kept \/ kernel[rec[f].fd] = "file"

\* The record's new position is also where the file is.
BugNeverSeek(f, kept, fPosition) == rec[f].offset

\* The file offset after it.
Sought(f, kept, fPosition) ==
  IF Wanted(kept, fPosition) = kept THEN rec[f].offset ELSE fPosition

\* When it cannot seek it fails, and changes only the status of reading.
asyncFileReadStart(f, fPosition) ==
  /\ MayStart(f)
  /\ CanSeek(f, rec[f].rdPos, fPosition)
  /\ rec' = [rec EXCEPT ![f].rdPos = Wanted(@, fPosition), ![f].used = @ \cup {"read"},
                        ![f].offset = Sought(f, rec[f].rdPos, fPosition)]
  /\ aio' = aioHandle(aio, rec[f].fd, "readHandler", {"R"})
  /\ transfer' = [transfer EXCEPT ![f] = "read"]
  /\ UNCHANGED <<kernel, session, signals>>

\* The image asks for a result when it got a signal, or too early, without one.
Asks(f, kind) ==
  /\ Primitive
  /\ transfer[f] = kind
  /\ signals' = [signals EXCEPT ![f] = IF @ > 0 THEN @ - 1 ELSE 0]

\* A stream whose handler has not been called yet may have nothing to read.
Armed(f, event, handler) ==
  <<rec[f].fd, event>> \in Watched /\ aio.handler[<<rec[f].fd, event>>] = handler

asyncFileReadResult(f) ==
  /\ Asks(f, "read")
  /\ \/ \* Busy
        /\ kernel[rec[f].fd] = "stream" /\ Armed(f, "R", "readHandler")
        /\ UNCHANGED <<rec, transfer>>
     \/ \* Error, or nothing left to read
        /\ transfer' = [transfer EXCEPT ![f] = "none"]
        /\ UNCHANGED rec
     \/ /\ rec[f].rdPos < MaxPosition /\ rec[f].offset < MaxPosition
        /\ rec' = [rec EXCEPT ![f].rdPos = @ + 1, ![f].offset = @ + 1]
        /\ transfer' = [transfer EXCEPT ![f] = "none"]
  /\ UNCHANGED <<aio, kernel, session>>

\* A write of nothing is done at once, and the others are begun.
asyncFileWriteStart(f, fPosition, count) ==
  /\ MayStart(f)
  /\ CanSeek(f, rec[f].wrPos, fPosition)
  /\ LET r == [rec[f] EXCEPT !.wrPos = Wanted(@, fPosition), !.used = @ \cup {"write"},
                             !.offset = Sought(f, rec[f].wrPos, fPosition)]
     IN /\ r.wrPos + count <= MaxPosition /\ r.offset + count <= MaxPosition
        /\ \/ /\ count = 0
              /\ rec' = [rec EXCEPT ![f] = [r EXCEPT !.wrStatus = "size"]]
              /\ signals' = [signals EXCEPT ![f] = @ + 1]
              /\ UNCHANGED aio
           \/ /\ count > 0
              /\ writeBuffer(aio, f, [r EXCEPT !.wrStatus = "Busy", !.left = count])
  /\ transfer' = [transfer EXCEPT ![f] = "write"]
  /\ UNCHANGED <<kernel, session>>

\* The primitive fails: it cannot seek, or it has sought and there is no memory.
WriteStartFails(f, fPosition) ==
  /\ MayStart(f)
  /\ \/ /\ ~CanSeek(f, rec[f].wrPos, fPosition)
        /\ rec' = [rec EXCEPT ![f].wrStatus = "Error"]
     \/ /\ CanSeek(f, rec[f].wrPos, fPosition)
        /\ rec' = [rec EXCEPT ![f].wrPos = Wanted(@, fPosition), ![f].wrStatus = "Error",
                              ![f].used = @ \cup {"write"},
                              ![f].offset = Sought(f, rec[f].wrPos, fPosition)]
  /\ UNCHANGED <<aio, kernel, session, signals, transfer>>

asyncFileWriteResult(f) ==
  /\ Asks(f, "write")
  /\ rec' = [rec EXCEPT ![f].wrStatus = "Busy"]
  /\ transfer' = [transfer EXCEPT ![f] = IF rec[f].wrStatus = "Busy" THEN @ ELSE "none"]
  /\ UNCHANGED <<aio, kernel, session>>

Request(f) ==
  \/ \E kind \in {"file", "stream"} : asyncFileOpen(f, kind)
  \/ asyncFileClose(f)
  \/ \E p \in Positions \cup {Current} : asyncFileReadStart(f, p) \/ WriteStartFails(f, p)
  \/ \E p \in Positions \cup {Current}, n \in 0 .. MaxSize : asyncFileWriteStart(f, p, n)
  \/ asyncFileReadResult(f)
  \/ asyncFileWriteResult(f)

Operation == Handle \/ asyncFileInit \/ asyncFileShutdown \/ \E f \in Files : Request(f)

Next == ((Select \/ EndPoll) /\ UNCHANGED fileVars) \/ Operation

Spec == Init /\ [][Next]_vars

-----------------------------------------------------------------------------
(* Properties                                                               *)

\* A signal of a transfer that the image waits for was sent, or a handler will send it.
SignalComes(f) ==
  signals[f] > 0 \/ Armed(f, "R", "readHandler") \/ Armed(f, "W", "writeHandler")

\* Whoever waits for a transfer is signalled in the end, however early it asks for a result,
\* except for a write that failed.
TransfersAreAnswered ==
  \A f \in Files :
    transfer[f] # "none" => SignalComes(f) \/ (transfer[f] = "write" /\ rec[f].wrStatus = "Error")

\* A file that was only read, or only written, is at the position its record keeps: a transfer
\* that does not seek takes place where it was asked for.
PositionsAreKnown ==
  \A f \in Files : valid(f) =>
    /\ rec[f].used \subseteq {"read"} => rec[f].offset = rec[f].rdPos
    /\ rec[f].used \subseteq {"write"} => rec[f].offset = rec[f].wrPos

-----------------------------------------------------------------------------
(* What a comment of the code says, and the code does not do                *)

\* sqUnixAsynchFile.c:40: the semaphore is signalled for each transfer that is started, even
\* if it later fails.
FailedTransfersSignal == \A f \in Files : transfer[f] # "none" => SignalComes(f)
=============================================================================
