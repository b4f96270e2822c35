--------------------------- MODULE AioClients_proofs ---------------------------
(***************************************************************************)
(* Theorems about AioClients, for any sockets, files and descriptors: that *)
(* files and sockets, which share aio.c and know nothing of each other,    *)
(* keep apart, that aioPoll's events reach the one or the other, and that  *)
(* what AsyncFiles says of files holds with sockets about.                 *)
(***************************************************************************)
EXTENDS AioClients, Sockets_proofs

-----------------------------------------------------------------------------
(* AsyncFiles has an instance of the operators of aio.c: they are the same. *)

LEMMA OneVocabulary ==
  /\ AsyncFiles!NoDescriptor = NoDescriptor /\ AsyncFiles!Descriptors = Descriptors
  /\ AsyncFiles!Events = Events /\ AsyncFiles!Kinds = Kinds /\ AsyncFiles!Masks = Masks
<1>1. /\ AsyncFiles!NoDescriptor = NoDescriptor /\ AsyncFiles!Descriptors = Descriptors
      /\ AsyncFiles!Events = Events /\ AsyncFiles!Kinds = Kinds
  BY DEF AsyncFiles!NoDescriptor, NoDescriptor, AsyncFiles!Descriptors, Descriptors,
         AsyncFiles!Events, Events, AsyncFiles!Kinds, Kinds
<1>2. QED
  BY <1>1 DEF AsyncFiles!Masks, Masks

LEMMA OneAio ==
  /\ \A a, d, c : AsyncFiles!aioEnable(a, d, c) = aioEnable(a, d, c)
  /\ \A a, d, h, evs : AsyncFiles!aioHandle(a, d, h, evs) = aioHandle(a, d, h, evs)
  /\ \A a, d : AsyncFiles!aioDisable(a, d) = aioDisable(a, d)
  /\ \A a, D : AsyncFiles!Disabled(a, D) = Disabled(a, D)
<1> USE OneVocabulary DEF AsyncFiles!SetHandlers, SetHandlers
<1>1. \A a, d, c : AsyncFiles!aioEnable(a, d, c) = aioEnable(a, d, c)
  BY DEF AsyncFiles!aioEnable, aioEnable
<1>2. \A a, d, h, evs : AsyncFiles!aioHandle(a, d, h, evs) = aioHandle(a, d, h, evs)
  BY DEF AsyncFiles!aioHandle, aioHandle
<1>3. \A a, D : AsyncFiles!Disabled(a, D) = Disabled(a, D)
  BY DEF AsyncFiles!Disabled, Disabled, AsyncFiles!Max, Max
<1>4. \A a, d : AsyncFiles!aioDisable(a, d) = aioDisable(a, d)
  BY <1>3 DEF AsyncFiles!aioDisable, aioDisable
<1>5. QED
  BY <1>1, <1>2, <1>3, <1>4

LEMMA OnePoll ==
  /\ AsyncFiles!AioTypeOK <=> AioTypeOK
  /\ AsyncFiles!First = First /\ AsyncFiles!fd = fd /\ AsyncFiles!flag = flag
  /\ AsyncFiles!data = data /\ AsyncFiles!Taken = Taken
  /\ AsyncFiles!TakeEvent <=> TakeEvent
  /\ AsyncFiles!Primitive <=> Primitive
  /\ AsyncFiles!Watched = Watched
  /\ AsyncFiles!FreeDescriptors = FreeDescriptors
  /\ AsyncFiles!NewDescriptor = NewDescriptor
  /\ \A h : AsyncFiles!Calls(h) <=> Calls(h)
<1>1. AsyncFiles!AioTypeOK <=> AioTypeOK
  BY OneVocabulary DEF AsyncFiles!AioTypeOK, AioTypeOK
<1>2. AsyncFiles!Polling <=> Polling
  BY DEF AsyncFiles!Polling, Polling
<1>3. AsyncFiles!First = First
  BY DEF AsyncFiles!First, First, AsyncFiles!Before, Before
<1>4. AsyncFiles!fd = fd /\ AsyncFiles!flag = flag /\ AsyncFiles!data = data
  BY <1>3 DEF AsyncFiles!fd, fd, AsyncFiles!flag, flag, AsyncFiles!data, data
<1>5. AsyncFiles!Taken = Taken
  BY <1>3 DEF AsyncFiles!Taken, Taken, AsyncFiles!SetHandlers, SetHandlers
<1>6. AsyncFiles!TakeEvent <=> TakeEvent
  BY <1>2, <1>3 DEF AsyncFiles!TakeEvent, TakeEvent, AsyncFiles!LoopGoesOn, LoopGoesOn
<1>7. AsyncFiles!Primitive <=> Primitive
  BY <1>2 DEF AsyncFiles!Primitive, Primitive
<1>8. AsyncFiles!Watched = Watched
  BY DEF AsyncFiles!Watched, Watched
<1>9. AsyncFiles!FreeDescriptors = FreeDescriptors
  BY OneVocabulary DEF AsyncFiles!FreeDescriptors, FreeDescriptors
<1>10. AsyncFiles!NewDescriptor = NewDescriptor
  BY <1>9 DEF AsyncFiles!NewDescriptor, NewDescriptor, AsyncFiles!Min, Min
<1>11. \A h : AsyncFiles!Calls(h) <=> Calls(h)
  BY <1>3, <1>6 DEF AsyncFiles!Calls, Calls
<1>12. QED
  BY <1>1, <1>3, <1>4, <1>5, <1>6, <1>7, <1>8, <1>9, <1>10, <1>11

-----------------------------------------------------------------------------
(* The inductive invariant                                                  *)

FileKinds == {"file", "stream"}

\* What a file's record r and the masks say of each other; m is the record aio, k is kernel.
FileSound(f, r, m, k) ==
  /\ k[r.fd] \in FileKinds
  /\ r.fd \in m.enabled /\ m.client[r.fd] = f
  /\ m.handler[<<r.fd, "R">>] \in {"readHandler", "undefined"}
  /\ m.handler[<<r.fd, "W">>] \in {"writeHandler", "undefined"}
  /\ m.handler[<<r.fd, "X">>] = "undefined"

\* The record r, the image's transfer t and its excess signals g, and the handlers of the
\* descriptor for reading and writing.
Promise(r, g, t, R, W) ==
  /\ t # "none" => t \in r.used
  /\ W = "writeHandler" => t = "write" /\ r.wrStatus = "Busy"
  /\ r.left > 0 => W = "writeHandler"
  /\ t = "read" => g > 0 \/ R = "readHandler"
  /\ t = "write" => \/ r.wrStatus = "Error"
                    \/ r.wrStatus = "Busy" /\ W = "writeHandler"
                    \/ r.wrStatus = "size" /\ g > 0
  /\ r.wrPos + r.left <= MaxPosition /\ r.offset + r.left <= MaxPosition
  /\ r.used \subseteq {"read"} => r.offset = r.rdPos
  /\ r.used \subseteq {"write"} => r.offset = r.wrPos

FileState(f, r, g, t, m, k) ==
  IF r = Nil THEN t = "none"
  ELSE /\ FileSound(f, r, m, k)
       /\ Promise(r, g, t, m.handler[<<r.fd, "R">>], m.handler[<<r.fd, "W">>])

\* c is rec: a descriptor of a file that aio.c knows is its client's.
OwnerSound(d, m, k, c) ==
  d \in m.enabled /\ k[d] \in FileKinds =>
    m.client[d] \in Files /\ c[m.client[d]] # Nil /\ c[m.client[d]].fd = d

RecType == [Files -> AsyncFiles!FileRec \cup {Nil}]
SignalsType == [Files -> Nat]
TransferType == [Files -> {"read", "write", "none"}]

\* g is signals and t is transfer.
SoundFiles(m, k, c, g, t) ==
  /\ c \in RecType /\ g \in SignalsType /\ t \in TransferType
  /\ \A f \in Files : FileState(f, c[f], g[f], t[f], m, k)
  /\ \A d \in Descriptors : OwnerSound(d, m, k, c)

FilesSound == SoundFiles(aio, kernel, rec, signals, transfer)

LEMMA FilesVocabulary ==
  /\ Files \subseteq Clients /\ Sockets \cap Files = {}
  /\ "readHandler" \in Handlers /\ "writeHandler" \in Handlers
  /\ "readHandler" \notin SocketHandlers /\ "writeHandler" \notin SocketHandlers
  /\ MaxPosition \in Nat /\ MaxSize \in Nat
  /\ Nil \notin AsyncFiles!FileRec
  /\ FileKinds \subseteq Kinds /\ FileKinds \cap SocketKinds = {}
  /\ "free" \notin FileKinds /\ "other" \notin FileKinds
BY ClientsAssumption
   DEF AsyncFiles!Assumption, AsyncFiles!FileHandlers, SocketHandlers, FileKinds, Kinds, SocketKinds

LEMMA RecordFields ==
  ASSUME NEW r \in AsyncFiles!FileRec
  PROVE  /\ r.fd \in Descriptors
         /\ r.rdPos \in 0 .. MaxPosition /\ r.wrPos \in 0 .. MaxPosition
         /\ r.offset \in 0 .. MaxPosition
         /\ r.wrStatus \in {"Busy", "Error", "size"}
         /\ r.left \in 0 .. MaxSize
         /\ r.used \subseteq {"read", "write"}
BY DEF AsyncFiles!FileRec, AsyncFiles!Descriptors, Descriptors, AsyncFiles!Positions,
       AsyncFiles!Transfers

\* What the sockets do leaves the files alone.
LEMMA SocketsLeaveFiles ==
  ASSUME NEW m, NEW k, NEW c, NEW g, NEW t, SoundFiles(m, k, c, g, t),
         NEW n, NEW l, NEW D, Elsewhere(m, n, k, l, D),
         \A d \in D : k[d] \notin FileKinds /\ l[d] \notin FileKinds
  PROVE  SoundFiles(n, l, c, g, t)
<1>1. ASSUME NEW f \in Files PROVE FileState(f, c[f], g[f], t[f], n, l)
  <2> DEFINE r == c[f]
  <2>1. FileState(f, r, g[f], t[f], m, k)
    BY DEF SoundFiles
  <2>2. CASE r = Nil
    BY <2>1, <2>2 DEF FileState
  <2>3. CASE r # Nil
    <3>1. r.fd \in Descriptors /\ k[r.fd] \in FileKinds
      BY <2>1, <2>3, RecordFields DEF SoundFiles, RecType, FileState, FileSound
    <3>2. /\ l[r.fd] = k[r.fd] /\ (r.fd \in n.enabled <=> r.fd \in m.enabled)
          /\ n.client[r.fd] = m.client[r.fd]
          /\ n.handler[<<r.fd, "R">>] = m.handler[<<r.fd, "R">>]
          /\ n.handler[<<r.fd, "W">>] = m.handler[<<r.fd, "W">>]
          /\ n.handler[<<r.fd, "X">>] = m.handler[<<r.fd, "X">>]
      BY <3>1 DEF Elsewhere, MasksElsewhere, Events
    <3>3. QED
      BY <2>1, <2>3, <3>2 DEF FileState, FileSound
  <2>4. QED
    BY <2>2, <2>3
<1>2. ASSUME NEW d \in Descriptors PROVE OwnerSound(d, n, l, c)
  BY DEF SoundFiles, OwnerSound, Elsewhere, MasksElsewhere
<1>3. QED
  BY <1>1, <1>2 DEF SoundFiles

\* d was, and is, a file's or nobody's; n and l are what the masks and kernel become.
NoSockets(d, k, n, l) ==
  /\ k[d] \in FileKinds \cup {"free"} /\ l[d] \in FileKinds \cup {"free"}
  /\ d \in n.enabled => l[d] # "free"
  /\ \A v \in Events : n.handler[<<d, v>>] \in Handlers =>
       d \in n.enabled /\ n.handler[<<d, v>>] \notin SocketHandlers

\* What the files do leaves the sockets alone: m, k and q become n, l and q.
LEMMA FilesLeaveSockets ==
  ASSUME NEW m, NEW k, NEW q, Sound(m, k, q), NEW n, NEW l, Tidy(n), l \in KernelType,
         NEW D \in SUBSET Descriptors, Elsewhere(m, n, k, l, D),
         \A d \in D : NoSockets(d, k, n, l)
  PROVE  Sound(n, l, q)
<1>1. ASSUME NEW s \in Sockets, NEW d \in D PROVE ~Has(q[s], d)
  <2>1. SocketSound(q[s], m, k)
    BY DEF Sound
  <2>2. k[d] \notin SocketKinds /\ k[d] # "connected"
    BY DEF NoSockets, SocketKinds, FileKinds
  <2>3. QED
    BY <2>1, <2>2 DEF SocketSound, Consistent, Has
<1>2. ASSUME NEW d \in D PROVE k[d] # "other" /\ DescriptorSound(d, n, l, q)
  <2>1. k[d] # "other" /\ l[d] # "other" /\ l[d] \notin SocketKinds
    BY DEF NoSockets, SocketKinds, FileKinds
  <2>2. SocketHandlers \subseteq Handlers /\ NoSockets(d, k, n, l)
    BY Vocabulary
  <2>3. QED
    BY <2>1, <2>2 DEF DescriptorSound, NoSockets
<1>3. q \in SocketsType
  BY DEF Sound
<1>4. Local(m, n, k, l, q, q, {}, D)
  BY <1>1, <1>2, <1>3 DEF Local
<1>5. QED
  BY <1>4, Frame

\* The file f, whose record becomes r, and its descriptor d change.
FileChanges(f, d, r, g, t) ==
  /\ IF rec[f] = Nil THEN kernel[d] = "free" ELSE rec[f].fd = d
  /\ r \in AsyncFiles!FileRec \cup {Nil} /\ rec' = [rec EXCEPT ![f] = r]
  /\ g \in Nat /\ signals' = [signals EXCEPT ![f] = g]
  /\ t \in {"read", "write", "none"} /\ transfer' = [transfer EXCEPT ![f] = t]
  /\ Tidy(aio') /\ kernel' \in KernelType /\ pss' = pss
  /\ Elsewhere(aio, aio', kernel, kernel', {d})

ClientsSound == SocketsSound /\ FilesSound

LEMMA OneFile ==
  ASSUME ClientsSound, NEW f \in Files, NEW d \in Descriptors, NEW r, NEW g, NEW t,
         FileChanges(f, d, r, g, t), FileState(f, r, g, t, aio', kernel'),
         IF r = Nil
         THEN /\ kernel'[d] = "free" /\ d \notin aio'.enabled
              /\ \A v \in Events : aio'.handler[<<d, v>>] \notin Handlers
         ELSE r.fd = d
  PROVE  ClientsSound'
<1>1. /\ SoundFiles(aio, kernel, rec, signals, transfer) /\ Sound(aio, kernel, pss)
      /\ rec \in RecType /\ signals \in SignalsType /\ transfer \in TransferType
  BY DEF ClientsSound, FilesSound, SocketsSound, SoundFiles
<1>2. /\ rec' \in RecType /\ rec'[f] = r
      /\ signals' \in SignalsType /\ signals'[f] = g
      /\ transfer' \in TransferType /\ transfer'[f] = t
      /\ \A h \in Files \ {f} :
           rec'[h] = rec[h] /\ signals'[h] = signals[h] /\ transfer'[h] = transfer[h]
  BY <1>1 DEF FileChanges, RecType, SignalsType, TransferType
<1>3. kernel[d] \in FileKinds \cup {"free"}
  BY <1>1 DEF FileChanges, SoundFiles, FileState, FileSound
<1>4. \A h \in Files \ {f} : rec[h] # Nil => rec[h].fd # d
  <2> SUFFICES ASSUME NEW h \in Files \ {f}, rec[h] # Nil, rec[h].fd = d PROVE FALSE
    OBVIOUS
  <2>1. kernel[d] \in FileKinds /\ aio.client[d] = h
    BY <1>1 DEF SoundFiles, FileState, FileSound
  <2>2. rec[f].fd = d /\ aio.client[d] = f
    <3>1. rec[f] # Nil /\ rec[f].fd = d
      BY <2>1, FilesVocabulary DEF FileChanges
    <3>2. QED
      BY <1>1, <3>1 DEF SoundFiles, FileState, FileSound
  <2>3. QED
    BY <2>1, <2>2
<1>5. ASSUME NEW h \in Files PROVE FileState(h, rec'[h], signals'[h], transfer'[h], aio', kernel')
  <2>1. CASE h = f
    BY <1>2, <2>1
  <2>2. CASE h # f
    <3>1. FileState(h, rec[h], signals[h], transfer[h], aio, kernel)
      BY <1>1 DEF SoundFiles
    <3>2. CASE rec[h] = Nil
      BY <1>2, <2>2, <3>1, <3>2 DEF FileState
    <3>3. CASE rec[h] # Nil
      <4> DEFINE c == rec[h].fd
      <4>1. c \in Descriptors \ {d}
        BY <1>1, <1>4, <2>2, <3>3, RecordFields DEF RecType
      <4>2. /\ kernel'[c] = kernel[c] /\ (c \in aio'.enabled <=> c \in aio.enabled)
            /\ aio'.client[c] = aio.client[c]
            /\ aio'.handler[<<c, "R">>] = aio.handler[<<c, "R">>]
            /\ aio'.handler[<<c, "W">>] = aio.handler[<<c, "W">>]
            /\ aio'.handler[<<c, "X">>] = aio.handler[<<c, "X">>]
        BY <4>1 DEF FileChanges, Elsewhere, MasksElsewhere, Events
      <4>3. QED
        BY <1>2, <2>2, <3>1, <3>3, <4>2 DEF FileState, FileSound
    <3>4. QED
      BY <3>2, <3>3
  <2>3. QED
    BY <2>1, <2>2
<1>6. ASSUME NEW c \in Descriptors PROVE OwnerSound(c, aio', kernel', rec')
  <2>1. CASE c = d
    BY <1>2, <2>1, FilesVocabulary DEF OwnerSound, FileState, FileSound
  <2>2. CASE c # d
    <3>1. OwnerSound(c, aio, kernel, rec)
      BY <1>1 DEF SoundFiles
    <3>2. /\ kernel'[c] = kernel[c] /\ (c \in aio'.enabled <=> c \in aio.enabled)
          /\ aio'.client[c] = aio.client[c]
      BY <2>2 DEF FileChanges, Elsewhere, MasksElsewhere
    <3>3. aio.client[c] = f /\ rec[f] # Nil => rec[f].fd = d
      BY DEF FileChanges
    <3>4. QED
      BY <1>2, <2>2, <3>1, <3>2, <3>3 DEF OwnerSound
  <2>3. QED
    BY <2>1, <2>2
<1>7. FilesSound'
  BY <1>2, <1>5, <1>6 DEF FilesSound, SoundFiles
<1>8. SocketsSound'
  <2>1. /\ kernel'[d] \in FileKinds \cup {"free"}
        /\ d \in aio'.enabled => kernel'[d] # "free"
    BY FilesVocabulary DEF FileState, FileSound
  <2>2. \A v \in Events : aio'.handler[<<d, v>>] \in Handlers =>
          d \in aio'.enabled /\ aio'.handler[<<d, v>>] \notin SocketHandlers
    BY FilesVocabulary, IdleIsNoHandler DEF FileState, FileSound, Events
  <2>3. /\ Tidy(aio') /\ kernel' \in KernelType /\ pss' = pss
        /\ Elsewhere(aio, aio', kernel, kernel', {d})
    BY DEF FileChanges
  <2>4. \A c \in {d} : NoSockets(c, kernel, aio', kernel')
    BY <1>3, <2>1, <2>2 DEF NoSockets
  <2>5. Sound(aio', kernel', pss)
    BY <1>1, <2>3, <2>4, FilesLeaveSockets
  <2>6. QED
    BY <2>3, <2>5 DEF SocketsSound
<1>9. QED
  BY <1>7, <1>8 DEF ClientsSound

-----------------------------------------------------------------------------
(* What the files do                                                        *)

\* A file that is valid
LEMMA FileAsked ==
  ASSUME ClientsSound, NEW f \in Files, rec[f] # Nil
  PROVE  /\ rec[f] \in AsyncFiles!FileRec /\ rec[f].fd \in Descriptors
         /\ Tidy(aio) /\ kernel \in KernelType
         /\ rec \in RecType /\ signals \in SignalsType /\ transfer \in TransferType
         /\ signals[f] \in Nat /\ transfer[f] \in {"read", "write", "none"}
         /\ FileSound(f, rec[f], aio, kernel)
         /\ Promise(rec[f], signals[f], transfer[f],
                    aio.handler[<<rec[f].fd, "R">>], aio.handler[<<rec[f].fd, "W">>])
<1>1. SoundFiles(aio, kernel, rec, signals, transfer) /\ Tidy(aio) /\ kernel \in KernelType
  BY DEF ClientsSound, FilesSound, SocketsSound, Sound
<1>2. /\ rec \in RecType /\ signals \in SignalsType /\ transfer \in TransferType
      /\ FileState(f, rec[f], signals[f], transfer[f], aio, kernel)
  BY <1>1 DEF SoundFiles
<1>3. rec[f] \in AsyncFiles!FileRec
  BY <1>2 DEF RecType
<1>4. signals[f] \in Nat /\ transfer[f] \in {"read", "write", "none"}
  BY <1>2 DEF SignalsType, TransferType
<1>5. QED
  BY <1>1, <1>2, <1>3, <1>4, RecordFields DEF FileState

\* f keeps its descriptor; what becomes of the record, the signals and the transfer is sound.
LEMMA FileKept ==
  ASSUME ClientsSound, NEW f \in Files, rec[f] # Nil,
         NEW r \in AsyncFiles!FileRec, r.fd = rec[f].fd, rec' = [rec EXCEPT ![f] = r],
         NEW g \in Nat, signals' = [signals EXCEPT ![f] = g],
         NEW t \in {"read", "write", "none"}, transfer' = [transfer EXCEPT ![f] = t],
         Tidy(aio'), MasksElsewhere(aio, aio', {r.fd}), kernel' = kernel, pss' = pss,
         FileSound(f, r, aio', kernel),
         Promise(r, g, t, aio'.handler[<<r.fd, "R">>], aio'.handler[<<r.fd, "W">>])
  PROVE  ClientsSound'
<1> DEFINE d == rec[f].fd
<1>1. d \in Descriptors /\ kernel \in KernelType
  BY FileAsked
<1>2. r # Nil
  BY FilesVocabulary
<1>3. FileState(f, r, g, t, aio', kernel')
  BY <1>2 DEF FileState
<1>4. Elsewhere(aio, aio', kernel, kernel', {d})
  BY DEF Elsewhere
<1>5. FileChanges(f, d, r, g, t)
  BY <1>1, <1>4 DEF FileChanges
<1>6. QED
  BY <1>1, <1>2, <1>3, <1>5, OneFile

\* writeBuffer of the record r, with masks a in which nothing handles writes of f.
MayWrite(a, f, r) ==
  /\ r \in AsyncFiles!FileRec /\ r.fd = rec[f].fd
  /\ r.wrStatus = "Busy" /\ "write" \in r.used
  /\ r.wrPos + r.left <= MaxPosition /\ r.offset + r.left <= MaxPosition
  /\ r.used \subseteq {"write"} => r.offset = r.wrPos
  /\ Tidy(a) /\ MasksElsewhere(aio, a, {r.fd})
  /\ FileSound(f, r, a, kernel) /\ a.handler[<<r.fd, "W">>] = "undefined"

\* r once n units were written
IsWritten(w, r, n) ==
  /\ w \in AsyncFiles!FileRec /\ w.fd = r.fd /\ w.rdPos = r.rdPos
  /\ w.wrPos = r.wrPos + n /\ w.offset = r.offset + n /\ w.left = r.left - n
  /\ w.wrStatus = r.wrStatus /\ w.used = r.used

LEMMA Written ==
  ASSUME NEW r \in AsyncFiles!FileRec, NEW n \in 0 .. r.left,
         r.wrPos + r.left <= MaxPosition, r.offset + r.left <= MaxPosition
  PROVE  IsWritten([r EXCEPT !.wrPos = @ + n, !.offset = @ + n, !.left = @ - n], r, n)
<1>1. /\ r.wrPos \in 0 .. MaxPosition /\ r.offset \in 0 .. MaxPosition /\ r.left \in 0 .. MaxSize
      /\ MaxPosition \in Nat /\ MaxSize \in Nat
  BY RecordFields, FilesVocabulary
<1>2. /\ r.wrPos + n \in 0 .. MaxPosition /\ r.offset + n \in 0 .. MaxPosition
      /\ r.left - n \in 0 .. MaxSize
  BY <1>1
<1>3. QED
  BY <1>2 DEF IsWritten, AsyncFiles!FileRec, AsyncFiles!Positions

LEMMA WriteBufferKeeps ==
  ASSUME ClientsSound, NEW f \in Files, rec[f] # Nil, NEW a, NEW r, MayWrite(a, f, r),
         AsyncFiles!writeBuffer(a, f, r),
         transfer' = [transfer EXCEPT ![f] = "write"], kernel' = kernel, pss' = pss
  PROVE  ClientsSound'
<1> DEFINE R == a.handler[<<r.fd, "R">>]
           W == a.handler[<<r.fd, "W">>]
<1>1. /\ r \in AsyncFiles!FileRec /\ r.fd = rec[f].fd /\ r.fd \in Descriptors
      /\ r.wrStatus = "Busy" /\ "write" \in r.used
      /\ r.left \in Nat /\ r.wrPos \in Nat /\ r.offset \in Nat
      /\ r.wrPos + r.left <= MaxPosition /\ r.offset + r.left <= MaxPosition
      /\ r.used \subseteq {"write"} => r.offset = r.wrPos
      /\ Tidy(a) /\ MasksElsewhere(aio, a, {r.fd})
      /\ FileSound(f, r, a, kernel) /\ W = "undefined"
  BY RecordFields, FilesVocabulary DEF MayWrite
<1>2. signals \in SignalsType /\ signals[f] \in Nat
  BY FileAsked
<1>3. PICK n \in 0 .. r.left :
        LET w == [r EXCEPT !.wrPos = @ + n, !.offset = @ + n, !.left = @ - n] IN
        \/ /\ n = r.left
           /\ rec' = [rec EXCEPT ![f] = [w EXCEPT !.wrStatus = "size"]]
           /\ signals' = [signals EXCEPT ![f] = @ + 1]
           /\ aio' = a
        \/ /\ n < r.left
           /\ rec' = [rec EXCEPT ![f] = w]
           /\ aio' = aioHandle(a, r.fd, "writeHandler", {"W"})
           /\ UNCHANGED signals
        \/ /\ n < r.left
           /\ rec' = [rec EXCEPT ![f] = [w EXCEPT !.left = 0, !.wrStatus = "Error"]]
           /\ aio' = a
           /\ UNCHANGED signals
  BY OneAio DEF AsyncFiles!writeBuffer, AsyncFiles!WriteLater
<1> DEFINE w == [r EXCEPT !.wrPos = @ + n, !.offset = @ + n, !.left = @ - n]
<1>4. IsWritten(w, r, n)
  BY <1>1, Written
<1>5. /\ w \in AsyncFiles!FileRec /\ w.fd = r.fd /\ w.wrPos + w.left = r.wrPos + r.left
      /\ w.offset + w.left = r.offset + r.left /\ w.left = r.left - n /\ w.wrPos \in Nat
      /\ w.offset \in Nat /\ w.wrStatus = "Busy"
      /\ w.used = r.used /\ "write" \in w.used
      /\ w.used \subseteq {"write"} => w.offset = w.wrPos
      /\ n \in Nat
  <2> HIDE DEF w
  <2>1. /\ w \in AsyncFiles!FileRec /\ w.fd = r.fd /\ w.wrPos = r.wrPos + n
        /\ w.offset = r.offset + n /\ w.left = r.left - n
        /\ w.wrStatus = "Busy" /\ w.used = r.used /\ n \in Nat
    BY <1>1, <1>4 DEF IsWritten
  <2>2. /\ w.wrPos + w.left = r.wrPos + r.left /\ w.offset + w.left = r.offset + r.left
        /\ w.wrPos \in Nat /\ w.offset \in Nat
    BY <1>1, <2>1
  <2>3. w.used \subseteq {"write"} => w.offset = w.wrPos
    BY <1>1, <2>1
  <2>4. QED
    BY <1>1, <2>1, <2>2, <2>3
<1>6. \/ /\ n = r.left
         /\ rec' = [rec EXCEPT ![f] = [w EXCEPT !.wrStatus = "size"]]
         /\ signals' = [signals EXCEPT ![f] = @ + 1]
         /\ aio' = a
      \/ /\ n < r.left
         /\ rec' = [rec EXCEPT ![f] = w]
         /\ aio' = aioHandle(a, r.fd, "writeHandler", {"W"})
         /\ UNCHANGED signals
      \/ /\ n < r.left
         /\ rec' = [rec EXCEPT ![f] = [w EXCEPT !.left = 0, !.wrStatus = "Error"]]
         /\ aio' = a
         /\ UNCHANGED signals
  BY <1>3
<1> HIDE DEF w
<1>7. ~(w.used \subseteq {"read"}) /\ r.left - r.left = 0
  BY <1>1, <1>5
<1>8. CASE /\ n = r.left
           /\ rec' = [rec EXCEPT ![f] = [w EXCEPT !.wrStatus = "size"]]
           /\ signals' = [signals EXCEPT ![f] = @ + 1]
           /\ aio' = a
  <2> DEFINE q == [w EXCEPT !.wrStatus = "size"]
             g == signals[f] + 1
  <2>1. /\ q \in AsyncFiles!FileRec /\ q.fd = r.fd /\ q.wrPos = w.wrPos /\ q.offset = w.offset
        /\ q.left = 0 /\ q.used = w.used /\ q.wrStatus = "size"
    BY <1>5, <1>7, <1>8 DEF AsyncFiles!FileRec
  <2>2. g \in Nat /\ g > 0 /\ signals' = [signals EXCEPT ![f] = g]
    BY <1>2, <1>8 DEF SignalsType
  <2> HIDE DEF q, g
  <2>3. FileSound(f, q, a, kernel)
    BY <1>1, <2>1 DEF FileSound
  <2>4. w.left = 0
    BY <1>5, <1>7, <1>8
  <2>5. Promise(q, g, "write", R, W)
    BY <1>1, <1>5, <1>7, <2>1, <2>2, <2>4 DEF Promise
  <2>6. rec' = [rec EXCEPT ![f] = q]
    BY <1>8 DEF q
  <2>7. QED
    BY <1>1, <1>8, <2>1, <2>2, <2>3, <2>5, <2>6, FileKept
<1>9. CASE /\ n < r.left
           /\ rec' = [rec EXCEPT ![f] = w]
           /\ aio' = aioHandle(a, r.fd, "writeHandler", {"W"})
           /\ UNCHANGED signals
  <2> DEFINE evs == {"W"}
  <2>1. /\ "writeHandler" \in Handlers /\ evs \in SUBSET Events
        /\ "W" \in evs /\ "R" \notin evs /\ "X" \notin evs
        /\ "R" \in Events /\ "W" \in Events /\ "X" \in Events
    BY FilesVocabulary, Vocabulary
  <2>2. aio' = aioHandle(a, r.fd, "writeHandler", evs)
    BY <1>9
  <2> HIDE DEF evs
  <2>3. HandledBy(a, aio', r.fd, evs, "writeHandler")
    BY <1>1, <2>1, <2>2, HandleEffect
  <2>4. /\ Tidy(aio') /\ MasksElsewhere(a, aio', {r.fd})
        /\ aio'.enabled = a.enabled /\ aio'.client = a.client
        /\ aio'.handler[<<r.fd, "R">>] = R /\ aio'.handler[<<r.fd, "W">>] = "writeHandler"
        /\ aio'.handler[<<r.fd, "X">>] = a.handler[<<r.fd, "X">>]
    BY <2>1, <2>3 DEF HandledBy
  <2>5. FileSound(f, w, aio', kernel)
    BY <1>1, <1>5, <2>4 DEF FileSound
  <2>6. Promise(w, signals[f], "write", R, "writeHandler")
    BY <1>1, <1>5, <1>7 DEF Promise
  <2>7. MasksElsewhere(aio, aio', {w.fd})
    <3>1. MasksElsewhere(aio, aio', {r.fd})
      BY <1>1, <2>4, MasksElsewhereTrans
    <3>2. QED
      BY <1>5, <3>1
  <2>8. signals' = [signals EXCEPT ![f] = signals[f]]
    BY <1>2, <1>9 DEF SignalsType
  <2>9. QED
    BY <1>1, <1>2, <1>5, <1>9, <2>4, <2>5, <2>6, <2>7, <2>8, FileKept
<1>10. CASE /\ n < r.left
            /\ rec' = [rec EXCEPT ![f] = [w EXCEPT !.left = 0, !.wrStatus = "Error"]]
            /\ aio' = a
            /\ UNCHANGED signals
  <2> DEFINE q == [w EXCEPT !.left = 0, !.wrStatus = "Error"]
  <2>1. /\ q \in AsyncFiles!FileRec /\ q.fd = r.fd /\ q.wrPos = w.wrPos /\ q.offset = w.offset
        /\ q.left = 0 /\ q.used = w.used /\ q.wrStatus = "Error"
    <3>1. 0 \in 0 .. MaxSize
      BY FilesVocabulary
    <3>2. QED
      BY <1>5, <3>1 DEF AsyncFiles!FileRec
  <2>2. signals' = [signals EXCEPT ![f] = signals[f]]
    BY <1>2, <1>10 DEF SignalsType
  <2> HIDE DEF q
  <2>3. FileSound(f, q, a, kernel)
    BY <1>1, <2>1 DEF FileSound
  <2>4. w.wrPos <= MaxPosition /\ w.offset <= MaxPosition
    BY <1>5, RecordFields, FilesVocabulary
  <2>5. Promise(q, signals[f], "write", R, W)
    BY <1>1, <1>5, <1>7, <2>1, <2>4 DEF Promise
  <2>6. rec' = [rec EXCEPT ![f] = q]
    BY <1>10 DEF q
  <2>7. QED
    BY <1>1, <1>2, <1>10, <2>1, <2>2, <2>3, <2>5, <2>6, FileKept
<1>11. QED
  BY <1>6, <1>8, <1>9, <1>10

\* What aioPoll passes to a handler of files.
LEMMA FileCalled ==
  ASSUME ClientsSound, AioTypeOK, NEW h \in {"readHandler", "writeHandler"}, Calls(h)
  PROVE  /\ fd \in Descriptors /\ data \in Files /\ rec[data] # Nil /\ rec[data].fd = fd
         /\ flag = IF h = "readHandler" THEN "R" ELSE "W"
         /\ aio.handler[<<fd, flag>>] = h
         /\ Tidy(Taken) /\ MasksElsewhere(aio, Taken, {fd})
         /\ FileSound(data, rec[data], Taken, kernel)
         /\ \A v \in Events :
              Taken.handler[<<fd, v>>] = IF v = flag THEN "undefined" ELSE aio.handler[<<fd, v>>]
<1>1. First = <<fd, flag>> /\ fd \in Descriptors /\ flag \in Events
  BY FirstIsReady DEF Calls, TakeEvent
<1>2. aio.handler[<<fd, flag>>] = h /\ h \in Handlers /\ h \notin SocketHandlers
  BY <1>1, FilesVocabulary DEF Calls
<1>3. Tidy(aio) /\ DescriptorSound(fd, aio, kernel, pss)
  BY <1>1 DEF ClientsSound, SocketsSound, Sound
<1>4. fd \in aio.enabled /\ kernel[fd] \in Kinds \ {"free", "other"}
  BY <1>1, <1>2, <1>3 DEF DescriptorSound, ClientsSound, SocketsSound, Sound, KernelType
<1>5. kernel[fd] \in FileKinds
  <2>1. SUFFICES ASSUME kernel[fd] \in SocketKinds PROVE FALSE
    BY <1>4 DEF Kinds, SocketKinds, FileKinds
  <2>2. data \in Sockets /\ Open(pss[data]) /\ pss[data].s = fd
    BY <1>3, <1>4, <2>1 DEF DescriptorSound, data
  <2>3. SocketSound(pss[data], aio, kernel)
    BY <2>2 DEF ClientsSound, SocketsSound, Sound
  <2>4. \A v \in Events : Ours(aio.handler[<<fd, v>>])
    BY <2>2, <2>3 DEF SocketSound, Consistent, Events
  <2>5. QED
    BY <1>1, <1>2, <2>4, IdleIsNoHandler DEF Ours, Idle
<1>6. data \in Files /\ rec[data] # Nil /\ rec[data].fd = fd
  BY <1>1, <1>4, <1>5 DEF ClientsSound, FilesSound, SoundFiles, OwnerSound, data
<1>7. FileSound(data, rec[data], aio, kernel)
  BY <1>6, FileAsked
<1>8. flag = IF h = "readHandler" THEN "R" ELSE "W"
  BY <1>1, <1>2, <1>6, <1>7 DEF FileSound, Events
<1>9. /\ Tidy(Taken) /\ Taken.enabled = aio.enabled /\ Taken.client = aio.client
      /\ \A v \in Events :
           Taken.handler[<<fd, v>>] = IF v = flag THEN "undefined" ELSE aio.handler[<<fd, v>>]
      /\ MasksElsewhere(aio, Taken, {fd})
  BY <1>1, <1>3, TakenEffect
<1>10. FileSound(data, rec[data], Taken, kernel)
  BY <1>6, <1>7, <1>9 DEF FileSound, Events
<1>11. QED
  BY <1>1, <1>2, <1>6, <1>8, <1>9, <1>10

LEMMA ReadHandlerKeeps ==
  ASSUME ClientsSound, AioTypeOK, AsyncFiles!readHandler, pss' = pss
  PROVE  ClientsSound'
<1> DEFINE f == data
           r == rec[f]
           g == signals[f] + 1
<1>1. /\ Calls("readHandler") /\ aio' = Taken /\ signals' = [signals EXCEPT ![f] = @ + 1]
      /\ kernel' = kernel /\ rec' = rec /\ transfer' = transfer
  BY OnePoll DEF AsyncFiles!readHandler
<1>2. /\ f \in Files /\ r # Nil /\ r.fd = fd
      /\ flag = "R" /\ Tidy(Taken) /\ MasksElsewhere(aio, Taken, {fd})
      /\ FileSound(f, r, Taken, kernel)
      /\ Taken.handler[<<fd, "W">>] = aio.handler[<<fd, "W">>]
  BY <1>1, FileCalled DEF Events
<1> HIDE DEF f
<1>3. /\ r \in AsyncFiles!FileRec /\ rec \in RecType /\ signals \in SignalsType
      /\ transfer \in TransferType
      /\ signals[f] \in Nat /\ transfer[f] \in {"read", "write", "none"}
      /\ Promise(r, signals[f], transfer[f],
                 aio.handler[<<r.fd, "R">>], aio.handler[<<r.fd, "W">>])
  BY <1>2, FileAsked
<1> HIDE DEF r
<1>4. /\ rec' = [rec EXCEPT ![f] = r] /\ transfer' = [transfer EXCEPT ![f] = transfer[f]]
      /\ signals' = [signals EXCEPT ![f] = g] /\ g \in Nat /\ g > 0
  BY <1>1, <1>3 DEF RecType, SignalsType, TransferType, r
<1> HIDE DEF g
<1>5. Promise(r, g, transfer[f], aio'.handler[<<r.fd, "R">>], aio'.handler[<<r.fd, "W">>])
  BY <1>1, <1>2, <1>3, <1>4 DEF Promise
<1>6. QED
  BY <1>1, <1>2, <1>3, <1>4, <1>5, FileKept DEF r

LEMMA WriteHandlerKeeps ==
  ASSUME ClientsSound, AioTypeOK, AsyncFiles!writeHandler, pss' = pss
  PROVE  ClientsSound'
<1> DEFINE f == data
           r == rec[f]
<1>1. /\ Calls("writeHandler") /\ AsyncFiles!writeBuffer(Taken, f, r)
      /\ kernel' = kernel /\ transfer' = transfer
  BY OnePoll DEF AsyncFiles!writeHandler
<1>2. /\ f \in Files /\ r # Nil /\ r.fd = fd
      /\ flag = "W" /\ Tidy(Taken) /\ MasksElsewhere(aio, Taken, {fd})
      /\ FileSound(f, r, Taken, kernel)
      /\ Taken.handler[<<fd, "W">>] = "undefined" /\ aio.handler[<<fd, "W">>] = "writeHandler"
  BY <1>1, FileCalled DEF Events
<1> HIDE DEF f
<1>3. /\ r \in AsyncFiles!FileRec /\ transfer \in TransferType
      /\ Promise(r, signals[f], transfer[f],
                 aio.handler[<<r.fd, "R">>], aio.handler[<<r.fd, "W">>])
  BY <1>2, FileAsked
<1>4. transfer[f] = "write" /\ MayWrite(Taken, f, r)
  BY <1>2, <1>3 DEF Promise, MayWrite
<1>5. transfer' = [transfer EXCEPT ![f] = "write"]
  BY <1>1, <1>3, <1>4 DEF TransferType
<1>6. QED
  BY <1>1, <1>2, <1>4, <1>5, WriteBufferKeeps

\* The descriptor of a file that is opened is the lowest that is free, as a socket's.
LEMMA FileOpenKeeps ==
  ASSUME ClientsSound, NEW f \in Files, NEW kind \in FileKinds,
         AsyncFiles!asyncFileOpen(f, kind), pss' = pss
  PROVE  ClientsSound'
<1> DEFINE new == NewDescriptor
           r == [fd |-> new, rdPos |-> 0, wrPos |-> 0, offset |-> 0,
                 wrStatus |-> "Busy", left |-> 0, used |-> {}]
<1>1. /\ rec[f] = Nil /\ FreeDescriptors # {} /\ kernel' = [kernel EXCEPT ![new] = kind]
      /\ aio' = aioEnable(aio, new, f) /\ rec' = [rec EXCEPT ![f] = r]
      /\ signals' = signals /\ transfer' = transfer
  BY OnePoll, OneAio DEF AsyncFiles!asyncFileOpen, AsyncFiles!valid
<1>2. /\ SocketsSound /\ Tidy(aio) /\ kernel \in KernelType
      /\ signals \in SignalsType /\ transfer \in TransferType
      /\ FileState(f, rec[f], signals[f], transfer[f], aio, kernel)
  BY DEF ClientsSound, SocketsSound, Sound, FilesSound, SoundFiles
<1>3. /\ new \in Descriptors /\ kernel[new] = "free" /\ new \notin aio.enabled
  BY <1>1, <1>2, NewIsFree, FreeIsNobodys
<1> HIDE DEF new
<1>4. /\ r \in AsyncFiles!FileRec /\ r.fd = new /\ r.left = 0 /\ r.wrPos = 0 /\ r.rdPos = 0
      /\ r.offset = 0 /\ r # Nil
  <2>1. 0 \in 0 .. MaxPosition /\ 0 \in 0 .. MaxSize /\ Nil \notin AsyncFiles!FileRec
    BY FilesVocabulary
  <2>2. r \in AsyncFiles!FileRec
    BY <1>3, <2>1 DEF AsyncFiles!FileRec, AsyncFiles!Descriptors, Descriptors,
                      AsyncFiles!Positions, AsyncFiles!Transfers
  <2>3. QED
    BY <2>1, <2>2
<1> HIDE DEF r
<1>5. f \in Clients /\ kind \in Kinds
  BY FilesVocabulary
<1>6. /\ Tidy(aio') /\ MasksElsewhere(aio, aio', {new}) /\ new \in aio'.enabled
      /\ aio'.client[new] = f /\ \A v \in Events : aio'.handler[<<new, v>>] = "undefined"
  <2>1. EnabledFor(aio, aio', new, f)
    BY <1>1, <1>2, <1>3, <1>5, EnableEffect
  <2>2. QED
    BY <1>3, <2>1 DEF EnabledFor
<1>7. /\ kernel' \in KernelType /\ kernel'[new] = kind
      /\ \A d \in Descriptors \ {new} : kernel'[d] = kernel[d]
  BY <1>1, <1>2, <1>3, <1>5 DEF KernelType
<1>8. transfer[f] = "none" /\ signals[f] \in Nat
  BY <1>1, <1>2 DEF FileState, SignalsType
<1>9. FileState(f, r, signals[f], "none", aio', kernel')
  <2>1. FileSound(f, r, aio', kernel')
    BY <1>4, <1>6, <1>7 DEF FileSound, Events
  <2>2. Promise(r, signals[f], "none", "undefined", "undefined")
    BY <1>4, FilesVocabulary DEF Promise
  <2>3. QED
    BY <1>4, <1>6, <2>1, <2>2 DEF FileState, Events
<1>10. FileChanges(f, new, r, signals[f], "none")
  <2>1. /\ signals' = [signals EXCEPT ![f] = signals[f]]
        /\ transfer' = [transfer EXCEPT ![f] = "none"]
    BY <1>1, <1>2, <1>8 DEF SignalsType, TransferType
  <2>2. Elsewhere(aio, aio', kernel, kernel', {new})
    BY <1>6, <1>7 DEF Elsewhere
  <2>3. QED
    BY <1>1, <1>3, <1>4, <1>6, <1>7, <1>8, <2>1, <2>2 DEF FileChanges
<1>11. QED
  BY <1>3, <1>4, <1>9, <1>10, OneFile

LEMMA FileCloseKeeps ==
  ASSUME ClientsSound, NEW f \in Files, AsyncFiles!asyncFileClose(f), pss' = pss
  PROVE  ClientsSound'
<1> DEFINE d == rec[f].fd
<1>1. /\ rec[f] # Nil /\ aio' = aioDisable(aio, d) /\ kernel' = [kernel EXCEPT ![d] = "free"]
      /\ rec' = [rec EXCEPT ![f] = Nil] /\ transfer' = [transfer EXCEPT ![f] = "none"]
      /\ signals' = [signals EXCEPT ![f] = 0]
  BY OneAio DEF AsyncFiles!asyncFileClose, AsyncFiles!valid
<1>2. d \in Descriptors /\ Tidy(aio) /\ kernel \in KernelType
  BY <1>1, FileAsked
<1> HIDE DEF d
<1>3. /\ Tidy(aio') /\ MasksElsewhere(aio, aio', {d}) /\ d \notin aio'.enabled
      /\ \A v \in Events : aio'.handler[<<d, v>>] \notin Handlers
  BY <1>1, <1>2, DisableEffect, IdleIsNoHandler DEF DisabledFor
<1>4. /\ kernel' \in KernelType /\ kernel'[d] = "free"
      /\ \A c \in Descriptors \ {d} : kernel'[c] = kernel[c]
  <2>1. "free" \in Kinds
    BY DEF Kinds
  <2>2. QED
    BY <1>1, <1>2, <2>1 DEF KernelType
<1>5. Elsewhere(aio, aio', kernel, kernel', {d})
  BY <1>3, <1>4 DEF Elsewhere
<1>6. FileChanges(f, d, Nil, 0, "none")
  BY <1>1, <1>3, <1>4, <1>5 DEF FileChanges, d
<1>7. FileState(f, Nil, 0, "none", aio', kernel')
  BY DEF FileState
<1>8. QED
  BY <1>2, <1>3, <1>4, <1>6, <1>7, OneFile

\* The position sought, and where it leaves the file.
LEMMA Seeking ==
  ASSUME NEW f, rec[f] \in AsyncFiles!FileRec, NEW kept \in 0 .. MaxPosition,
         NEW p \in AsyncFiles!Positions \cup {AsyncFiles!Current}
  PROVE  /\ AsyncFiles!Wanted(kept, p) \in 0 .. MaxPosition
         /\ AsyncFiles!Sought(f, kept, p) \in 0 .. MaxPosition
         /\ rec[f].offset = kept => AsyncFiles!Sought(f, kept, p) = AsyncFiles!Wanted(kept, p)
BY RecordFields
   DEF AsyncFiles!Positions, AsyncFiles!Current, AsyncFiles!Wanted, AsyncFiles!Sought

\* A file whose transfer is over: nothing is left of a write.
LEMMA NoWriteGoesOn ==
  ASSUME ClientsSound, NEW f \in Files, rec[f] # Nil, transfer[f] # "write"
  PROVE  aio.handler[<<rec[f].fd, "W">>] = "undefined" /\ rec[f].left = 0
<1>1. /\ rec[f] \in AsyncFiles!FileRec /\ FileSound(f, rec[f], aio, kernel)
      /\ Promise(rec[f], signals[f], transfer[f],
                 aio.handler[<<rec[f].fd, "R">>], aio.handler[<<rec[f].fd, "W">>])
  BY FileAsked
<1>2. rec[f].left \in Nat
  BY <1>1, RecordFields, FilesVocabulary
<1>3. QED
  BY <1>1, <1>2 DEF Promise, FileSound

LEMMA ReadStartKeeps ==
  ASSUME ClientsSound, NEW f \in Files,
         NEW p \in AsyncFiles!Positions \cup {AsyncFiles!Current},
         AsyncFiles!asyncFileReadStart(f, p), pss' = pss
  PROVE  ClientsSound'
<1> DEFINE o == rec[f]
           d == o.fd
           wanted == AsyncFiles!Wanted(o.rdPos, p)
           sought == AsyncFiles!Sought(f, o.rdPos, p)
           r == [o EXCEPT !.rdPos = wanted, !.used = @ \cup {"read"}, !.offset = sought]
           evs == {"R"}
<1>1. /\ o # Nil /\ transfer[f] = "none" /\ kernel' = kernel /\ signals' = signals
      /\ rec' = [rec EXCEPT ![f].rdPos = AsyncFiles!Wanted(@, p),
                            ![f].used = @ \cup {"read"}, ![f].offset = sought]
      /\ aio' = aioHandle(aio, d, "readHandler", evs)
      /\ transfer' = [transfer EXCEPT ![f] = "read"]
  BY OneAio DEF AsyncFiles!asyncFileReadStart, AsyncFiles!MayStart, AsyncFiles!valid
<1>2. /\ o \in AsyncFiles!FileRec /\ d \in Descriptors /\ Tidy(aio)
      /\ rec \in RecType /\ signals \in SignalsType /\ signals[f] \in Nat
      /\ FileSound(f, o, aio, kernel)
      /\ Promise(o, signals[f], transfer[f], aio.handler[<<d, "R">>], aio.handler[<<d, "W">>])
  BY <1>1, FileAsked
<1>3. /\ wanted \in 0 .. MaxPosition /\ sought \in 0 .. MaxPosition
      /\ o.offset = o.rdPos => sought = wanted
      /\ o.rdPos \in 0 .. MaxPosition /\ o.used \subseteq {"read", "write"}
      /\ o.wrPos \in 0 .. MaxPosition
  BY <1>2, RecordFields, Seeking
<1>4. aio.handler[<<d, "W">>] = "undefined" /\ o.left = 0
  BY <1>1, NoWriteGoesOn
<1>5. rec' = [rec EXCEPT ![f] = r]
  BY <1>1, <1>2 DEF RecType, AsyncFiles!FileRec
<1> HIDE DEF wanted, sought
<1>6. /\ r \in AsyncFiles!FileRec /\ r.fd = d /\ r.rdPos = wanted /\ r.offset = sought
      /\ r.wrPos = o.wrPos /\ r.left = 0 /\ r.used = o.used \cup {"read"}
  BY <1>2, <1>3, <1>4 DEF AsyncFiles!FileRec, AsyncFiles!Positions, AsyncFiles!Transfers
<1>7. /\ evs \in SUBSET Events /\ "readHandler" \in Handlers
      /\ "R" \in evs /\ "W" \notin evs /\ "X" \notin evs
      /\ "R" \in Events /\ "W" \in Events /\ "X" \in Events
  BY FilesVocabulary, Vocabulary
<1> HIDE DEF r, d, evs
<1>8. HandledBy(aio, aio', d, evs, "readHandler")
  BY <1>1, <1>2, <1>7, HandleEffect
<1>9. /\ Tidy(aio') /\ MasksElsewhere(aio, aio', {d})
      /\ aio'.enabled = aio.enabled /\ aio'.client = aio.client
      /\ aio'.handler[<<d, "R">>] = "readHandler"
      /\ aio'.handler[<<d, "W">>] = aio.handler[<<d, "W">>]
      /\ aio'.handler[<<d, "X">>] = aio.handler[<<d, "X">>]
  BY <1>7, <1>8 DEF HandledBy
<1>10. FileSound(f, r, aio', kernel)
  BY <1>2, <1>6, <1>9 DEF FileSound, d
<1>11. Promise(r, signals[f], "read", "readHandler", "undefined")
  <2>1. r.used \subseteq {"read"} => r.offset = r.rdPos
    BY <1>2, <1>3, <1>6 DEF Promise
  <2>2. "read" \in r.used /\ ~(r.used \subseteq {"write"})
    BY <1>6
  <2>3. r.wrPos + r.left <= MaxPosition /\ r.offset + r.left <= MaxPosition
    BY <1>3, <1>6, FilesVocabulary
  <2>4. QED
    BY <1>6, <2>1, <2>2, <2>3 DEF Promise
<1>12. signals' = [signals EXCEPT ![f] = signals[f]]
  BY <1>1, <1>2 DEF SignalsType
<1>13. Promise(r, signals[f], "read", aio'.handler[<<r.fd, "R">>], aio'.handler[<<r.fd, "W">>])
  BY <1>4, <1>6, <1>9, <1>11 DEF d
<1>14. /\ rec[f] # Nil /\ r \in AsyncFiles!FileRec /\ r.fd = rec[f].fd
       /\ Tidy(aio') /\ MasksElsewhere(aio, aio', {r.fd}) /\ kernel' = kernel
  BY <1>1, <1>6, <1>9 DEF d
<1>15. QED
  BY <1>1, <1>2, <1>5, <1>10, <1>12, <1>13, <1>14, FileKept

\* What is left of the signals when the image asks for a result
LEMMA AsksAgain ==
  ASSUME ClientsSound, NEW f \in Files, NEW kind \in {"read", "write"}, AsyncFiles!Asks(f, kind)
  PROVE  /\ rec[f] # Nil /\ transfer[f] = kind
         /\ \E g \in Nat : signals' = [signals EXCEPT ![f] = g]
<1>1. signals \in SignalsType /\ FileState(f, rec[f], signals[f], transfer[f], aio, kernel)
  BY DEF ClientsSound, FilesSound, SoundFiles
<1>2. transfer[f] = kind /\ signals' = [signals EXCEPT ![f] = IF @ > 0 THEN @ - 1 ELSE 0]
  BY DEF AsyncFiles!Asks
<1>3. (IF signals[f] > 0 THEN signals[f] - 1 ELSE 0) \in Nat
  BY <1>1 DEF SignalsType
<1>4. QED
  BY <1>1, <1>2, <1>3 DEF FileState, SignalsType

LEMMA ReadResultKeeps ==
  ASSUME ClientsSound, NEW f \in Files, AsyncFiles!asyncFileReadResult(f), pss' = pss
  PROVE  ClientsSound'
<1> DEFINE o == rec[f]
           d == o.fd
           R == aio.handler[<<d, "R">>]
<1>1. /\ o # Nil /\ transfer[f] = "read" /\ aio' = aio /\ kernel' = kernel
      /\ \E g \in Nat : signals' = [signals EXCEPT ![f] = g]
  BY AsksAgain DEF AsyncFiles!asyncFileReadResult
<1>2. PICK g \in Nat : signals' = [signals EXCEPT ![f] = g]
  BY <1>1
<1>3. /\ o \in AsyncFiles!FileRec /\ d \in Descriptors /\ Tidy(aio)
      /\ rec \in RecType /\ transfer \in TransferType
      /\ FileSound(f, o, aio, kernel)
      /\ Promise(o, signals[f], "read", R, aio.handler[<<d, "W">>])
  BY <1>1, FileAsked
<1>4. aio.handler[<<d, "W">>] = "undefined" /\ o.left = 0
  BY <1>1, NoWriteGoesOn
<1>5. MasksElsewhere(aio, aio', {d})
  BY <1>1 DEF MasksElsewhere
<1>6. "read" \in o.used
  BY <1>3 DEF Promise
<1>7. CASE R = "readHandler" /\ UNCHANGED <<rec, transfer>>
  <2>1. Promise(o, g, "read", R, "undefined")
    BY <1>3, <1>4, <1>7 DEF Promise
  <2>2. rec' = [rec EXCEPT ![f] = o] /\ transfer' = [transfer EXCEPT ![f] = "read"]
    BY <1>1, <1>3, <1>7 DEF RecType, TransferType
  <2>3. QED
    BY <1>1, <1>2, <1>3, <1>4, <1>5, <2>1, <2>2, FileKept
<1>8. CASE transfer' = [transfer EXCEPT ![f] = "none"] /\ UNCHANGED rec
  <2>1. Promise(o, g, "none", R, "undefined")
    BY <1>3, <1>4 DEF Promise
  <2>2. rec' = [rec EXCEPT ![f] = o]
    BY <1>3, <1>8 DEF RecType
  <2>3. QED
    BY <1>1, <1>2, <1>3, <1>4, <1>5, <1>8, <2>1, <2>2, FileKept
<1>9. CASE /\ o.rdPos < MaxPosition /\ o.offset < MaxPosition
           /\ rec' = [rec EXCEPT ![f].rdPos = @ + 1, ![f].offset = @ + 1]
           /\ transfer' = [transfer EXCEPT ![f] = "none"]
  <2> DEFINE r == [o EXCEPT !.rdPos = @ + 1, !.offset = @ + 1]
  <2>1. rec' = [rec EXCEPT ![f] = r]
    BY <1>3, <1>9 DEF RecType, AsyncFiles!FileRec
  <2>2. o.rdPos + 1 \in 0 .. MaxPosition /\ o.offset + 1 \in 0 .. MaxPosition
    BY <1>3, <1>9, RecordFields, FilesVocabulary
  <2>3. /\ r \in AsyncFiles!FileRec /\ r.fd = d /\ r.rdPos = o.rdPos + 1
        /\ r.offset = o.offset + 1 /\ r.wrPos = o.wrPos /\ r.left = o.left /\ r.used = o.used
    BY <1>3, <2>2 DEF AsyncFiles!FileRec, AsyncFiles!Positions
  <2> HIDE DEF r
  <2>4. FileSound(f, r, aio, kernel)
    BY <1>3, <2>3 DEF FileSound
  <2>5. Promise(r, g, "none", R, "undefined")
    <3>1. ~(r.used \subseteq {"write"})
      BY <1>6, <2>3
    <3>2. r.used \subseteq {"read"} => r.offset = r.rdPos
      BY <1>3, <2>3 DEF Promise
    <3>3. r.wrPos + r.left <= MaxPosition /\ r.offset + r.left <= MaxPosition /\ r.left = 0
      <4>1. o.wrPos \in 0 .. MaxPosition
        BY <1>3, RecordFields
      <4>2. QED
        BY <1>4, <2>2, <2>3, <4>1
    <3>4. QED
      BY <3>1, <3>2, <3>3 DEF Promise
  <2>6. /\ Promise(r, g, "none", aio'.handler[<<r.fd, "R">>], aio'.handler[<<r.fd, "W">>])
        /\ FileSound(f, r, aio', kernel) /\ Tidy(aio') /\ MasksElsewhere(aio, aio', {r.fd})
    BY <1>1, <1>3, <1>4, <1>5, <2>3, <2>4, <2>5
  <2>7. QED
    BY <1>1, <1>2, <1>9, <2>1, <2>3, <2>6, FileKept
<1>10. QED
  BY <1>7, <1>8, <1>9 DEF AsyncFiles!asyncFileReadResult, AsyncFiles!Armed

\* A write seeks, or does not, before it begins or fails.
Seeks(f, r) ==
  LET o == rec[f] IN
  /\ r \in AsyncFiles!FileRec /\ r.fd = o.fd /\ "write" \in r.used
  /\ r.used \subseteq {"write"} => r.offset = r.wrPos

\* The record of f that seeks p for a write, in a state and with units left to be written
BeforeWrite(f, p, state, left) ==
  [rec[f] EXCEPT !.wrPos = AsyncFiles!Wanted(@, p), !.used = @ \cup {"write"},
                 !.offset = AsyncFiles!Sought(f, rec[f].wrPos, p),
                 !.wrStatus = state, !.left = left]

LEMMA WriteSeeks ==
  ASSUME ClientsSound, NEW f \in Files, rec[f] # Nil,
         NEW p \in AsyncFiles!Positions \cup {AsyncFiles!Current},
         NEW state \in {"Busy", "Error", "size"}, NEW left \in 0 .. MaxSize
  PROVE  LET r == BeforeWrite(f, p, state, left) IN
         /\ Seeks(f, r) /\ r.wrStatus = state /\ r.left = left
         /\ r.wrPos = AsyncFiles!Wanted(rec[f].wrPos, p)
         /\ r.offset = AsyncFiles!Sought(f, rec[f].wrPos, p)
<1> DEFINE o == rec[f]
           wanted == AsyncFiles!Wanted(o.wrPos, p)
           sought == AsyncFiles!Sought(f, o.wrPos, p)
           r == [o EXCEPT !.wrPos = wanted, !.used = @ \cup {"write"}, !.offset = sought,
                          !.wrStatus = state, !.left = left]
<1>1. /\ o \in AsyncFiles!FileRec
      /\ Promise(o, signals[f], transfer[f],
                 aio.handler[<<o.fd, "R">>], aio.handler[<<o.fd, "W">>])
  BY FileAsked
<1>2. /\ wanted \in 0 .. MaxPosition /\ sought \in 0 .. MaxPosition
      /\ o.offset = o.wrPos => sought = wanted
  BY <1>1, RecordFields, Seeking
<1> HIDE DEF wanted, sought
<1>3. /\ r \in AsyncFiles!FileRec /\ r.fd = o.fd /\ r.wrPos = wanted /\ r.offset = sought
      /\ r.used = o.used \cup {"write"} /\ r.wrStatus = state /\ r.left = left
  BY <1>1, <1>2 DEF AsyncFiles!FileRec, AsyncFiles!Positions, AsyncFiles!Transfers
<1>4. r.used \subseteq {"write"} => r.offset = r.wrPos
  BY <1>1, <1>2, <1>3 DEF Promise
<1>5. "write" \in r.used
  BY <1>3
<1>6. r = BeforeWrite(f, p, state, left)
  BY <1>1 DEF wanted, sought, AsyncFiles!FileRec, BeforeWrite
<1>7. QED
  BY <1>3, <1>4, <1>5, <1>6 DEF Seeks, wanted, sought

\* A write that is over at once, or that failed before it began
LEMMA WriteOverKeeps ==
  ASSUME ClientsSound, NEW f \in Files, rec[f] # Nil, transfer[f] = "none",
         NEW p \in AsyncFiles!Positions \cup {AsyncFiles!Current}, NEW r, Seeks(f, r), r.left = 0,
         NEW g \in Nat, signals' = [signals EXCEPT ![f] = g],
         NEW t \in {"write", "none"}, transfer' = [transfer EXCEPT ![f] = t],
         t = "write" => r.wrStatus = "size" /\ g > 0,
         rec' = [rec EXCEPT ![f] = r], aio' = aio, kernel' = kernel, pss' = pss
  PROVE  ClientsSound'
<1> DEFINE d == rec[f].fd
<1>1. /\ d \in Descriptors /\ Tidy(aio) /\ FileSound(f, rec[f], aio, kernel)
      /\ aio.handler[<<d, "W">>] = "undefined"
  BY FileAsked, NoWriteGoesOn
<1>2. /\ r \in AsyncFiles!FileRec /\ r.fd = d /\ "write" \in r.used
      /\ r.used \subseteq {"write"} => r.offset = r.wrPos
  BY DEF Seeks
<1>3. r.wrPos \in 0 .. MaxPosition /\ r.offset \in 0 .. MaxPosition /\ MaxPosition \in Nat
  BY <1>2, RecordFields, FilesVocabulary
<1>4. Promise(r, g, t, aio.handler[<<d, "R">>], "undefined")
  BY <1>2, <1>3 DEF Promise
<1>5. FileSound(f, r, aio, kernel) /\ MasksElsewhere(aio, aio, {d})
  BY <1>1, <1>2 DEF FileSound, MasksElsewhere
<1> HIDE DEF d
<1>6. /\ Promise(r, g, t, aio'.handler[<<r.fd, "R">>], aio'.handler[<<r.fd, "W">>])
      /\ FileSound(f, r, aio', kernel) /\ Tidy(aio') /\ MasksElsewhere(aio, aio', {r.fd})
  BY <1>1, <1>2, <1>4, <1>5
<1>7. QED
  BY <1>2, <1>6, FileKept DEF d

\* It cannot seek: only the status changes.
LEMMA UnsoughtWriteKeeps ==
  ASSUME ClientsSound, NEW f \in Files, rec[f] # Nil, transfer[f] = "none",
         rec' = [rec EXCEPT ![f].wrStatus = "Error"], signals' = signals,
         transfer' = transfer, aio' = aio, kernel' = kernel, pss' = pss
  PROVE  ClientsSound'
<1> DEFINE o == rec[f]
           d == o.fd
           r == [o EXCEPT !.wrStatus = "Error"]
<1>1. /\ o \in AsyncFiles!FileRec /\ d \in Descriptors /\ Tidy(aio) /\ FileSound(f, o, aio, kernel)
      /\ rec \in RecType /\ signals \in SignalsType /\ signals[f] \in Nat
      /\ transfer \in TransferType
      /\ Promise(o, signals[f], "none", aio.handler[<<d, "R">>], aio.handler[<<d, "W">>])
  BY FileAsked
<1>2. aio.handler[<<d, "W">>] = "undefined"
  BY NoWriteGoesOn
<1>3. /\ r \in AsyncFiles!FileRec /\ r.fd = d /\ r.left = o.left /\ r.wrPos = o.wrPos
      /\ r.rdPos = o.rdPos /\ r.offset = o.offset /\ r.used = o.used
  BY <1>1 DEF AsyncFiles!FileRec
<1>4. /\ rec' = [rec EXCEPT ![f] = r] /\ transfer' = [transfer EXCEPT ![f] = "none"]
      /\ signals' = [signals EXCEPT ![f] = signals[f]]
  BY <1>1 DEF RecType, TransferType, SignalsType
<1> HIDE DEF r
<1>5. Promise(r, signals[f], "none", aio.handler[<<d, "R">>], aio.handler[<<d, "W">>])
  BY <1>1, <1>2, <1>3 DEF Promise
<1>6. /\ Promise(r, signals[f], "none", aio'.handler[<<r.fd, "R">>], aio'.handler[<<r.fd, "W">>])
      /\ FileSound(f, r, aio', kernel) /\ Tidy(aio') /\ MasksElsewhere(aio, aio', {r.fd})
  BY <1>1, <1>3, <1>5 DEF FileSound, MasksElsewhere
<1>7. QED
  BY <1>1, <1>3, <1>4, <1>6, FileKept

LEMMA WriteStartFailsKeeps ==
  ASSUME ClientsSound, NEW f \in Files,
         NEW p \in AsyncFiles!Positions \cup {AsyncFiles!Current},
         AsyncFiles!WriteStartFails(f, p), pss' = pss
  PROVE  ClientsSound'
<1> DEFINE o == rec[f]
           r == BeforeWrite(f, p, "Error", 0)
<1>1. /\ o # Nil /\ transfer[f] = "none" /\ aio' = aio /\ kernel' = kernel
      /\ signals' = signals /\ transfer' = transfer
  BY DEF AsyncFiles!WriteStartFails, AsyncFiles!MayStart, AsyncFiles!valid
<1>2. CASE rec' = [rec EXCEPT ![f].wrStatus = "Error"]
  BY <1>1, <1>2, UnsoughtWriteKeeps
<1>3. CASE rec' = [rec EXCEPT ![f].wrPos = AsyncFiles!Wanted(@, p), ![f].wrStatus = "Error",
                              ![f].used = @ \cup {"write"},
                              ![f].offset = AsyncFiles!Sought(f, o.wrPos, p)]
  <2>1. /\ o \in AsyncFiles!FileRec /\ rec \in RecType
        /\ signals \in SignalsType /\ signals[f] \in Nat /\ transfer \in TransferType
    BY <1>1, FileAsked
  <2>2. o.left = 0
    BY <1>1, NoWriteGoesOn
  <2>3. rec' = [rec EXCEPT ![f] = r]
    BY <1>3, <2>1, <2>2 DEF RecType, AsyncFiles!FileRec, BeforeWrite
  <2>4. 0 \in 0 .. MaxSize
    BY FilesVocabulary
  <2>5. Seeks(f, r) /\ r.left = 0
    BY <1>1, <2>4, WriteSeeks
  <2> HIDE DEF r
  <2>6. signals' = [signals EXCEPT ![f] = signals[f]] /\ transfer' = [transfer EXCEPT ![f] = "none"]
    BY <1>1, <2>1 DEF SignalsType, TransferType
  <2>7. QED
    BY <1>1, <2>1, <2>3, <2>5, <2>6, WriteOverKeeps
<1>4. QED
  BY <1>2, <1>3 DEF AsyncFiles!WriteStartFails

LEMMA WriteStartKeeps ==
  ASSUME ClientsSound, NEW f \in Files,
         NEW p \in AsyncFiles!Positions \cup {AsyncFiles!Current}, NEW n \in 0 .. MaxSize,
         AsyncFiles!asyncFileWriteStart(f, p, n), pss' = pss
  PROVE  ClientsSound'
<1> DEFINE o == rec[f]
           s == [o EXCEPT !.wrPos = AsyncFiles!Wanted(@, p), !.used = @ \cup {"write"},
                          !.offset = AsyncFiles!Sought(f, o.wrPos, p)]
           r == BeforeWrite(f, p, "size", 0)
           b == BeforeWrite(f, p, "Busy", n)
<1>1. /\ o # Nil /\ transfer[f] = "none" /\ kernel' = kernel
      /\ transfer' = [transfer EXCEPT ![f] = "write"]
      /\ s.wrPos + n <= MaxPosition /\ s.offset + n <= MaxPosition
      /\ \/ /\ n = 0
            /\ rec' = [rec EXCEPT ![f] = [s EXCEPT !.wrStatus = "size"]]
            /\ signals' = [signals EXCEPT ![f] = @ + 1]
            /\ aio' = aio
         \/ AsyncFiles!writeBuffer(aio, f, [s EXCEPT !.wrStatus = "Busy", !.left = n])
  BY DEF AsyncFiles!asyncFileWriteStart, AsyncFiles!MayStart, AsyncFiles!valid
<1>2. /\ o \in AsyncFiles!FileRec /\ rec \in RecType /\ Tidy(aio)
      /\ signals \in SignalsType /\ signals[f] \in Nat
      /\ FileSound(f, o, aio, kernel)
  BY <1>1, FileAsked
<1>3. aio.handler[<<o.fd, "W">>] = "undefined" /\ o.left = 0 /\ 0 \in 0 .. MaxSize
  BY <1>1, NoWriteGoesOn, FilesVocabulary
<1>4. CASE /\ n = 0
           /\ rec' = [rec EXCEPT ![f] = [s EXCEPT !.wrStatus = "size"]]
           /\ signals' = [signals EXCEPT ![f] = @ + 1]
           /\ aio' = aio
  <2>1. [s EXCEPT !.wrStatus = "size"] = r
    BY <1>2, <1>3 DEF AsyncFiles!FileRec, BeforeWrite
  <2>2. /\ Seeks(f, r) /\ r.left = 0
        /\ r.wrStatus = "size"
    BY <1>1, <1>3, WriteSeeks
  <2> HIDE DEF r
  <2>3. /\ signals' = [signals EXCEPT ![f] = signals[f] + 1]
        /\ signals[f] + 1 \in Nat /\ signals[f] + 1 > 0
    BY <1>2, <1>4 DEF SignalsType
  <2>4. rec' = [rec EXCEPT ![f] = r]
    BY <1>4, <2>1
  <2>5. QED
    BY <1>1, <1>4, <2>2, <2>3, <2>4, WriteOverKeeps
<1>5. CASE AsyncFiles!writeBuffer(aio, f, [s EXCEPT !.wrStatus = "Busy", !.left = n])
  <2>1. [s EXCEPT !.wrStatus = "Busy", !.left = n] = b
    BY <1>2 DEF AsyncFiles!FileRec, BeforeWrite
  <2>2. /\ Seeks(f, b) /\ b.left = n /\ b.wrStatus = "Busy"
        /\ b.wrPos = AsyncFiles!Wanted(o.wrPos, p)
        /\ b.offset = AsyncFiles!Sought(f, o.wrPos, p)
    BY <1>1, WriteSeeks
  <2>3. s.wrPos = b.wrPos /\ s.offset = b.offset
    BY <1>2, <2>2 DEF AsyncFiles!FileRec
  <2> HIDE DEF b, s
  <2>4. b \in AsyncFiles!FileRec /\ b.fd = o.fd
    BY <2>2 DEF Seeks
  <2>5. b.wrPos + b.left <= MaxPosition /\ b.offset + b.left <= MaxPosition
    BY <1>1, <2>2, <2>3
  <2>6. FileSound(f, b, aio, kernel) /\ MasksElsewhere(aio, aio, {b.fd})
    BY <1>2, <2>4 DEF FileSound, MasksElsewhere
  <2>7. MayWrite(aio, f, b)
    BY <1>2, <1>3, <2>2, <2>4, <2>5, <2>6 DEF MayWrite, Seeks
  <2>8. QED
    BY <1>1, <1>5, <2>1, <2>7, WriteBufferKeeps
<1>6. QED
  BY <1>1, <1>4, <1>5

LEMMA WriteResultKeeps ==
  ASSUME ClientsSound, NEW f \in Files, AsyncFiles!asyncFileWriteResult(f), pss' = pss
  PROVE  ClientsSound'
<1> DEFINE o == rec[f]
           d == o.fd
           W == aio.handler[<<d, "W">>]
           t == IF o.wrStatus = "Busy" THEN "write" ELSE "none"
           r == [o EXCEPT !.wrStatus = "Busy"]
<1>1. /\ o # Nil /\ transfer[f] = "write" /\ aio' = aio /\ kernel' = kernel
      /\ rec' = [rec EXCEPT ![f].wrStatus = "Busy"]
      /\ transfer' = [transfer EXCEPT ![f] = IF o.wrStatus = "Busy" THEN @ ELSE "none"]
      /\ \E g \in Nat : signals' = [signals EXCEPT ![f] = g]
  BY AsksAgain DEF AsyncFiles!asyncFileWriteResult
<1>2. PICK g \in Nat : signals' = [signals EXCEPT ![f] = g]
  BY <1>1
<1>3. /\ o \in AsyncFiles!FileRec /\ d \in Descriptors /\ Tidy(aio)
      /\ rec \in RecType /\ transfer \in TransferType
      /\ FileSound(f, o, aio, kernel)
      /\ Promise(o, signals[f], "write", aio.handler[<<d, "R">>], W)
  BY <1>1, FileAsked
<1>4. /\ r \in AsyncFiles!FileRec /\ r.fd = d /\ r.wrStatus = "Busy" /\ r.left = o.left
      /\ r.wrPos = o.wrPos /\ r.rdPos = o.rdPos /\ r.offset = o.offset /\ r.used = o.used
  BY <1>3 DEF AsyncFiles!FileRec
<1>5. rec' = [rec EXCEPT ![f] = r] /\ transfer' = [transfer EXCEPT ![f] = t]
  BY <1>1, <1>3 DEF RecType, TransferType
<1> HIDE DEF r
<1>6. Promise(r, g, t, aio.handler[<<d, "R">>], W)
  BY <1>3, <1>4 DEF Promise
<1>7. /\ Promise(r, g, t, aio'.handler[<<r.fd, "R">>], aio'.handler[<<r.fd, "W">>])
      /\ FileSound(f, r, aio', kernel) /\ Tidy(aio') /\ MasksElsewhere(aio, aio', {r.fd})
  BY <1>1, <1>3, <1>4, <1>6 DEF FileSound, MasksElsewhere
<1>8. QED
  BY <1>1, <1>2, <1>4, <1>5, <1>7, FileKept

\* The end of the session leaves no file, and no handler of one.
LEMMA FilesShutdownKeeps ==
  ASSUME ClientsSound, AsyncFiles!asyncFileShutdown, pss' = pss
  PROVE  ClientsSound'
<1> DEFINE D == {rec[f].fd : f \in {g \in Files : rec[g] # Nil}}
<1>1. /\ aio' = Disabled(aio, D) /\ rec' = [f \in Files |-> Nil]
      /\ transfer' = [f \in Files |-> "none"] /\ signals' = [f \in Files |-> 0]
      /\ kernel' = kernel
  BY OneAio DEF AsyncFiles!asyncFileShutdown, AsyncFiles!NoHandlers, AsyncFiles!valid
<1>2. /\ Tidy(aio) /\ kernel \in KernelType /\ Sound(aio, kernel, pss)
      /\ \A d \in Descriptors : OwnerSound(d, aio, kernel, rec)
  BY DEF ClientsSound, SocketsSound, Sound, FilesSound, SoundFiles
<1>3. \A d \in D : d \in Descriptors /\ kernel[d] \in FileKinds
  <2> SUFFICES ASSUME NEW f \in Files, rec[f] # Nil
               PROVE  rec[f].fd \in Descriptors /\ kernel[rec[f].fd] \in FileKinds
    OBVIOUS
  <2>1. QED
    BY FileAsked DEF FileSound
<1>4. \A f \in Files : rec[f] # Nil => rec[f].fd \in D
  OBVIOUS
<1>5. D \in SUBSET Descriptors
  BY <1>3
<1> HIDE DEF D
<1>6. /\ Tidy(aio') /\ aio'.enabled = aio.enabled \ D /\ MasksElsewhere(aio, aio', D)
      /\ \A d \in D, v \in Events : aio'.handler[<<d, v>>] \notin Handlers
  BY <1>1, <1>2, <1>5, DisabledEffect, IdleIsNoHandler DEF DisabledFor
<1>7. Elsewhere(aio, aio', kernel, kernel', D)
  BY <1>1, <1>6 DEF Elsewhere
<1>8. \A d \in D : NoSockets(d, kernel, aio', kernel')
  BY <1>1, <1>3, <1>6 DEF NoSockets
<1>9. SocketsSound'
  BY <1>1, <1>2, <1>5, <1>6, <1>7, <1>8, FilesLeaveSockets DEF SocketsSound
<1>10. ASSUME NEW d \in Descriptors PROVE OwnerSound(d, aio', kernel', rec')
  BY <1>1, <1>2, <1>4, <1>6 DEF OwnerSound, MasksElsewhere
<1>11. FilesSound'
  BY <1>1, <1>10 DEF FilesSound, SoundFiles, RecType, SignalsType, TransferType, FileState
<1>12. QED
  BY <1>9, <1>11 DEF ClientsSound

LEMMA FilesKeep ==
  ASSUME ClientsSound, AioTypeOK, AsyncFiles!Operation, pss' = pss
  PROVE  ClientsSound'
<1>1. CASE AsyncFiles!Handle
  BY <1>1, ReadHandlerKeeps, WriteHandlerKeeps DEF AsyncFiles!Handle
<1>2. CASE AsyncFiles!asyncFileInit
  BY <1>2 DEF AsyncFiles!asyncFileInit, ClientsSound, SocketsSound, FilesSound
<1>3. CASE AsyncFiles!asyncFileShutdown
  BY <1>3, FilesShutdownKeeps
<1>4. ASSUME NEW f \in Files, AsyncFiles!Request(f) PROVE ClientsSound'
  <2>1. ASSUME NEW kind \in {"file", "stream"}, AsyncFiles!asyncFileOpen(f, kind)
        PROVE  ClientsSound'
    BY <2>1, FileOpenKeeps DEF FileKinds
  <2>2. CASE AsyncFiles!asyncFileClose(f)
    BY <2>2, FileCloseKeeps
  <2>3. ASSUME NEW p \in AsyncFiles!Positions \cup {AsyncFiles!Current},
               AsyncFiles!asyncFileReadStart(f, p) \/ AsyncFiles!WriteStartFails(f, p)
        PROVE  ClientsSound'
    BY <2>3, ReadStartKeeps, WriteStartFailsKeeps
  <2>4. ASSUME NEW p \in AsyncFiles!Positions \cup {AsyncFiles!Current}, NEW n \in 0 .. MaxSize,
               AsyncFiles!asyncFileWriteStart(f, p, n)
        PROVE  ClientsSound'
    BY <2>4, WriteStartKeeps
  <2>5. CASE AsyncFiles!asyncFileReadResult(f)
    BY <2>5, ReadResultKeeps
  <2>6. CASE AsyncFiles!asyncFileWriteResult(f)
    BY <2>6, WriteResultKeeps
  <2>7. QED
    BY <1>4, <2>1, <2>2, <2>3, <2>4, <2>5, <2>6 DEF AsyncFiles!Request
<1>5. QED
  BY <1>1, <1>2, <1>3, <1>4 DEF AsyncFiles!Operation

\* What a step of the sockets does: it touches sockets' descriptors, unless the session ends.
LEMMA SocketsKeep ==
  ASSUME ClientsSound, AioTypeOK, SocketOperation
  PROVE  ClientsSound'
<1>1. /\ SocketsSound /\ FilesSound /\ rec' = rec /\ signals' = signals
      /\ transfer' = transfer /\ Operation
  BY DEF ClientsSound, SocketOperation, fileVars
<1>2. ASSUME NEW D, Keeps(D) PROVE ClientsSound'
  <2>1. \A d \in D : kernel[d] \notin FileKinds /\ kernel'[d] \notin FileKinds
    BY <1>2 DEF Keeps, Touches, SocketKinds, FileKinds
  <2>2. Elsewhere(aio, aio', kernel, kernel', D) /\ SocketsSound'
    BY <1>2 DEF Keeps, Touches
  <2>3. SoundFiles(aio', kernel', rec, signals, transfer)
    BY <1>1, <2>1, <2>2, SocketsLeaveFiles DEF FilesSound
  <2>4. QED
    BY <1>1, <2>2, <2>3 DEF ClientsSound, FilesSound
<1>3. CASE Handle
  BY <1>1, <1>2, <1>3, HandleKeeps
<1>4. ASSUME NEW s \in Sockets, Request(s) PROVE ClientsSound'
  BY <1>1, <1>2, <1>4, RequestKeeps
<1>5. CASE sqNetworkInit
  BY <1>1, <1>5 DEF sqNetworkInit, ClientsSound, SocketsSound, FilesSound
<1>6. CASE sqNetworkShutdown
  <2>1. SocketsSound' /\ aio'.enabled = {}
    BY <1>1, <1>6, ShutdownKeeps
  <2>2. \A f \in Files : rec[f] = Nil
    BY <1>6 DEF SocketOperation, sqNetworkShutdown, NoFiles, AsyncFiles!valid
  <2>3. FilesSound'
    BY <1>1, <2>1, <2>2 DEF FilesSound, SoundFiles, FileState, OwnerSound
  <2>4. QED
    BY <2>1, <2>3 DEF ClientsSound
<1>7. QED
  BY <1>1, <1>3, <1>4, <1>5, <1>6 DEF Operation

-----------------------------------------------------------------------------
(* The invariant                                                            *)

ClientsInv == ClientsTypeOK /\ ClientsSound

LEMMA ClientsInitially == ClientsInit => ClientsInv
<1> SUFFICES ASSUME ClientsInit PROVE ClientsInv
  OBVIOUS
<1>1. TypeOK /\ SocketsSound /\ aio.enabled = {}
  BY SocketsInitially DEF ClientsInit, SocketsInv, Init, AioInit
<1>2. /\ session = FALSE /\ rec = [f \in Files |-> Nil]
      /\ signals = [f \in Files |-> 0] /\ transfer = [f \in Files |-> "none"]
  BY DEF ClientsInit, AsyncFiles!FilesInit
<1>3. AsyncFiles!TypeOK
  BY <1>1, <1>2, OnePoll DEF TypeOK, AsyncFiles!TypeOK
<1>4. FilesSound
  BY <1>1, <1>2
     DEF FilesSound, SoundFiles, RecType, SignalsType, TransferType, FileState, OwnerSound
<1>5. QED
  BY <1>1, <1>3, <1>4 DEF ClientsInv, ClientsTypeOK, ClientsSound

LEMMA SoundClientsAreTyped ==
  ASSUME ClientsSound', ready' \subseteq Descriptors \X Events, scanned' \in Descriptors,
         thisNetSession' \in BOOLEAN, session' \in BOOLEAN
  PROVE  ClientsInv'
<1>1. TypeOK'
  BY SoundIsTyped DEF ClientsSound
<1>2. AsyncFiles!AioTypeOK'
  BY <1>1, OneVocabulary DEF TypeOK, AsyncFiles!AioTypeOK, AioTypeOK
<1>3. rec' \in RecType /\ signals' \in SignalsType /\ transfer' \in TransferType
  <2>1. SoundFiles(aio', kernel', rec', signals', transfer')
    BY DEF ClientsSound, FilesSound
  <2>2. QED
    BY <2>1 DEF SoundFiles
<1>4. TransferType = [Files -> AsyncFiles!Transfers \cup {"none"}]
  <2>1. {"read", "write", "none"} = AsyncFiles!Transfers \cup {"none"}
    BY DEF AsyncFiles!Transfers
  <2>2. QED
    BY <2>1 DEF TransferType
<1>5. AsyncFiles!TypeOK'
  BY <1>2, <1>3, <1>4 DEF AsyncFiles!TypeOK, RecType, SignalsType
<1>6. QED
  BY <1>1, <1>5 DEF ClientsInv, ClientsTypeOK

\* What a step does with the poll and with the two sessions.
LEMMA SocketsPoll ==
  ASSUME SocketOperation, thisNetSession \in BOOLEAN
  PROVE  /\ (Handle /\ TakeEvent) \/ Primitive
         /\ thisNetSession' \in BOOLEAN /\ session' = session
<1>1. session' = session /\ Operation
  BY DEF SocketOperation, fileVars
<1>2. CASE Handle
  BY <1>1, <1>2 DEF Handle, AcceptException, AcceptAborted, AcceptFailed, AcceptedMulti,
                    AcceptedInPlace, ConnectException, ConnectCompleted, DataPossible, Calls
<1>3. ASSUME NEW s \in Sockets, Request(s)
      PROVE  Primitive /\ thisNetSession' = thisNetSession
  BY <1>3 DEF Request, sqSocketCreate, sqSocketListenOnPort, sqSocketConnectToPort,
              ConnectDatagrams, sqSocketAcceptFrom, sqSocketConnectionStatus,
              sqSocketCloseConnection, sqSocketDestroy, sqSocketReceiveDataAvailable,
              sqSocketSendDone, TransferFails
<1>4. CASE sqNetworkInit \/ sqNetworkShutdown
  BY <1>1, <1>4 DEF sqNetworkInit, sqNetworkShutdown
<1>5. QED
  BY <1>1, <1>2, <1>3, <1>4 DEF Operation

LEMMA FilesPoll ==
  ASSUME FileOperation, session \in BOOLEAN
  PROVE  /\ (AsyncFiles!Handle /\ TakeEvent) \/ Primitive
         /\ session' \in BOOLEAN /\ thisNetSession' = thisNetSession
<1>1. thisNetSession' = thisNetSession /\ AsyncFiles!Operation
  BY DEF FileOperation, socketVars
<1>2. CASE AsyncFiles!Handle
  BY <1>1, <1>2, OnePoll
     DEF AsyncFiles!Handle, AsyncFiles!readHandler, AsyncFiles!writeHandler, Calls
<1>3. ASSUME NEW f \in Files, AsyncFiles!Request(f)
      PROVE  Primitive /\ session' = session
  <2> DEFINE Quiet == AsyncFiles!Primitive /\ session' = session
  <2>1. ASSUME NEW kind, AsyncFiles!asyncFileOpen(f, kind) PROVE Quiet
    BY <2>1 DEF AsyncFiles!asyncFileOpen
  <2>2. ASSUME AsyncFiles!asyncFileClose(f) PROVE Quiet
    BY <2>2 DEF AsyncFiles!asyncFileClose
  <2>3. ASSUME NEW p, AsyncFiles!asyncFileReadStart(f, p) \/ AsyncFiles!WriteStartFails(f, p)
        PROVE  Quiet
    BY <2>3 DEF AsyncFiles!asyncFileReadStart, AsyncFiles!WriteStartFails, AsyncFiles!MayStart
  <2>4. ASSUME NEW p, NEW n, AsyncFiles!asyncFileWriteStart(f, p, n) PROVE Quiet
    BY <2>4 DEF AsyncFiles!asyncFileWriteStart, AsyncFiles!MayStart
  <2>5. ASSUME AsyncFiles!asyncFileReadResult(f) PROVE Quiet
    BY <2>5 DEF AsyncFiles!asyncFileReadResult, AsyncFiles!Asks
  <2>6. ASSUME AsyncFiles!asyncFileWriteResult(f) PROVE Quiet
    BY <2>6 DEF AsyncFiles!asyncFileWriteResult, AsyncFiles!Asks
  <2> HIDE DEF Quiet
  <2>7. Quiet
    BY <1>3, <2>1, <2>2, <2>3, <2>4, <2>5, <2>6 DEF AsyncFiles!Request
  <2>8. QED
    BY <2>7, OnePoll DEF Quiet
<1>4. CASE AsyncFiles!asyncFileInit \/ AsyncFiles!asyncFileShutdown
  BY <1>1, <1>4, OnePoll DEF AsyncFiles!asyncFileInit, AsyncFiles!asyncFileShutdown
<1>5. QED
  BY <1>1, <1>2, <1>3, <1>4 DEF AsyncFiles!Operation

LEMMA ClientsStep == ClientsInv /\ [ClientsNext]_allVars => ClientsInv'
<1> SUFFICES ASSUME ClientsInv, [ClientsNext]_allVars PROVE ClientsInv'
  OBVIOUS
<1>1. /\ ClientsSound /\ AioTypeOK
      /\ thisNetSession \in BOOLEAN /\ session \in BOOLEAN
  BY DEF ClientsInv, ClientsTypeOK, TypeOK, AsyncFiles!TypeOK
<1>2. CASE SocketOperation \/ FileOperation
  <2>1. ClientsSound'
    <3>1. CASE SocketOperation
      BY <1>1, <3>1, SocketsKeep
    <3>2. CASE FileOperation
      BY <1>1, <3>2, FilesKeep DEF FileOperation, socketVars
    <3>3. QED
      BY <1>2, <3>1, <3>2
  <2>2. /\ TakeEvent \/ UNCHANGED <<ready, scanned>>
        /\ thisNetSession' \in BOOLEAN /\ session' \in BOOLEAN
    BY <1>1, <1>2, SocketsPoll, FilesPoll DEF Primitive
  <2>3. QED
    BY <1>1, <2>1, <2>2, ReadyOK, SoundClientsAreTyped
<1>3. CASE ClientsPoll \/ UNCHANGED allVars
  <2>1. /\ UNCHANGED <<aio, kernel, pss, thisNetSession, session, rec, signals, transfer>>
        /\ Select \/ EndPoll \/ UNCHANGED <<ready, scanned>>
    BY <1>3 DEF ClientsPoll, Select, EndPoll, socketVars, fileVars, allVars, aioVars
  <2>2. ClientsSound'
    BY <1>1, <2>1 DEF ClientsSound, SocketsSound, FilesSound
  <2>3. QED
    BY <1>1, <2>1, <2>2, ReadyOK, SoundClientsAreTyped
<1>4. QED
  BY <1>2, <1>3 DEF ClientsNext

\* What ClientsInv says holds in every state.
THEOREM ClientsStaySound == ClientsSpec => []ClientsInv
<1>1. ClientsInit => ClientsInv
  BY ClientsInitially
<1>2. ClientsInv /\ [ClientsNext]_allVars => ClientsInv'
  BY ClientsStep
<1>3. QED
  BY <1>1, <1>2, PTL DEF ClientsSpec

-----------------------------------------------------------------------------
(* The theorems                                                             *)

\* The masks, the sockets and the files' records have their types.
THEOREM ClientsTypeCorrect == ClientsSpec => []ClientsTypeOK
<1>1. ClientsInv => ClientsTypeOK
  BY DEF ClientsInv
<1>2. QED
  BY <1>1, ClientsStaySound, PTL

\* No two sockets, and no socket and file, ever have one descriptor, and what each has is
\* open and of its kind.
THEOREM FilesAndSocketsKeepApart == ClientsSpec => []NothingIsShared
<1>1. ClientsInv => NothingIsShared
  <2> SUFFICES ASSUME ClientsSound PROVE NothingIsShared
    BY DEF ClientsInv
  <2>1. DescriptorsHeldOnce
    BY SoundHoldsOnce DEF ClientsSound
  <2>2. ASSUME NEW s \in OpenSockets PROVE kernel[pss[s].s] \notin {"file", "stream"}
    BY OpenIsOpen DEF ClientsSound, SocketsSound, Sound, SocketSound, Consistent, SocketKinds
  <2>3. ASSUME NEW f \in Files, AsyncFiles!valid(f) PROVE kernel[rec[f].fd] \in {"file", "stream"}
    BY <2>3, FileAsked DEF FileSound, FileKinds, AsyncFiles!valid
  <2>4. QED
    BY <2>1, <2>2, <2>3 DEF NothingIsShared
<1>2. QED
  BY <1>1, ClientsStaySound, PTL

LEMMA InstalledIsWatched ==
  ASSUME NEW m, Tidy(m), NEW d \in m.enabled, NEW v \in Events, m.handler[<<d, v>>] \in Handlers
  PROVE  <<d, v>> \in m.watched /\ d < m.maxFd
BY DEF Tidy, Masks

\* Whoever waits for a transfer of a file was signalled, or a handler that is installed and
\* watched will signal it, or the write failed: whatever the sockets do.
THEOREM TransfersStayAnswered == ClientsSpec => []FilesTransfersAreAnswered
<1>1. ClientsInv => FilesTransfersAreAnswered
  <2> SUFFICES ASSUME ClientsSound, NEW f \in Files, transfer[f] # "none"
               PROVE  \/ AsyncFiles!SignalComes(f)
                      \/ transfer[f] = "write" /\ rec[f].wrStatus = "Error"
    BY DEF ClientsInv, FilesTransfersAreAnswered, AsyncFiles!TransfersAreAnswered
  <2> DEFINE d == rec[f].fd
             R == aio.handler[<<d, "R">>]
             W == aio.handler[<<d, "W">>]
  <2>1. rec[f] # Nil
    BY DEF ClientsSound, FilesSound, SoundFiles, FileState
  <2>2. /\ d \in Descriptors /\ Tidy(aio) /\ signals[f] \in Nat
        /\ FileSound(f, rec[f], aio, kernel)
        /\ transfer[f] \in {"read", "write"}
        /\ Promise(rec[f], signals[f], transfer[f], R, W)
    BY <2>1, FileAsked
  <2>3. ASSUME NEW v \in Events, aio.handler[<<d, v>>] \in Handlers
        PROVE  <<d, v>> \in AsyncFiles!Watched
    <3>1. d \in aio.enabled
      BY <2>2 DEF FileSound
    <3>2. <<d, v>> \in aio.watched /\ d < aio.maxFd
      BY <2>2, <2>3, <3>1, InstalledIsWatched
    <3>3. QED
      BY <3>2, OnePoll DEF Watched
  <2>4. /\ R = "readHandler" => <<d, "R">> \in AsyncFiles!Watched
        /\ W = "writeHandler" => <<d, "W">> \in AsyncFiles!Watched
    BY <2>3, FilesVocabulary DEF Events
  <2>5. \/ signals[f] > 0 \/ R = "readHandler" \/ W = "writeHandler"
        \/ transfer[f] = "write" /\ rec[f].wrStatus = "Error"
    BY <2>2 DEF Promise
  <2>6. QED
    BY <2>4, <2>5 DEF AsyncFiles!SignalComes, AsyncFiles!Armed
<1>2. QED
  BY <1>1, ClientsStaySound, PTL

\* A file that was only read, or only written, is where its record says: the next transfer
\* takes place where it was asked for.
THEOREM PositionsStayKnown == ClientsSpec => []FilesPositionsAreKnown
<1>1. ClientsInv => FilesPositionsAreKnown
  <2> SUFFICES ASSUME ClientsSound, NEW f \in Files, rec[f] # Nil
               PROVE  /\ rec[f].used \subseteq {"read"} => rec[f].offset = rec[f].rdPos
                      /\ rec[f].used \subseteq {"write"} => rec[f].offset = rec[f].wrPos
    BY DEF ClientsInv, FilesPositionsAreKnown, AsyncFiles!PositionsAreKnown, AsyncFiles!valid
  <2>1. QED
    BY FileAsked DEF Promise
<1>2. QED
  BY <1>1, ClientsStaySound, PTL

-----------------------------------------------------------------------------
(* aioPoll calls handlers that are there.  An event that waits for its turn  *)
(* in the loop keeps its handler, whatever the handlers before it close,     *)
(* disable and open: this is about the descriptors select answered, and not  *)
(* only about the masks.                                                     *)

\* What select answers for a listening socket: connections, and no exceptions.
OnlyConnections == "listening" \notin ExceptionalKinds

\* An event that waits has its handler, and a server has no other that waits with it.
EventsSound ==
  \A e \in ready :
    /\ aio.handler[e] \in Handlers
    /\ kernel[e[1]] = "listening" => e[2] = "R"

\* The others that wait of the descriptor whose event is taken
Others == {v \in Events : <<fd, v>> \in ready \ {First}}

\* There is none behind an exception, nor one of a server.
LEMMA NoOthers ==
  ASSUME AioTypeOK, EventsSound, Polling, flag = "X" \/ kernel[fd] = "listening"
  PROVE  Others = {}
<1> SUFFICES ASSUME NEW v \in Events, <<fd, v>> \in ready \ {First} PROVE FALSE
  BY DEF Others
<1>1. First \in ready /\ First = <<fd, flag>> /\ Before(First, <<fd, v>>) /\ fd \in Descriptors
  BY FirstIsReady
<1>2. CASE flag = "X"
  <2>1. ~(fd < fd)
    BY <1>1 DEF Descriptors
  <2>2. First[1] = fd /\ First[2] = "X"
    BY <1>1, <1>2
  <2>3. QED
    BY <1>1, <2>1, <2>2 DEF Before
<1>3. CASE kernel[fd] = "listening"
  <2>1. flag = "R" /\ v = "R"
    BY <1>1, <1>3 DEF EventsSound
  <2>2. QED
    BY <1>1, <2>1
<1>4. QED
  BY <1>2, <1>3

\* Nothing waits of a free descriptor.
LEMMA FreeHasNoEvents ==
  ASSUME SocketsSound, AioTypeOK, EventsSound, NEW e \in ready
  PROVE  kernel[e[1]] # "free" /\ e[1] \in Descriptors /\ e[2] \in Events /\ e = <<e[1], e[2]>>
<1>1. e[1] \in Descriptors /\ e[2] \in Events /\ e = <<e[1], e[2]>>
  BY DEF AioTypeOK
<1>2. aio.handler[<<e[1], e[2]>>] \in Handlers
  BY <1>1 DEF EventsSound
<1>3. QED
  BY <1>1, <1>2, FreeIsNobodys

\* A handler that changes the masks of fd, and of free descriptors, leaves the others that
\* wait their handlers.
LEMMA EventsKeep ==
  ASSUME SocketsSound, AioTypeOK, EventsSound, TakeEvent, NEW D, MasksElsewhere(aio, aio', D),
         \A d \in D : d = fd \/ kernel[d] = "free",
         \A d \in Descriptors : kernel'[d] = "listening" => kernel[d] = "listening",
         \A v \in Others : aio'.handler[<<fd, v>>] \in Handlers
  PROVE  EventsSound'
<1> SUFFICES ASSUME NEW e \in ready \ {First}
             PROVE  /\ aio'.handler[e] \in Handlers
                    /\ kernel'[e[1]] = "listening" => e[2] = "R"
  BY DEF EventsSound, TakeEvent
<1>1. /\ e = <<e[1], e[2]>> /\ e[1] \in Descriptors /\ e[2] \in Events /\ kernel[e[1]] # "free"
      /\ aio.handler[e] \in Handlers /\ (kernel[e[1]] = "listening" => e[2] = "R")
  BY FreeHasNoEvents DEF EventsSound
<1>2. CASE e[1] = fd
  <2>1. e[2] \in Others
    BY <1>1, <1>2 DEF Others
  <2>2. QED
    BY <1>1, <1>2, <2>1
<1>3. CASE e[1] # fd
  <2>1. aio'.handler[<<e[1], e[2]>>] = aio.handler[<<e[1], e[2]>>]
    BY <1>1, <1>3 DEF MasksElsewhere
  <2>2. QED
    BY <1>1, <2>1
<1>4. QED
  BY <1>2, <1>3

\* The handlers that take their event and may install a handler of fd.
LEMMA TakenKeepsEvents ==
  ASSUME SocketsSound, AioTypeOK, EventsSound, TakeEvent,
         \/ aio' = Taken
         \/ \E h \in Handlers, evs \in SUBSET Events : aio' = aioHandle(Taken, fd, h, evs),
         \A d \in Descriptors : kernel'[d] = "listening" => kernel[d] = "listening"
  PROVE  EventsSound'
<1>1. First = <<fd, flag>> /\ fd \in Descriptors /\ flag \in Events /\ Tidy(aio)
  BY FirstIsReady DEF TakeEvent, SocketsSound, Sound
<1>2. /\ Tidy(Taken) /\ MasksElsewhere(aio, Taken, {fd})
      /\ \A v \in Events :
           Taken.handler[<<fd, v>>] = IF v = flag THEN "undefined" ELSE aio.handler[<<fd, v>>]
  BY <1>1, TakenEffect
<1>3. ASSUME NEW v \in Others PROVE Taken.handler[<<fd, v>>] \in Handlers
  BY <1>1, <1>2 DEF Others, EventsSound
<1>4. CASE aio' = Taken
  BY <1>2, <1>3, <1>4, EventsKeep
<1>5. ASSUME NEW h \in Handlers, NEW evs \in SUBSET Events, aio' = aioHandle(Taken, fd, h, evs)
      PROVE  EventsSound'
  <2>1. HandledBy(Taken, aio', fd, evs, h)
    BY <1>1, <1>2, <1>5, HandleEffect
  <2>2. MasksElsewhere(aio, aio', {fd})
    BY <1>2, <2>1, MasksElsewhereTrans DEF HandledBy
  <2>3. \A v \in Others : aio'.handler[<<fd, v>>] \in Handlers
    BY <1>3, <2>1 DEF HandledBy, Others
  <2>4. QED
    BY <2>2, <2>3, EventsKeep
<1>6. QED
  BY <1>4, <1>5

\* The handlers that disable fd, behind which nothing of it waits.
LEMMA DisabledKeepsEvents ==
  ASSUME SocketsSound, AioTypeOK, EventsSound, TakeEvent,
         flag = "X" \/ kernel[fd] = "listening", aio' = aioDisable(Taken, fd),
         \A d \in Descriptors : kernel'[d] = "listening" => kernel[d] = "listening"
  PROVE  EventsSound'
<1>1. First = <<fd, flag>> /\ fd \in Descriptors /\ flag \in Events /\ Tidy(aio) /\ Polling
  BY FirstIsReady DEF TakeEvent, SocketsSound, Sound
<1>2. Tidy(Taken) /\ MasksElsewhere(aio, Taken, {fd})
  BY <1>1, TakenEffect
<1>3. MasksElsewhere(aio, aio', {fd})
  BY <1>1, <1>2, DisableEffect, MasksElsewhereTrans DEF DisabledFor
<1>4. Others = {}
  BY <1>1, NoOthers
<1>5. QED
  BY <1>3, <1>4, EventsKeep

\* A server that a connection replaces in place
LEMMA InPlaceKeepsEvents ==
  ASSUME SocketsSound, AioTypeOK, EventsSound, AcceptedInPlace
  PROVE  EventsSound'
<1> DEFINE new == NewDescriptor
           left == aioDisable(Taken, fd)
<1>1. /\ TakeEvent /\ Polling /\ Calls("acceptHandler") /\ flag = "R"
      /\ new \in Descriptors /\ kernel[new] = "free"
      /\ aio' = aioEnable(left, new, data)
      /\ kernel' = [kernel EXCEPT ![fd] = "free", ![new] = "connected"]
  BY NewIsFree DEF AcceptedInPlace, Calls, TakeEvent
<1>2. /\ fd \in Descriptors /\ data \in Clients /\ kernel[fd] = "listening"
      /\ Tidy(Taken) /\ MasksElsewhere(aio, Taken, {fd}) /\ kernel \in KernelType
  BY <1>1, Called, Vocabulary DEF Consistent, SocketHandlers, SocketsSound, Sound
<1> HIDE DEF new
<1>3. Tidy(left) /\ MasksElsewhere(Taken, left, {fd})
  BY <1>2, DisableEffect DEF DisabledFor
<1> HIDE DEF left
<1>4. MasksElsewhere(left, aio', {new})
  BY <1>1, <1>2, <1>3, EnableEffect DEF EnabledFor
<1> DEFINE D == {fd, new}
<1>5. MasksElsewhere(aio, aio', D)
  BY <1>2, <1>3, <1>4 DEF MasksElsewhere
<1>6. Others = {}
  BY <1>1, <1>2, NoOthers
<1>7. \A d \in Descriptors : kernel'[d] = "listening" => kernel[d] = "listening"
  BY <1>1, <1>2 DEF KernelType
<1>8. \A d \in D : d = fd \/ kernel[d] = "free"
  BY <1>1
<1> HIDE DEF D
<1>9. \A v \in Others : aio'.handler[<<fd, v>>] \in Handlers
  BY <1>6
<1>10. QED
  BY <1>1, <1>5, <1>7, <1>8, <1>9, EventsKeep

LEMMA SocketHandlersKeepEvents ==
  ASSUME SocketsSound, AioTypeOK, EventsSound, Handle
  PROVE  EventsSound'
<1>1. kernel \in KernelType /\ TakeEvent
  BY DEF SocketsSound, Sound, Handle, AcceptException, AcceptAborted, AcceptFailed, AcceptedMulti,
         AcceptedInPlace, ConnectException, ConnectCompleted, DataPossible, Calls
<1> DEFINE NoServer ==
             \A d \in Descriptors : kernel'[d] = "listening" => kernel[d] = "listening"
<1>2. CASE AcceptException \/ AcceptFailed
  <2>1. /\ Calls("acceptHandler") /\ (flag = "X" \/ flag = "R")
        /\ aio' = aioDisable(Taken, fd) /\ kernel' = [kernel EXCEPT ![fd] = "free"]
    BY <1>2 DEF AcceptException, AcceptFailed
  <2>2. flag = "X" \/ kernel[fd] = "listening"
    BY <2>1, Called, Vocabulary DEF Consistent
  <2>3. NoServer
    BY <1>1, <2>1 DEF KernelType
  <2>4. QED
    BY <1>1, <2>1, <2>2, <2>3, DisabledKeepsEvents
<1>3. CASE ConnectException
  <2>1. /\ flag = "X" /\ aio' = aioDisable(Taken, fd)
        /\ kernel' = [kernel EXCEPT ![fd] = IF @ = "connecting" THEN "idle" ELSE @]
    BY <1>3 DEF ConnectException
  <2>2. NoServer
    BY <1>1, <2>1 DEF KernelType
  <2>3. QED
    BY <1>1, <2>1, <2>2, DisabledKeepsEvents
<1>4. CASE AcceptAborted
  <2>1. aio' = aioHandle(Taken, fd, "acceptHandler", {"R", "X"}) /\ kernel' = kernel
    BY <1>4 DEF AcceptAborted
  <2>2. "acceptHandler" \in Handlers /\ {"R", "X"} \in SUBSET Events
    BY Vocabulary
  <2>3. QED
    BY <1>1, <2>1, <2>2, TakenKeepsEvents
<1>5. CASE AcceptedMulti
  <2>1. aio' = Taken /\ kernel' = [kernel EXCEPT ![NewDescriptor] = "connected"]
    BY <1>5 DEF AcceptedMulti
  <2>2. NoServer
    BY <1>1, <2>1 DEF KernelType
  <2>3. QED
    BY <1>1, <2>1, <2>2, TakenKeepsEvents
<1>6. CASE AcceptedInPlace
  BY <1>6, InPlaceKeepsEvents
<1>7. CASE ConnectCompleted
  <2>1. /\ aio' = Taken
        /\ \E kind \in {"connected", "idle"} : kernel' = [kernel EXCEPT ![fd] = kind]
    BY <1>7 DEF ConnectCompleted
  <2>2. NoServer
    BY <1>1, <2>1 DEF KernelType
  <2>3. QED
    BY <1>1, <2>1, <2>2, TakenKeepsEvents
<1>8. CASE DataPossible
  <2>1. aio' = Taken /\ kernel' = kernel
    BY <1>8 DEF DataPossible
  <2>2. QED
    BY <1>1, <2>1, TakenKeepsEvents
<1>9. QED
  BY <1>2, <1>3, <1>4, <1>5, <1>6, <1>7, <1>8 DEF Handle

LEMMA FileHandlersKeepEvents ==
  ASSUME ClientsSound, AioTypeOK, EventsSound, AsyncFiles!Handle
  PROVE  EventsSound'
<1>1. SocketsSound
  BY DEF ClientsSound
<1>2. CASE AsyncFiles!readHandler
  <2>1. TakeEvent /\ aio' = Taken /\ kernel' = kernel
    BY <1>2, OnePoll DEF AsyncFiles!readHandler, Calls
  <2>2. QED
    BY <1>1, <2>1, TakenKeepsEvents
<1>3. CASE AsyncFiles!writeHandler
  <2>1. Calls("writeHandler") /\ TakeEvent /\ kernel' = kernel
    BY <1>3, OnePoll DEF AsyncFiles!writeHandler, Calls
  <2>2. AsyncFiles!writeBuffer(Taken, data, rec[data])
    BY <1>3, OnePoll DEF AsyncFiles!writeHandler
  <2>3. rec[data].fd = fd
    BY <2>1, FileCalled
  <2>4. aio' = Taken \/ aio' = aioHandle(Taken, fd, "writeHandler", {"W"})
    BY <2>2, <2>3, OneAio DEF AsyncFiles!writeBuffer, AsyncFiles!WriteLater
  <2>5. "writeHandler" \in Handlers /\ {"W"} \in SUBSET Events
    BY FilesVocabulary DEF Events
  <2>6. QED
    BY <1>1, <2>1, <2>4, <2>5, TakenKeepsEvents
<1>4. QED
  BY <1>2, <1>3 DEF AsyncFiles!Handle

\* select answers events that have handlers.
LEMMA SelectAnswersHandled ==
  ASSUME SocketsSound, AioTypeOK, OnlyConnections, Select
  PROVE  EventsSound'
<1> SUFFICES ASSUME NEW e \in ready'
             PROVE  /\ aio'.handler[e] \in Handlers
                    /\ kernel'[e[1]] = "listening" => e[2] = "R"
  BY DEF EventsSound
<1>1. /\ e \in aio.watched /\ e[2] \in CanHappen(kernel[e[1]])
      /\ aio' = aio /\ kernel' = kernel
  BY DEF Select, Watched
<1>2. Tidy(aio) /\ e = <<e[1], e[2]>> /\ e[1] \in Descriptors /\ e[2] \in Events
  BY <1>1 DEF SocketsSound, Sound, Tidy, Masks
<1>3. aio.handler[e] \in Handlers
  BY <1>1, <1>2 DEF Tidy
<1>4. kernel[e[1]] = "listening" => e[2] = "R"
  BY <1>1 DEF CanHappen, OnlyConnections
<1>5. QED
  BY <1>1, <1>3, <1>4

LEMMA EventsStep ==
  ASSUME ClientsInv, EventsSound, OnlyConnections, [ClientsNext]_allVars
  PROVE  EventsSound'
<1>1. ClientsSound /\ SocketsSound /\ AioTypeOK
  BY DEF ClientsInv, ClientsTypeOK, TypeOK, ClientsSound
<1>2. thisNetSession \in BOOLEAN /\ session \in BOOLEAN
  BY DEF ClientsInv, ClientsTypeOK, TypeOK, AsyncFiles!TypeOK
<1>3. CASE SocketOperation
  <2>1. Handle \/ Primitive
    BY <1>2, <1>3, SocketsPoll
  <2>2. QED
    BY <1>1, <2>1, SocketHandlersKeepEvents DEF Primitive, Polling, EventsSound
<1>4. CASE FileOperation
  <2>1. AsyncFiles!Handle \/ Primitive
    BY <1>2, <1>4, FilesPoll
  <2>2. QED
    BY <1>1, <2>1, FileHandlersKeepEvents DEF Primitive, Polling, EventsSound
<1>5. CASE ClientsPoll
  <2>1. CASE Select
    BY <1>1, <2>1, SelectAnswersHandled
  <2>2. CASE EndPoll
    BY <2>2 DEF EndPoll, EventsSound
  <2>3. QED
    BY <1>5, <2>1, <2>2 DEF ClientsPoll
<1>6. CASE UNCHANGED allVars
  BY <1>6 DEF allVars, aioVars, EventsSound
<1>7. QED
  BY <1>3, <1>4, <1>5, <1>6 DEF ClientsNext

LEMMA SoundEventsReach ==
  ASSUME ClientsSound, AioTypeOK, EventsSound
  PROVE  EventsReachTheirClients
<1> SUFFICES ASSUME Polling
             PROVE  \/ /\ aio.handler[First] \in SocketHandlers
                       /\ data \in OpenSockets
                       /\ pss[data].s = fd
                    \/ /\ aio.handler[First] \in AsyncFiles!FileHandlers
                       /\ data \in Files
                       /\ AsyncFiles!valid(data)
                       /\ rec[data].fd = fd
  BY DEF EventsReachTheirClients
<1>1. /\ First = <<fd, flag>> /\ fd \in Descriptors /\ flag \in Events
      /\ aio.handler[<<fd, flag>>] \in Handlers
  BY FirstIsReady DEF EventsSound
<1>2. /\ DescriptorSound(fd, aio, kernel, pss) /\ OwnerSound(fd, aio, kernel, rec)
      /\ kernel[fd] \in Kinds
  BY <1>1 DEF ClientsSound, SocketsSound, Sound, FilesSound, SoundFiles, KernelType
<1>3. fd \in aio.enabled /\ kernel[fd] \in SocketKinds \cup FileKinds
  BY <1>1, <1>2 DEF DescriptorSound, Kinds, SocketKinds, FileKinds
<1>4. CASE kernel[fd] \in SocketKinds
  <2>1. data \in Sockets /\ Open(pss[data]) /\ pss[data].s = fd
    BY <1>2, <1>3, <1>4 DEF DescriptorSound, data
  <2>2. SocketSound(pss[data], aio, kernel)
    BY <2>1 DEF ClientsSound, SocketsSound, Sound
  <2>3. \A v \in Events : Ours(aio.handler[<<fd, v>>])
    BY <2>1, <2>2 DEF SocketSound, Consistent, Events
  <2>4. aio.handler[First] \in SocketHandlers
    BY <1>1, <2>3, IdleIsNoHandler DEF Ours, Idle
  <2>5. QED
    BY <2>1, <2>4, OpenIsOpen
<1>5. CASE kernel[fd] \in FileKinds
  <2>1. data \in Files /\ rec[data] # Nil /\ rec[data].fd = fd
    BY <1>2, <1>3, <1>5 DEF OwnerSound, data
  <2>2. FileSound(data, rec[data], aio, kernel)
    BY <2>1, FileAsked
  <2>3. aio.handler[First] \in {"readHandler", "writeHandler"}
    BY <1>1, <2>1, <2>2, IdleIsNoHandler DEF FileSound, Events
  <2>4. QED
    BY <2>1, <2>3 DEF AsyncFiles!FileHandlers, AsyncFiles!valid
<1>6. QED
  BY <1>3, <1>4, <1>5

\* Where select reports no exceptions of servers, the handler that aioPoll calls is always
\* there, and finds a valid socket, or file, whose descriptor the event is of: whatever the
\* handlers before it in the poll closed, accepted and installed.
THEOREM HandlersFindTheirClients ==
  ASSUME OnlyConnections
  PROVE  ClientsSpec => []EventsReachTheirClients
<1> DEFINE Inv == ClientsInv /\ EventsSound
<1>1. ClientsInit => Inv
  BY ClientsInitially DEF ClientsInit, Init, AioInit, EventsSound
<1>2. Inv /\ [ClientsNext]_allVars => Inv'
  BY ClientsStep, EventsStep
<1>3. Inv => EventsReachTheirClients
  BY SoundEventsReach DEF ClientsInv, ClientsTypeOK, TypeOK
<1>4. QED
  BY <1>1, <1>2, <1>3, PTL DEF ClientsSpec
=============================================================================
