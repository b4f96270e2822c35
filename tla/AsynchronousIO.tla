---------------------------- MODULE AsynchronousIO ----------------------------
(***************************************************************************)
(* platforms/unix/vm/aio.c: one-shot handlers of the events of descriptors. *)
(* Its state is the record aio; an operator that bears the name of a       *)
(* function answers the record the function leaves.  The modules that      *)
(* install handlers say what the handlers do.                              *)
(*                                                                         *)
(* aioPoll asks select once, and then calls handlers for what select       *)
(* answered, while the handlers change the state select was asked about.   *)
(***************************************************************************)
EXTENDS Integers, FiniteSets, FiniteSetsExt

CONSTANTS
  Clients,             \* what aioEnable takes as clientData
  Handlers,            \* what aioHandle takes as handlerFn
  MaxDescriptor,       \* bound: the highest descriptor the process can have
  Nil,                 \* no client
  ExceptionalKinds     \* the kinds of descriptors whose exceptions select reports

NoDescriptor == -1
Descriptors == 0 .. MaxDescriptor
Events == {"R", "W", "X"}

\* external: the operating system's kinds of descriptors
Kinds == {"free", "other", "idle", "listening", "connecting", "connected", "file", "stream"}

ASSUME AsynchronousIOAssumption ==
  /\ MaxDescriptor \in Nat
  /\ Nil \notin Clients
  /\ ExceptionalKinds \subseteq Kinds \ {"free"}
  /\ {"undefined", "none"} \cap Handlers = {}

VARIABLES
  aio,                 \* the masks, handlers and clientData of aio.c
  ready,               \* the events select answered whose handlers are not called yet
  scanned,             \* the descriptor aioPoll's loop has come to
  kernel               \* what the operating system has under every descriptor

aioVars == <<aio, ready, scanned, kernel>>

\* external: the events a descriptor of each kind can have
CanHappen(kind) ==
  (IF kind \in {"idle", "connecting", "connected", "file", "stream"} THEN {"R", "W"}
   ELSE IF kind = "listening" THEN {"R"} ELSE {})
    \cup (IF kind \in ExceptionalKinds THEN {"X"} ELSE {})
FreeDescriptors == {d \in Descriptors : kernel[d] = "free"}

\* external: what opens a descriptor gets the lowest free one.
NewDescriptor == Min(FreeDescriptors)

Masks ==
  [enabled : SUBSET Descriptors, watched : SUBSET (Descriptors \X Events),
   maxFd : 0 .. MaxDescriptor + 1,
   handler : [Descriptors \X Events -> Handlers \cup {"undefined", "none"}],
   client : [Descriptors -> Clients \cup {Nil}]]

AioTypeOK ==
  /\ aio \in Masks
  /\ ready \subseteq Descriptors \X Events
  /\ scanned \in Descriptors
  /\ kernel \in [Descriptors -> Kinds]

\* aioInit.  Descriptor 0 is the standard input.
AioInit ==
  /\ aio = [enabled |-> {}, watched |-> {}, maxFd |-> 0,
            handler |-> [e \in Descriptors \X Events |-> "none"],
            client |-> [fd \in Descriptors |-> Nil]]
  /\ ready = {}
  /\ scanned = 0
  /\ kernel = [fd \in Descriptors |-> IF fd = 0 THEN "other" ELSE "free"]

-----------------------------------------------------------------------------
(* The functions.  A Bug definition is a variant of the one after it that   *)
(* the code could have had: what the properties are sensitive to.           *)

SetHandlers(a, fd, evs, h) ==
  [a EXCEPT !.handler = [e \in DOMAIN @ |-> IF e[1] = fd /\ e[2] \in evs THEN h ELSE @[e]]]

\* maxFd is one too far.
BugTooFar(a, fd, c) ==
  IF fd = NoDescriptor \/ fd \in a.enabled THEN a
  ELSE [SetHandlers(a, fd, Events, "undefined") EXCEPT
          !.enabled = @ \cup {fd}, !.watched = {e \in @ : e[1] # fd}, !.client[fd] = c,
          !.maxFd = IF fd >= @ THEN fd + 2 ELSE @]

\* maxFd is left where it is.
BugKeepMaxFd(a, fd, c) ==
  IF fd = NoDescriptor \/ fd \in a.enabled THEN a
  ELSE [SetHandlers(a, fd, Events, "undefined") EXCEPT
          !.enabled = @ \cup {fd}, !.watched = {e \in @ : e[1] # fd}, !.client[fd] = c]

aioEnable(a, fd, c) ==
  IF fd = NoDescriptor \/ fd \in a.enabled THEN a
  ELSE [SetHandlers(a, fd, Events, "undefined") EXCEPT
          !.enabled = @ \cup {fd},
          !.watched = {e \in @ : e[1] # fd},
          !.client[fd] = c,
          !.maxFd = IF fd >= @ THEN fd + 1 ELSE @]

\* The mask is cleared first.
BugWatchOnly(a, fd, h, evs) ==
  IF fd = NoDescriptor THEN a
  ELSE [SetHandlers(a, fd, evs, h) EXCEPT !.watched = {fd} \X evs]

aioHandle(a, fd, h, evs) ==
  IF fd = NoDescriptor THEN a
  ELSE [SetHandlers(a, fd, evs, h) EXCEPT !.watched = @ \cup {fd} \X evs]

\* What is left once the descriptors ds are disabled: aioDisable suspends the one it disables,
\* clears its handlers and its client, and lowers maxFd to the last one that is enabled.
Disabled(a, ds) ==
  [a EXCEPT !.handler = [e \in DOMAIN @ |-> IF e[1] \in ds THEN "none" ELSE @[e]],
            !.watched = {e \in @ : e[1] \notin ds},
            !.enabled = @ \ ds,
            !.client = [d \in DOMAIN @ |-> IF d \in ds THEN Nil ELSE @[d]],
            !.maxFd = IF a.enabled \subseteq ds THEN 0 ELSE Max(a.enabled \ ds) + 1]

aioDisable(a, fd) == IF fd = NoDescriptor THEN a ELSE Disabled(a, {fd})

\* aioFini disables and closes every enabled descriptor (none is external).
aioFini(a) == Disabled(a, a.enabled)

-----------------------------------------------------------------------------
(* aioPoll                                                                  *)

Polling == ready # {}

Watched == {e \in aio.watched : e[1] < aio.maxFd}

\* select answers events of watched descriptors.  It fails if one is not open.
Select ==
  /\ ~Polling
  /\ \A e \in Watched : kernel[e[1]] # "free"
  /\ ready' \in SUBSET {e \in Watched : e[2] \in CanHappen(kernel[e[1]])} \ {{}}
  /\ scanned' = 0
  /\ UNCHANGED <<aio, kernel>>

\* The loop over descriptors tests maxFd for each one and then looks at its read,
\* write and exceptional events.
Before(e, f) ==
  \/ e[1] < f[1]
  \/ e[1] = f[1] /\ <<e[2], f[2]>> \in {<<"R", "W">>, <<"R", "X">>, <<"W", "X">>}
First == CHOOSE e \in ready : \A f \in ready \ {e} : Before(e, f)
LoopGoesOn == First[1] = scanned \/ First[1] < aio.maxFd

\* What is done before the handler of the first event is called.
Taken == [SetHandlers(aio, First[1], {First[2]}, "undefined") EXCEPT !.watched = @ \ {First}]

TakeEvent ==
  /\ Polling
  /\ LoopGoesOn
  /\ ready' = ready \ {First}
  /\ scanned' = First[1]

EndPoll ==
  /\ Polling
  /\ ~LoopGoesOn
  /\ ready' = {}
  /\ UNCHANGED <<aio, scanned, kernel>>

\* A handler is called with these, and a primitive of the image runs between polls.
fd == First[1]
flag == First[2]
data == aio.client[fd]
Calls(h) == TakeEvent /\ aio.handler[First] = h
Primitive == ~Polling /\ UNCHANGED <<ready, scanned>>
=============================================================================
