---------------------------- MODULE Sockets_proofs ----------------------------
(***************************************************************************)
(* Theorems about Sockets, for any sockets, descriptors and kinds of       *)
(* exceptions: what the operators of aio.c do to the masks; what the state *)
(* of a socket, its descriptor and its handlers say of each other; and     *)
(* that every step, which touches a socket or two and their descriptors,   *)
(* keeps that.                                                             *)
(***************************************************************************)
EXTENDS Sockets, TLAPS, WellFoundedInduction

-----------------------------------------------------------------------------
(* Least and greatest descriptors                                           *)

LEMMA LeastNat ==
  ASSUME NEW S \in SUBSET Nat, S # {}
  PROVE  \E x \in S : \A y \in S : x <= y
<1> DEFINE R == {pair \in Nat \X Nat : pair[1] < pair[2]}
<1>1. IsWellFoundedOn(R, Nat)
  BY NatLessThanWellFounded DEF OpToRel
<1>2. \A x, y \in Nat : x < y => <<x, y>> \in R
  OBVIOUS
<1> HIDE DEF R
<1>3. PICK x \in S : \A y \in S : ~ (<<y, x>> \in R)
  BY <1>1, WFMin
<1>4. ASSUME NEW y \in S PROVE x <= y
  <2>1. x \in Nat /\ y \in Nat
    OBVIOUS
  <2>2. ~ (y < x)
    BY <1>2, <1>3, <2>1
  <2>3. QED
    BY <2>1, <2>2
<1>5. QED
  BY <1>4

LEMMA LeastDescriptor ==
  ASSUME NEW D \in SUBSET Descriptors, D # {}
  PROVE  Min(D) \in D /\ \A d \in D : Min(D) <= d
<1>1. \E x \in D : \A y \in D : x <= y
  BY LeastNat, AsynchronousIOAssumption DEF Descriptors
<1>2. QED
  BY <1>1 DEF Min

LEMMA GreatestDescriptor ==
  ASSUME NEW D \in SUBSET Descriptors, D # {}
  PROVE  Max(D) \in D /\ \A d \in D : d <= Max(D)
<1> DEFINE Below == {MaxDescriptor - d : d \in D}
<1>1. Below \in SUBSET Nat /\ Below # {}
  <2>1. \A d \in D : MaxDescriptor - d \in Nat
    BY AsynchronousIOAssumption DEF Descriptors
  <2>2. QED
    BY <2>1
<1>2. PICK y \in Below : \A z \in Below : y <= z
  BY <1>1, LeastNat
<1>3. PICK x \in D : y = MaxDescriptor - x
  BY <1>2
<1>4. ASSUME NEW d \in D PROVE d <= x
  <2>1. y <= MaxDescriptor - d
    BY <1>2
  <2>2. QED
    BY <1>3, <2>1, AsynchronousIOAssumption DEF Descriptors
<1>5. QED
  BY <1>4 DEF Max

-----------------------------------------------------------------------------
(* The masks of aio.c                                                       *)

\* What is watched has a handler, and select and aioPoll's loop reach what is enabled.
Tidy(m) ==
  /\ m \in Masks
  /\ \A d \in Descriptors, v \in Events :
       <<d, v>> \in m.watched <=> m.handler[<<d, v>>] \in Handlers
  /\ \A d \in m.enabled : d < m.maxFd

\* Nothing is installed for these handlers.
Idle == {"undefined", "none"}

LEMMA IdleIsNoHandler == "undefined" \notin Handlers /\ "none" \notin Handlers
BY AsynchronousIOAssumption

\* The handlers of d for the events evs become h, and the others stay.
HandlersBecome(m, n, D, evs, h) ==
  \A c \in Descriptors, v \in Events :
    n.handler[<<c, v>>] = IF c \in D /\ v \in evs THEN h ELSE m.handler[<<c, v>>]

\* Outside D, the masks stay what they are.
MasksElsewhere(m, n, D) ==
  \A d \in Descriptors \ D :
    /\ d \in n.enabled <=> d \in m.enabled
    /\ n.client[d] = m.client[d]
    /\ \A v \in Events : n.handler[<<d, v>>] = m.handler[<<d, v>>]

LEMMA SetHandlersEffect ==
  ASSUME NEW m \in Masks, NEW d \in Descriptors, NEW evs \in SUBSET Events,
         NEW h, h \in Handlers \/ h \in Idle
  PROVE  LET n == SetHandlers(m, d, evs, h) IN
         /\ n \in Masks
         /\ n = [enabled |-> m.enabled, watched |-> m.watched, maxFd |-> m.maxFd,
                 handler |-> n.handler, client |-> m.client]
         /\ HandlersBecome(m, n, {d}, evs, h)
BY DEF SetHandlers, Masks, Idle, HandlersBecome

\* n is m once d is enabled for c.
EnabledFor(m, n, d, c) ==
  /\ Tidy(n)
  /\ n.enabled = m.enabled \cup {d}
  /\ \A v \in Events :
       n.handler[<<d, v>>] = IF d \in m.enabled THEN m.handler[<<d, v>>] ELSE "undefined"
  /\ n.client[d] = IF d \in m.enabled THEN m.client[d] ELSE c
  /\ MasksElsewhere(m, n, {d})

LEMMA EnableEffect ==
  ASSUME NEW m, Tidy(m), NEW d \in Descriptors, NEW c \in Clients
  PROVE  EnabledFor(m, aioEnable(m, d, c), d, c)
<1> DEFINE n == aioEnable(m, d, c)
           h == SetHandlers(m, d, Events, "undefined")
<1>1. d # NoDescriptor
  BY AsynchronousIOAssumption DEF Descriptors, NoDescriptor
<1>2. CASE d \in m.enabled
  BY <1>1, <1>2 DEF aioEnable, MasksElsewhere, Tidy, EnabledFor
<1>3. CASE d \notin m.enabled
  <2>1. /\ m \in Masks /\ h \in Masks /\ h.enabled = m.enabled /\ h.watched = m.watched
        /\ h.maxFd = m.maxFd /\ h.client = m.client
        /\ HandlersBecome(m, h, {d}, Events, "undefined")
    BY SetHandlersEffect DEF Tidy, Idle
  <2>2. n = [h EXCEPT !.enabled = @ \cup {d}, !.watched = {e \in @ : e[1] # d},
                      !.client[d] = c, !.maxFd = IF d >= @ THEN d + 1 ELSE @]
    BY <1>1, <1>3 DEF aioEnable
  <2> HIDE DEF n, h
  <2>3. /\ n.enabled = m.enabled \cup {d}
        /\ n.watched = {e \in m.watched : e[1] # d}
        /\ n.handler = h.handler
        /\ n.client = [m.client EXCEPT ![d] = c]
        /\ n.maxFd = IF d >= m.maxFd THEN d + 1 ELSE m.maxFd
    BY <2>1, <2>2 DEF Masks
  <2>4. m.maxFd \in 0 .. MaxDescriptor + 1 /\ d \in 0 .. MaxDescriptor
        /\ m.enabled \subseteq 0 .. MaxDescriptor /\ MaxDescriptor \in Nat
    BY <2>1, AsynchronousIOAssumption DEF Masks, Descriptors
  <2>5. n \in Masks
    <3>1. n.maxFd \in 0 .. MaxDescriptor + 1
      BY <2>3, <2>4
    <3>2. n.watched \subseteq m.watched /\ n.client \in [Descriptors -> Clients \cup {Nil}]
      BY <2>1, <2>3 DEF Masks
    <3>3. QED
      BY <2>1, <2>2, <2>3, <3>1, <3>2 DEF Masks
  <2>6. \A e \in n.enabled : e < n.maxFd
    BY <2>3, <2>4 DEF Tidy
  <2>7. \A e \in Descriptors, v \in Events :
          <<e, v>> \in n.watched <=> n.handler[<<e, v>>] \in Handlers
    <3> SUFFICES ASSUME NEW e \in Descriptors, NEW v \in Events
                 PROVE  <<e, v>> \in n.watched <=> n.handler[<<e, v>>] \in Handlers
      OBVIOUS
    <3>1. <<e, v>> \in n.watched <=> <<e, v>> \in m.watched /\ e # d
      BY <2>3
    <3>2. n.handler[<<e, v>>] = IF e = d THEN "undefined" ELSE m.handler[<<e, v>>]
      BY <2>1, <2>3 DEF HandlersBecome
    <3>3. QED
      BY <3>1, <3>2, IdleIsNoHandler DEF Tidy
  <2>8. \A e \in Descriptors : n.client[e] = IF e = d THEN c ELSE m.client[e]
    BY <2>1, <2>3 DEF Masks
  <2>9. /\ \A v \in Events : n.handler[<<d, v>>] = "undefined"
        /\ MasksElsewhere(m, n, {d})
    BY <2>1, <2>3, <2>8 DEF HandlersBecome, MasksElsewhere
  <2>10. QED
    BY <1>3, <2>3, <2>5, <2>6, <2>7, <2>8, <2>9 DEF Tidy, EnabledFor, n
<1>4. QED
  BY <1>2, <1>3

\* n is m once h handles the events evs of d.
HandledBy(m, n, d, evs, h) ==
  /\ Tidy(n)
  /\ n.enabled = m.enabled /\ n.client = m.client
  /\ \A v \in Events :
       n.handler[<<d, v>>] = IF v \in evs THEN h ELSE m.handler[<<d, v>>]
  /\ MasksElsewhere(m, n, {d})

LEMMA HandleEffect ==
  ASSUME NEW m, Tidy(m), NEW d \in Descriptors, NEW h \in Handlers, NEW evs \in SUBSET Events
  PROVE  HandledBy(m, aioHandle(m, d, h, evs), d, evs, h)
<1> DEFINE n == aioHandle(m, d, h, evs)
           g == SetHandlers(m, d, evs, h)
<1>1. /\ m \in Masks /\ g \in Masks /\ g.enabled = m.enabled /\ g.watched = m.watched
      /\ g.maxFd = m.maxFd /\ g.client = m.client
      /\ HandlersBecome(m, g, {d}, evs, h)
  <2>1. m \in Masks
    BY DEF Tidy
  <2>2. QED
    BY <2>1, SetHandlersEffect
<1>2. n = [g EXCEPT !.watched = @ \cup {d} \X evs]
  BY AsynchronousIOAssumption DEF aioHandle, Descriptors, NoDescriptor
<1> HIDE DEF n, g
<1>3. /\ n.enabled = m.enabled /\ n.client = m.client /\ n.maxFd = m.maxFd
      /\ n.handler = g.handler /\ n.watched = m.watched \cup {d} \X evs
  BY <1>1, <1>2 DEF Masks
<1>4. n \in Masks
  BY <1>1, <1>2, <1>3 DEF Masks
<1>5. \A e \in Descriptors, v \in Events :
        <<e, v>> \in n.watched <=> n.handler[<<e, v>>] \in Handlers
  <2> SUFFICES ASSUME NEW e \in Descriptors, NEW v \in Events
               PROVE  <<e, v>> \in n.watched <=> n.handler[<<e, v>>] \in Handlers
    OBVIOUS
  <2>1. <<e, v>> \in n.watched <=> <<e, v>> \in m.watched \/ (e = d /\ v \in evs)
    BY <1>3
  <2>2. n.handler[<<e, v>>] = IF e = d /\ v \in evs THEN h ELSE m.handler[<<e, v>>]
    BY <1>1, <1>3 DEF HandlersBecome
  <2>3. QED
    BY <2>1, <2>2 DEF Tidy
<1>6. QED
  BY <1>1, <1>3, <1>4, <1>5 DEF Tidy, HandlersBecome, MasksElsewhere, HandledBy, n

\* n is m once D is disabled.
DisabledFor(m, n, D) ==
  /\ Tidy(n)
  /\ n.enabled = m.enabled \ D
  /\ \A d \in D, v \in Events : n.handler[<<d, v>>] = "none"
  /\ MasksElsewhere(m, n, D)

LEMMA DisabledEffect ==
  ASSUME NEW m, Tidy(m), NEW D \in SUBSET Descriptors
  PROVE  DisabledFor(m, Disabled(m, D), D)
<1> DEFINE n == Disabled(m, D)
           last == IF m.enabled \subseteq D THEN 0 ELSE Max(m.enabled \ D) + 1
<1>1. m \in Masks /\ m.enabled \subseteq Descriptors
  BY DEF Tidy, Masks
<1>2. last \in 0 .. MaxDescriptor + 1 /\ \A d \in m.enabled \ D : d < last
  <2>1. CASE m.enabled \subseteq D
    BY <2>1, AsynchronousIOAssumption
  <2>2. CASE ~(m.enabled \subseteq D)
    <3> DEFINE top == Max(m.enabled \ D)
    <3>1. /\ top \in Descriptors
          /\ \A d \in m.enabled \ D : d \in Descriptors /\ d <= top
      BY <1>1, <2>2, GreatestDescriptor
    <3>2. last = top + 1
      BY <2>2
    <3> HIDE DEF last, top
    <3>3. top \in 0 .. MaxDescriptor /\ MaxDescriptor \in Nat
      BY <3>1, AsynchronousIOAssumption DEF Descriptors
    <3>4. last \in 0 .. MaxDescriptor + 1
      BY <3>2, <3>3
    <3>5. \A d \in m.enabled \ D : d \in 0 .. MaxDescriptor /\ d <= top
      BY <3>1 DEF Descriptors
    <3>6. QED
      BY <3>2, <3>3, <3>4, <3>5
  <2>3. QED
    BY <2>1, <2>2
<1> HIDE DEF last
<1>3. n = [m EXCEPT !.handler = [e \in DOMAIN @ |-> IF e[1] \in D THEN "none" ELSE @[e]],
                    !.watched = {e \in @ : e[1] \notin D},
                    !.enabled = @ \ D,
                    !.client = [d \in DOMAIN @ |-> IF d \in D THEN Nil ELSE @[d]],
                    !.maxFd = last]
  BY DEF Disabled, last
<1> HIDE DEF n
<1>4. /\ n.enabled = m.enabled \ D /\ n.maxFd = last
      /\ n.watched = {e \in m.watched : e[1] \notin D}
      /\ n.handler = [e \in Descriptors \X Events |-> IF e[1] \in D THEN "none" ELSE m.handler[e]]
      /\ n.client = [d \in Descriptors |-> IF d \in D THEN Nil ELSE m.client[d]]
  BY <1>1, <1>3 DEF Masks
<1>5. n \in Masks
  BY <1>1, <1>2, <1>3, <1>4 DEF Masks
<1>6. \A e \in Descriptors, v \in Events :
        <<e, v>> \in n.watched <=> n.handler[<<e, v>>] \in Handlers
  BY <1>4, IdleIsNoHandler DEF Tidy
<1>7. MasksElsewhere(m, n, D) /\ \A d \in D, v \in Events : n.handler[<<d, v>>] = "none"
  BY <1>4 DEF MasksElsewhere
<1>8. QED
  BY <1>2, <1>4, <1>5, <1>6, <1>7 DEF Tidy, DisabledFor, n

LEMMA DisableEffect ==
  ASSUME NEW m, Tidy(m), NEW d \in Descriptors
  PROVE  DisabledFor(m, aioDisable(m, d), {d})
<1>1. aioDisable(m, d) = Disabled(m, {d})
  BY AsynchronousIOAssumption DEF aioDisable, Descriptors, NoDescriptor
<1>2. QED
  BY <1>1, DisabledEffect

LEMMA TakenEffect ==
  ASSUME Tidy(aio), fd \in Descriptors, flag \in Events, First = <<fd, flag>>
  PROVE  /\ Tidy(Taken)
         /\ Taken.enabled = aio.enabled /\ Taken.client = aio.client
         /\ \A v \in Events :
              Taken.handler[<<fd, v>>] = IF v = flag THEN "undefined" ELSE aio.handler[<<fd, v>>]
         /\ MasksElsewhere(aio, Taken, {fd})
<1> DEFINE g == SetHandlers(aio, fd, {flag}, "undefined")
<1>1. /\ aio \in Masks /\ g \in Masks /\ g.enabled = aio.enabled /\ g.watched = aio.watched
      /\ g.maxFd = aio.maxFd /\ g.client = aio.client
      /\ HandlersBecome(aio, g, {fd}, {flag}, "undefined")
  BY SetHandlersEffect DEF Tidy, Idle
<1>2. Taken = [g EXCEPT !.watched = @ \ {First}]
  BY DEF Taken, fd, flag
<1> HIDE DEF g
<1>3. /\ Taken.enabled = aio.enabled /\ Taken.client = aio.client /\ Taken.maxFd = aio.maxFd
      /\ Taken.handler = g.handler /\ Taken.watched = aio.watched \ {First}
  BY <1>1, <1>2 DEF Masks
<1>4. Taken \in Masks
  BY <1>1, <1>2, <1>3 DEF Masks
<1>5. \A c \in Descriptors, v \in Events :
        Taken.handler[<<c, v>>] = IF c = fd /\ v = flag THEN "undefined" ELSE aio.handler[<<c, v>>]
  BY <1>1, <1>3 DEF HandlersBecome
<1>6. \A e \in Descriptors, v \in Events :
        <<e, v>> \in Taken.watched <=> Taken.handler[<<e, v>>] \in Handlers
  <2> SUFFICES ASSUME NEW e \in Descriptors, NEW v \in Events
               PROVE  <<e, v>> \in Taken.watched <=> Taken.handler[<<e, v>>] \in Handlers
    OBVIOUS
  <2>1. <<e, v>> \in Taken.watched <=> <<e, v>> \in aio.watched /\ ~(e = fd /\ v = flag)
    BY <1>3
  <2>2. QED
    BY <1>5, <2>1, IdleIsNoHandler DEF Tidy
<1>7. Tidy(Taken)
  BY <1>3, <1>4, <1>6 DEF Tidy
<1>8. MasksElsewhere(aio, Taken, {fd})
  BY <1>3, <1>5 DEF MasksElsewhere
<1>9. QED
  BY <1>3, <1>5, <1>7, <1>8

LEMMA MasksElsewhereTrans ==
  ASSUME NEW m, NEW n, NEW o, NEW D, MasksElsewhere(m, n, D), MasksElsewhere(n, o, D)
  PROVE  MasksElsewhere(m, o, D)
BY DEF MasksElsewhere

-----------------------------------------------------------------------------
(* The inductive invariant                                                  *)

SocketKinds == {"idle", "listening", "connecting", "connected"}

\* A socket with a descriptor, and a server that accepted a connection for AcceptFrom.
Open(p) == p # Nil /\ p.s # NoDescriptor /\ p.sockState # "Invalid"
Offers(p) == Open(p) /\ p.sockState = "Connected" /\ p.multiListen

\* What is installed for the descriptor of a socket.
Ours(h) == h \in SocketHandlers \cup Idle

\* What a socket, the kind of its descriptor and its handlers say of each other.
Consistent(p, kind, R, W, X, enabled) ==
  /\ kind \in SocketKinds
  /\ Ours(R) /\ Ours(W) /\ Ours(X)
  /\ "conn" \in p.awaits <=> R = "acceptHandler" \/ W = "connectHandler"
  /\ "read" \in p.awaits <=> R = "dataHandler"
  /\ "write" \in p.awaits <=> W = "dataHandler"
  /\ "conn" \in p.awaits => p.sockState = "WaitingForConnection"
  /\ R # "connectHandler" /\ W # "acceptHandler"
  /\ R = "acceptHandler" \/ X = "acceptHandler" => kind = "listening"
  /\ W = "connectHandler" => kind = "connecting"
  /\ R = "dataHandler" \/ W = "dataHandler" \/ X = "dataHandler" => kind = "connected"
  /\ X = "connectHandler" => kind # "listening" /\ R # "dataHandler" /\ W # "dataHandler"
  /\ kind = "listening" => p.tcp /\ enabled
  /\ p.multiListen => kind = "listening"
  /\ kind = "connected" /\ p.sockState \in {"Connected", "OtherEndClosed"} => enabled
  /\ ~p.tcp => kind = "connected" /\ enabled /\ X # "connectHandler"

\* m is the record aio, k is kernel and q is pss.
SocketSound(p, m, k) ==
  /\ Open(p) =>
       Consistent(p, k[p.s], m.handler[<<p.s, "R">>], m.handler[<<p.s, "W">>],
                  m.handler[<<p.s, "X">>], p.s \in m.enabled)
  /\ Offers(p) =>
       /\ p.acceptedSock \in Descriptors
       /\ k[p.acceptedSock] = "connected"
       /\ p.acceptedSock \notin m.enabled
  /\ p # Nil /\ ~Open(p) => p.sockState # "Connected" /\ (p.tcp \/ p.s = NoDescriptor)

DescriptorSound(d, m, k, q) ==
  /\ \A v \in Events : m.handler[<<d, v>>] \in Handlers => d \in m.enabled
  /\ \A v \in Events : m.handler[<<d, v>>] \in SocketHandlers => k[d] \in SocketKinds
  /\ d \in m.enabled => k[d] \notin {"free", "other"}
  /\ d \in m.enabled /\ k[d] \in SocketKinds =>
       /\ m.client[d] \in Sockets
       /\ Open(q[m.client[d]])
       /\ q[m.client[d]].s = d

\* Two sockets have nothing in common.
Separate(p, r) ==
  /\ Open(p) /\ Open(r) => p.s # r.s
  /\ Open(p) /\ Offers(r) => p.s # r.acceptedSock
  /\ Offers(p) /\ Offers(r) => p.acceptedSock # r.acceptedSock

KernelType == [Descriptors -> Kinds]
SocketsType == [Sockets -> Private \cup {Nil}]

Sound(m, k, q) ==
  /\ Tidy(m) /\ k \in KernelType /\ q \in SocketsType
  /\ \A s \in Sockets : SocketSound(q[s], m, k)
  /\ \A d \in Descriptors : DescriptorSound(d, m, k, q)
  /\ \A s, t \in Sockets : s # t => Separate(q[s], q[t])
  /\ k[0] = "other"

\* Outside D, the masks and the descriptors stay what they are.
Elsewhere(m, n, k, l, D) ==
  /\ MasksElsewhere(m, n, D)
  /\ \A d \in Descriptors \ D : l[d] = k[d]

Has(p, d) == (Open(p) /\ p.s = d) \/ (Offers(p) /\ p.acceptedSock = d)

\* A step touches the sockets S and the descriptors D, which no other socket has, and leaves
\* them sound.
Local(m, n, k, l, q, r, S, D) ==
  /\ Tidy(n) /\ l \in KernelType /\ r \in SocketsType
  /\ S \in SUBSET Sockets /\ D \in SUBSET Descriptors
  /\ Elsewhere(m, n, k, l, D)
  /\ \A s \in Sockets \ S : r[s] = q[s] /\ \A d \in D : ~Has(q[s], d)
  /\ \A d \in D : k[d] # "other" /\ DescriptorSound(d, n, l, r)
  /\ \A s \in S : /\ SocketSound(r[s], n, l)
                  /\ Open(q[s]) => q[s].s \in D
                  /\ Open(r[s]) => r[s].s \in D
                  /\ Offers(r[s]) => r[s].acceptedSock \in D
  /\ \A s, t \in S : s # t => Separate(r[s], r[t])

LEMMA Frame ==
  ASSUME NEW m, NEW k, NEW q, Sound(m, k, q), NEW n, NEW l, NEW r, NEW S, NEW D,
         Local(m, n, k, l, q, r, S, D)
  PROVE  Sound(n, l, r)
<1> USE DEF Local
<1>1. k[0] = "other" /\ 0 \in Descriptors
  BY AsynchronousIOAssumption DEF Sound, Descriptors
<1>2. l[0] = "other"
  BY <1>1 DEF Elsewhere, MasksElsewhere
<1>3. ASSUME NEW s \in Sockets PROVE SocketSound(r[s], n, l)
  <2>1. CASE s \in S
    BY <2>1
  <2>2. CASE s \notin S
    <3>1. r[s] = q[s] /\ SocketSound(q[s], m, k) /\ \A d \in D : ~Has(q[s], d)
      BY <2>2 DEF Sound
    <3>2. Open(q[s]) => q[s].s \in Descriptors
      BY DEF Sound, SocketsType, Open, Private
    <3>3. Open(q[s]) =>
            LET d == q[s].s IN
            /\ l[d] = k[d] /\ (d \in n.enabled <=> d \in m.enabled)
            /\ n.handler[<<d, "R">>] = m.handler[<<d, "R">>]
            /\ n.handler[<<d, "W">>] = m.handler[<<d, "W">>]
            /\ n.handler[<<d, "X">>] = m.handler[<<d, "X">>]
      BY <3>1, <3>2 DEF Elsewhere, MasksElsewhere, Has, Events
    <3>4. Offers(q[s]) =>
            LET d == q[s].acceptedSock IN
            d \in Descriptors /\ l[d] = k[d] /\ (d \in n.enabled <=> d \in m.enabled)
      BY <3>1 DEF Elsewhere, MasksElsewhere, Has, SocketSound
    <3>5. QED
      BY <3>1, <3>3, <3>4 DEF SocketSound
  <2>3. QED
    BY <2>1, <2>2
<1>4. ASSUME NEW d \in Descriptors PROVE DescriptorSound(d, n, l, r)
  <2>1. CASE d \in D
    BY <2>1
  <2>2. CASE d \notin D
    <3>1. DescriptorSound(d, m, k, q)
      BY DEF Sound
    <3>2. /\ l[d] = k[d]
          /\ d \in n.enabled <=> d \in m.enabled
          /\ n.client[d] = m.client[d]
          /\ \A v \in Events : n.handler[<<d, v>>] = m.handler[<<d, v>>]
      BY <2>2 DEF Elsewhere, MasksElsewhere
    <3>3. \A s \in Sockets : Open(q[s]) /\ q[s].s = d => r[s] = q[s]
      BY <2>2
    <3>4. QED
      BY <3>1, <3>2, <3>3 DEF DescriptorSound
  <2>3. QED
    BY <2>1, <2>2
<1>5. ASSUME NEW s \in Sockets, NEW t \in Sockets, s # t PROVE Separate(r[s], r[t])
  <2>1. Separate(q[s], q[t])
    BY <1>5 DEF Sound
  <2>2. CASE s \in S /\ t \in S
    BY <1>5, <2>2
  <2>3. CASE s \notin S /\ t \notin S
    BY <2>1, <2>3
  <2>4. CASE s \in S /\ t \notin S
    BY <2>4 DEF Separate, Has
  <2>5. CASE s \notin S /\ t \in S
    BY <2>5 DEF Separate, Has
  <2>6. QED
    BY <2>2, <2>3, <2>4, <2>5
<1>6. QED
  BY <1>2, <1>3, <1>4, <1>5 DEF Sound

-----------------------------------------------------------------------------
(* What a step does                                                         *)

SocketsSound == Sound(aio, kernel, pss)

\* The descriptors a step touches are, and were, sockets' or nobody's.
Touches(D) ==
  /\ Elsewhere(aio, aio', kernel, kernel', D)
  /\ \A d \in D : /\ kernel[d] \in SocketKinds \cup {"free"}
                  /\ kernel'[d] \in SocketKinds \cup {"free"}

\* p becomes r, and who waits for a connection is told.
Told(p, r) ==
  p # Nil /\ r # Nil /\ "conn" \in p.awaits /\ r.sockState # p.sockState => "conn" \notin r.awaits

\* What every step that touches D keeps and does.  Closing a socket tells nobody.
Keeps(D) ==
  /\ SocketsSound' /\ Touches(D)
  /\ \A s \in Sockets : Told(pss[s], pss'[s]) \/ sqSocketCloseConnection(s)

\* s changes, and nobody but s owns its descriptor d before and after.
Changes(s, d, p) ==
  /\ Open(pss[s]) /\ d = pss[s].s
  /\ p \in Private \cup {Nil} /\ pss' = [pss EXCEPT ![s] = p]
  /\ Tidy(aio') /\ kernel' \in KernelType
  /\ kernel'[d] \in SocketKinds \cup {"free"}
  /\ Elsewhere(aio, aio', kernel, kernel', {d})
  /\ ~Offers(p)
  /\ Told(pss[s], p) \/ sqSocketCloseConnection(s)

LEMMA OursAre ==
  /\ Ours("undefined") /\ Ours("none")
  /\ Ours("acceptHandler") /\ Ours("connectHandler") /\ Ours("dataHandler")
BY DEF Ours, Idle, SocketHandlers

\* Where no handler is installed
LEMMA NothingIsOurs ==
  ASSUME NEW m, Tidy(m), NEW d \in Descriptors, NEW v \in Events,
         m.handler[<<d, v>>] \notin Handlers
  PROVE  Ours(m.handler[<<d, v>>])
BY DEF Tidy, Masks, Ours, Idle

LEMMA Vocabulary ==
  /\ Nil \notin Private /\ SocketHandlers \subseteq Handlers
  /\ \A s \in Sockets : s \in Clients /\ s # Nil
  /\ NoDescriptor \notin Descriptors
  /\ {"R", "W", "X"} \in SUBSET Events
  /\ {"R", "X"} \in SUBSET Events /\ {"W", "X"} \in SUBSET Events
  /\ {"acceptHandler", "connectHandler", "dataHandler"} \in SUBSET SocketHandlers
  /\ {"free", "idle", "listening", "connecting", "connected"} \in SUBSET Kinds
BY AsynchronousIOAssumption, SocketsAssumption
   DEF NoDescriptor, Descriptors, Events, SocketHandlers, Kinds

LEMMA OneSocket ==
  ASSUME SocketsSound, NEW s \in Sockets, NEW d, NEW p, Changes(s, d, p),
         \/ /\ Open(p) /\ p.s = d /\ SocketSound(p, aio', kernel')
            /\ \A v \in Events : aio'.handler[<<d, v>>] \in Handlers => d \in aio'.enabled
            /\ d \in aio'.enabled => aio'.client[d] = s
         \/ /\ ~Open(p)
            /\ p # Nil => p.sockState # "Connected" /\ (p.tcp \/ p.s = NoDescriptor)
            /\ \A v \in Events : aio'.handler[<<d, v>>] \notin Handlers
            /\ d \notin aio'.enabled
  PROVE  Keeps({d})
<1>1. /\ Sound(aio, kernel, pss) /\ Open(pss[s]) /\ d = pss[s].s
      /\ p \in Private \cup {Nil} /\ pss' = [pss EXCEPT ![s] = p]
      /\ Tidy(aio') /\ kernel' \in KernelType /\ ~Offers(p)
      /\ kernel'[d] \in SocketKinds \cup {"free"}
      /\ Elsewhere(aio, aio', kernel, kernel', {d})
  BY DEF Changes, SocketsSound
<1>2. d \in Descriptors /\ kernel[d] \in SocketKinds
  <2>1. d \in Descriptors
    BY <1>1 DEF Sound, SocketsType, Open, Private
  <2>2. SocketSound(pss[s], aio, kernel)
    BY <1>1 DEF Sound
  <2>3. QED
    BY <1>1, <2>1, <2>2 DEF SocketSound, Consistent
<1>3. /\ pss' \in SocketsType /\ pss'[s] = p
      /\ \A t \in Sockets : t # s => pss'[t] = pss[t]
  BY <1>1 DEF Sound, SocketsType
<1>4. \A t \in Sockets \ {s} : ~Has(pss[t], d)
  BY <1>1 DEF Sound, Separate, Has
<1>5. SocketSound(p, aio', kernel')
  BY <1>1 DEF SocketSound
<1>6. kernel[d] # "other" /\ DescriptorSound(d, aio', kernel', pss')
  <2>1. Open(p) => kernel'[d] \in SocketKinds
    BY <1>2 DEF SocketSound, Consistent
  <2>2. kernel[d] # "other"
    BY <1>2 DEF SocketKinds
  <2>3. kernel'[d] \in SocketKinds => kernel'[d] \notin {"free", "other"}
    BY DEF SocketKinds
  <2>4. QED
    BY <1>3, <2>1, <2>2, <2>3, Vocabulary DEF DescriptorSound
<1>7. SocketsSound'
  <2>1. /\ {s} \in SUBSET Sockets /\ {d} \in SUBSET Descriptors
        /\ \A t \in Sockets \ {s} : pss'[t] = pss[t] /\ \A c \in {d} : ~Has(pss[t], c)
        /\ \A c \in {d} : kernel[c] # "other" /\ DescriptorSound(c, aio', kernel', pss')
        /\ \A t, u \in {s} : t # u => Separate(pss'[t], pss'[u])
    BY <1>2, <1>3, <1>4, <1>6
  <2>2. \A t \in {s} : /\ SocketSound(pss'[t], aio', kernel')
                       /\ Open(pss[t]) => pss[t].s \in {d}
                       /\ Open(pss'[t]) => pss'[t].s \in {d}
                       /\ Offers(pss'[t]) => pss'[t].acceptedSock \in {d}
    BY <1>1, <1>3, <1>5
  <2>3. Local(aio, aio', kernel, kernel', pss, pss', {s}, {d})
    BY <1>1, <1>3, <2>1, <2>2 DEF Local
  <2>4. QED
    BY <1>1, <2>3, Frame DEF SocketsSound
<1>8. \A t \in Sockets : Told(pss[t], pss'[t]) \/ sqSocketCloseConnection(t)
  BY <1>3 DEF Told, Changes
<1>9. QED
  BY <1>1, <1>2, <1>7, <1>8 DEF Keeps, Touches

-----------------------------------------------------------------------------
(* The handlers                                                            *)

\* aioPoll comes to the events in order.
LEMMA FirstIsReady ==
  ASSUME AioTypeOK, Polling
  PROVE  /\ First \in ready /\ First = <<fd, flag>>
         /\ fd \in Descriptors /\ flag \in Events
         /\ \A e \in ready \ {First} : Before(First, e)
<1> DEFINE place == [v \in Events |-> IF v = "R" THEN 0 ELSE IF v = "W" THEN 1 ELSE 2]
           Rank(e) == 3 * e[1] + place[e[2]]
           Ranks == {Rank(e) : e \in ready}
<1>1. ready \subseteq Descriptors \X Events /\ ready # {} /\ Descriptors \subseteq Nat
  BY AsynchronousIOAssumption DEF AioTypeOK, Polling, Descriptors
<1>2. \A e \in ready : e = <<e[1], e[2]>> /\ e[1] \in Descriptors /\ e[2] \in Events
  BY <1>1
<1>3. \A e \in ready : Rank(e) \in Nat
  <2> SUFFICES ASSUME NEW e \in ready PROVE Rank(e) \in Nat
    OBVIOUS
  <2>1. e[1] \in Nat /\ place[e[2]] \in Nat
    BY <1>1, <1>2
  <2> HIDE DEF place
  <2>2. QED
    BY <2>1
<1>4. PICK e \in ready : \A f \in ready : Rank(e) <= Rank(f)
  <2>1. Ranks \in SUBSET Nat /\ Ranks # {}
    BY <1>1, <1>3
  <2>2. PICK x \in Ranks : \A y \in Ranks : x <= y
    BY <2>1, LeastNat
  <2>3. QED
    BY <2>2
<1>5. ASSUME NEW f \in ready \ {e} PROVE Before(e, f)
  <2>1. /\ e = <<e[1], e[2]>> /\ f = <<f[1], f[2]>> /\ e # f
        /\ e[1] \in Nat /\ f[1] \in Nat /\ e[2] \in Events /\ f[2] \in Events
    BY <1>1, <1>2
  <2>2. Rank(e) <= Rank(f)
    BY <1>4
  <2>3. QED
    BY <2>1, <2>2 DEF Before, Events
<1>6. First \in ready /\ \A f \in ready \ {First} : Before(First, f)
  BY <1>4, <1>5 DEF First
<1>7. QED
  BY <1>2, <1>6 DEF fd, flag

\* What aioPoll passes to a handler of sockets.
LEMMA Called ==
  ASSUME SocketsSound, AioTypeOK, NEW h \in SocketHandlers, Calls(h)
  PROVE  /\ fd \in Descriptors /\ flag \in Events /\ aio.handler[<<fd, flag>>] = h
         /\ data \in Sockets /\ data = aio.client[fd] /\ pss[data] \in Private
         /\ Open(pss[data]) /\ pss[data].s = fd
         /\ fd \in aio.enabled /\ kernel[fd] \in SocketKinds
         /\ Consistent(pss[data], kernel[fd], aio.handler[<<fd, "R">>],
                       aio.handler[<<fd, "W">>], aio.handler[<<fd, "X">>], TRUE)
         /\ Tidy(Taken)
         /\ Taken.enabled = aio.enabled /\ Taken.client = aio.client
         /\ \A v \in Events :
              Taken.handler[<<fd, v>>] = IF v = flag THEN "undefined" ELSE aio.handler[<<fd, v>>]
         /\ MasksElsewhere(aio, Taken, {fd})
<1>1. First = <<fd, flag>> /\ fd \in Descriptors /\ flag \in Events
  BY FirstIsReady DEF Calls, TakeEvent
<1>2. aio.handler[<<fd, flag>>] = h
  BY <1>1 DEF Calls
<1>3. Tidy(aio) /\ DescriptorSound(fd, aio, kernel, pss) /\ pss \in SocketsType
  BY <1>1 DEF SocketsSound, Sound
<1>4. fd \in aio.enabled /\ kernel[fd] \in SocketKinds
  BY <1>1, <1>2, <1>3, Vocabulary DEF DescriptorSound
<1>5. data \in Sockets /\ data = aio.client[fd] /\ Open(pss[data]) /\ pss[data].s = fd
  BY <1>3, <1>4 DEF DescriptorSound, data
<1>6. pss[data] \in Private
  BY <1>3, <1>5 DEF SocketsType, Open
<1>7. SocketSound(pss[data], aio, kernel)
  BY <1>5 DEF SocketsSound, Sound
<1>8. Consistent(pss[data], kernel[fd], aio.handler[<<fd, "R">>],
                 aio.handler[<<fd, "W">>], aio.handler[<<fd, "X">>], TRUE)
  BY <1>4, <1>5, <1>7 DEF SocketSound, Consistent
<1>9. QED
  BY <1>1, <1>2, <1>3, <1>4, <1>5, <1>6, <1>8, TakenEffect

\* A handler that disables and closes its descriptor, and gives the socket up as invalid.
LEMMA GivenUp ==
  ASSUME SocketsSound, AioTypeOK, Calls("acceptHandler"), NEW p \in Private,
         p.sockState = "Invalid", p.tcp = pss[data].tcp, "conn" \notin p.awaits,
         aio' = aioDisable(Taken, fd), kernel' = [kernel EXCEPT ![fd] = "free"],
         pss' = [pss EXCEPT ![data] = p]
  PROVE  Keeps({fd})
<1>1. /\ fd \in Descriptors /\ flag \in Events /\ data \in Sockets
      /\ aio.handler[<<fd, flag>>] = "acceptHandler"
      /\ Open(pss[data]) /\ pss[data].s = fd
      /\ Consistent(pss[data], kernel[fd], aio.handler[<<fd, "R">>],
                    aio.handler[<<fd, "W">>], aio.handler[<<fd, "X">>], TRUE)
      /\ Tidy(Taken) /\ MasksElsewhere(aio, Taken, {fd})
  BY Called DEF SocketHandlers
<1>2. /\ Tidy(aio') /\ MasksElsewhere(Taken, aio', {fd}) /\ fd \notin aio'.enabled
      /\ \A v \in Events : aio'.handler[<<fd, v>>] \notin Handlers
  BY <1>1, DisableEffect, IdleIsNoHandler DEF DisabledFor
<1>3. p.tcp
  BY <1>1 DEF Consistent, Events
<1>4. ~Open(p) /\ ~Offers(p) /\ Told(pss[data], p)
  BY DEF Open, Offers, Told
<1>5. /\ kernel' \in KernelType /\ kernel'[fd] = "free"
      /\ \A c \in Descriptors \ {fd} : kernel'[c] = kernel[c]
  <2>1. kernel \in KernelType /\ "free" \in Kinds
    BY Vocabulary DEF SocketsSound, Sound
  <2>2. QED
    BY <1>1, <2>1 DEF KernelType
<1>6. Elsewhere(aio, aio', kernel, kernel', {fd})
  BY <1>1, <1>2, <1>5, MasksElsewhereTrans DEF Elsewhere
<1>7. Changes(data, fd, p)
  BY <1>1, <1>2, <1>4, <1>5, <1>6 DEF Changes
<1>8. QED
  BY <1>1, <1>2, <1>3, <1>4, <1>7, OneSocket

LEMMA AcceptExceptionKeeps ==
  ASSUME SocketsSound, AioTypeOK, AcceptException
  PROVE  Keeps({fd})
<1> DEFINE p == notify([pss[data] EXCEPT !.sockState = "Invalid", !.s = NoDescriptor], "conn")
<1>1. aio' = aioDisable(Taken, fd) /\ kernel' = [kernel EXCEPT ![fd] = "free"]
      /\ pss' = [pss EXCEPT ![data] = p] /\ Calls("acceptHandler")
  BY DEF AcceptException
<1>2. p \in Private /\ p.sockState = "Invalid" /\ p.tcp = pss[data].tcp /\ "conn" \notin p.awaits
  <2>1. pss[data] \in Private
    BY <1>1, Called DEF SocketHandlers
  <2>2. QED
    BY <2>1 DEF notify, Private, States
<1> HIDE DEF p
<1>3. QED
  BY <1>1, <1>2, GivenUp

LEMMA AcceptFailedKeeps ==
  ASSUME SocketsSound, AioTypeOK, AcceptFailed
  PROVE  Keeps({fd})
<1> DEFINE p == notify([pss[data] EXCEPT !.sockState = "Invalid"], "conn")
<1>1. aio' = aioDisable(Taken, fd) /\ kernel' = [kernel EXCEPT ![fd] = "free"]
      /\ pss' = [pss EXCEPT ![data] = p] /\ Calls("acceptHandler")
  BY DEF AcceptFailed
<1>2. p \in Private /\ p.sockState = "Invalid" /\ p.tcp = pss[data].tcp /\ "conn" \notin p.awaits
  <2>1. pss[data] \in Private
    BY <1>1, Called DEF SocketHandlers
  <2>2. QED
    BY <2>1 DEF notify, Private, States
<1> HIDE DEF p
<1>3. QED
  BY <1>1, <1>2, GivenUp

LEMMA AcceptAbortedKeeps ==
  ASSUME SocketsSound, AioTypeOK, AcceptAborted
  PROVE  Keeps({fd})
<1> DEFINE p == pss[data]
<1>1. /\ fd \in Descriptors /\ data \in Sockets /\ p \in Private /\ data = aio.client[fd]
      /\ flag = "R" /\ aio.handler[<<fd, "R">>] = "acceptHandler"
      /\ Open(p) /\ p.s = fd /\ fd \in aio.enabled /\ kernel[fd] \in SocketKinds
      /\ Consistent(p, kernel[fd], aio.handler[<<fd, "R">>],
                    aio.handler[<<fd, "W">>], aio.handler[<<fd, "X">>], TRUE)
      /\ Tidy(Taken) /\ MasksElsewhere(aio, Taken, {fd})
      /\ Taken.enabled = aio.enabled /\ Taken.client = aio.client
      /\ Taken.handler[<<fd, "W">>] = aio.handler[<<fd, "W">>]
  BY Called DEF AcceptAborted, SocketHandlers, Events
<1>2. /\ Tidy(aio') /\ MasksElsewhere(Taken, aio', {fd}) /\ fd \in aio'.enabled
      /\ aio'.client[fd] = data
      /\ aio'.handler[<<fd, "R">>] = "acceptHandler" /\ aio'.handler[<<fd, "X">>] = "acceptHandler"
      /\ aio'.handler[<<fd, "W">>] = aio.handler[<<fd, "W">>]
  <2> DEFINE evs == {"R", "X"}
  <2>1. aio' = aioHandle(Taken, fd, "acceptHandler", evs)
    BY DEF AcceptAborted
  <2>2. /\ "acceptHandler" \in Handlers /\ evs \in SUBSET Events
        /\ "R" \in Events /\ "W" \in Events /\ "X" \in Events
        /\ "R" \in evs /\ "W" \notin evs /\ "X" \in evs
    BY Vocabulary
  <2> HIDE DEF evs
  <2>3. HandledBy(Taken, aio', fd, evs, "acceptHandler")
    BY <1>1, <2>1, <2>2, HandleEffect
  <2>4. QED
    BY <1>1, <2>2, <2>3 DEF HandledBy
<1>3. /\ kernel' = kernel /\ pss' = pss
  BY DEF AcceptAborted
<1>4. /\ pss' = [pss EXCEPT ![data] = p] /\ Told(pss[data], p) /\ kernel' \in KernelType
  BY <1>3 DEF SocketsSound, Sound, SocketsType, Told
<1> HIDE DEF p
<1>5. SocketSound(p, aio', kernel') /\ ~Offers(p)
  BY <1>1, <1>2, <1>3 DEF SocketSound, Consistent, Offers
<1>6. Elsewhere(aio, aio', kernel, kernel', {fd})
  BY <1>1, <1>2, <1>3, MasksElsewhereTrans DEF Elsewhere
<1>7. Changes(data, fd, p)
  BY <1>1, <1>2, <1>3, <1>4, <1>5, <1>6 DEF Changes, p
<1>8. QED
  BY <1>1, <1>2, <1>5, <1>7, OneSocket

\* p is q in another state, with other signals owed.
Becomes(p, q, state, awaits) ==
  /\ p \in Private /\ p.s = q.s /\ p.tcp = q.tcp
  /\ p.multiListen = q.multiListen /\ p.acceptedSock = q.acceptedSock
  /\ p.sockState = state /\ p.awaits = awaits

LEMMA Notified ==
  ASSUME NEW q \in Private, NEW state \in States, NEW what
  PROVE  Becomes(notify([q EXCEPT !.sockState = state], what), q, state, q.awaits \ {what})
<1> DEFINE p == [q EXCEPT !.sockState = state]
           r == [p EXCEPT !.awaits = @ \ {what}]
<1>1. p \in Private /\ Becomes(p, q, state, q.awaits)
  BY DEF Private, Becomes
<1>2. r = notify([q EXCEPT !.sockState = state], what)
  BY DEF notify
<1> HIDE DEF p
<1>3. r \in Private /\ Becomes(r, q, state, q.awaits \ {what})
  BY <1>1 DEF Private, Becomes
<1>4. QED
  BY <1>2, <1>3

LEMMA StaysOpen ==
  ASSUME NEW q, NEW p, NEW state, NEW awaits,
         Open(q), Becomes(p, q, state, awaits), state # "Invalid"
  PROVE  Open(p)
BY Vocabulary DEF Open, Becomes

LEMMA SoundWhenOpen ==
  ASSUME NEW p, NEW m, NEW k, NEW d, NEW kind, NEW R, NEW W, NEW X, NEW enabled,
         Open(p), ~Offers(p), p.s = d, k[d] = kind, enabled <=> d \in m.enabled,
         m.handler[<<d, "R">>] = R, m.handler[<<d, "W">>] = W, m.handler[<<d, "X">>] = X,
         Consistent(p, kind, R, W, X, enabled)
  PROVE  SocketSound(p, m, k)
BY DEF SocketSound, Consistent

LEMMA ConnectExceptionKeeps ==
  ASSUME SocketsSound, AioTypeOK, ConnectException
  PROVE  Keeps({fd})
<1> DEFINE p == notify([pss[data] EXCEPT !.sockState = "Unconnected"], "conn")
           kind == IF kernel[fd] = "connecting" THEN "idle" ELSE kernel[fd]
<1>1. /\ fd \in Descriptors /\ data \in Sockets /\ pss[data] \in Private
      /\ aio.handler[<<fd, "X">>] = "connectHandler"
      /\ Open(pss[data]) /\ pss[data].s = fd /\ kernel[fd] \in SocketKinds
      /\ Consistent(pss[data], kernel[fd], aio.handler[<<fd, "R">>],
                    aio.handler[<<fd, "W">>], aio.handler[<<fd, "X">>], TRUE)
      /\ Tidy(Taken) /\ MasksElsewhere(aio, Taken, {fd})
  BY Called, Vocabulary DEF ConnectException
<1>2. /\ Tidy(aio') /\ MasksElsewhere(Taken, aio', {fd}) /\ fd \notin aio'.enabled
      /\ \A v \in Events : aio'.handler[<<fd, v>>] = "none"
  <2>1. aio' = aioDisable(Taken, fd)
    BY DEF ConnectException
  <2>2. QED
    BY <1>1, <2>1, DisableEffect DEF DisabledFor
<1>3. Becomes(p, pss[data], "Unconnected", pss[data].awaits \ {"conn"}) /\ Open(p)
  <2>1. "Unconnected" \in States /\ "Unconnected" # "Invalid"
    BY DEF States
  <2>2. QED
    BY <1>1, <2>1, Notified, StaysOpen
<1>4. kind \in SocketKinds /\ kind \in Kinds /\ kind # "listening"
  BY <1>1, Vocabulary DEF SocketKinds, Consistent
<1>5. pss' = [pss EXCEPT ![data] = p] /\ kernel' = [kernel EXCEPT ![fd] = kind]
  BY DEF ConnectException
<1> HIDE DEF p, kind
<1>6. /\ kernel' \in KernelType /\ kernel'[fd] = kind
      /\ \A c \in Descriptors \ {fd} : kernel'[c] = kernel[c]
  BY <1>1, <1>4, <1>5 DEF SocketsSound, Sound, KernelType
<1>7. SocketSound(p, aio', kernel') /\ ~Offers(p) /\ Told(pss[data], p)
  BY OursAre, <1>1, <1>2, <1>3, <1>4, <1>6, Vocabulary
     DEF SocketSound, Consistent, Offers, Told, Becomes
<1>8. Elsewhere(aio, aio', kernel, kernel', {fd})
  BY <1>1, <1>2, <1>6, MasksElsewhereTrans DEF Elsewhere
<1>9. Changes(data, fd, p)
  BY <1>1, <1>2, <1>3, <1>4, <1>5, <1>6, <1>7, <1>8 DEF Changes, Becomes
<1>10. QED
  BY <1>1, <1>2, <1>3, <1>7, <1>9, OneSocket, IdleIsNoHandler DEF Becomes

LEMMA ConnectCompletedKeeps ==
  ASSUME SocketsSound, AioTypeOK, ConnectCompleted
  PROVE  Keeps({fd})
<1>1. /\ fd \in Descriptors /\ data \in Sockets /\ pss[data] \in Private
      /\ aio.handler[<<fd, "W">>] = "connectHandler"
      /\ Open(pss[data]) /\ pss[data].s = fd
      /\ fd \in aio.enabled /\ data = aio.client[fd]
      /\ Consistent(pss[data], kernel[fd], aio.handler[<<fd, "R">>],
                    aio.handler[<<fd, "W">>], aio.handler[<<fd, "X">>], TRUE)
      /\ Tidy(Taken) /\ MasksElsewhere(aio, Taken, {fd})
      /\ Taken.enabled = aio.enabled /\ Taken.client = aio.client
      /\ Taken.handler[<<fd, "R">>] = aio.handler[<<fd, "R">>]
      /\ Taken.handler[<<fd, "W">>] = "undefined"
      /\ Taken.handler[<<fd, "X">>] = aio.handler[<<fd, "X">>]
  BY Called, Vocabulary DEF ConnectCompleted
<1>2. PICK state \in {"Unconnected", "Connected"} :
        /\ aio' = Taken
        /\ kernel' = [kernel EXCEPT ![fd] = IF state = "Connected" THEN "connected" ELSE "idle"]
        /\ pss' = [pss EXCEPT ![data] = notify([@ EXCEPT !.sockState = state], "conn")]
  BY DEF ConnectCompleted
<1> DEFINE p == notify([pss[data] EXCEPT !.sockState = state], "conn")
           kind == IF state = "Connected" THEN "connected" ELSE "idle"
<1>3. Becomes(p, pss[data], state, pss[data].awaits \ {"conn"}) /\ Open(p)
  <2>1. state \in States /\ state # "Invalid"
    BY DEF States
  <2>2. QED
    BY <1>1, <2>1, Notified, StaysOpen
<1>4. kind \in SocketKinds /\ kind \in Kinds /\ kind # "listening" /\ kind # "connecting"
  BY Vocabulary DEF SocketKinds
<1>5. pss' = [pss EXCEPT ![data] = p] /\ kernel' = [kernel EXCEPT ![fd] = kind]
  BY <1>2
<1> HIDE DEF p, kind
<1>6. /\ kernel' \in KernelType /\ kernel'[fd] = kind
      /\ \A c \in Descriptors \ {fd} : kernel'[c] = kernel[c]
  BY <1>1, <1>4, <1>5 DEF SocketsSound, Sound, KernelType
<1>7. SocketSound(p, aio', kernel') /\ ~Offers(p) /\ Told(pss[data], p)
  <2> DEFINE R == aio.handler[<<fd, "R">>]
             X == aio.handler[<<fd, "X">>]
  <2>1. Consistent(pss[data], "connecting", R, "connectHandler", X, TRUE)
    BY <1>1 DEF Consistent
  <2>2. Consistent(p, kind, R, "undefined", X, TRUE) /\ ~Offers(p) /\ Told(pss[data], p)
    BY OursAre, <1>3, <1>4, <2>1 DEF Consistent, Offers, Told, Becomes
  <2>3. /\ p.s = fd /\ fd \in aio'.enabled
        /\ aio'.handler[<<fd, "R">>] = R /\ aio'.handler[<<fd, "X">>] = X
        /\ aio'.handler[<<fd, "W">>] = "undefined"
    BY <1>1, <1>2, <1>3 DEF Becomes
  <2> HIDE DEF R, X
  <2>4. QED
    BY <1>3, <1>6, <2>2, <2>3, SoundWhenOpen
<1>8. Elsewhere(aio, aio', kernel, kernel', {fd})
  BY <1>1, <1>2, <1>6 DEF Elsewhere
<1>9. Changes(data, fd, p)
  BY <1>1, <1>2, <1>3, <1>4, <1>5, <1>6, <1>7, <1>8 DEF Changes, Becomes
<1>10. QED
  BY <1>1, <1>2, <1>3, <1>7, <1>9, OneSocket DEF Becomes

LEMMA DataPossibleKeeps ==
  ASSUME SocketsSound, AioTypeOK, DataPossible
  PROVE  Keeps({fd})
<1>1. /\ fd \in Descriptors /\ flag \in Events /\ data \in Sockets /\ pss[data] \in Private
      /\ aio.handler[<<fd, flag>>] = "dataHandler"
      /\ Open(pss[data]) /\ pss[data].s = fd
      /\ fd \in aio.enabled /\ data = aio.client[fd]
      /\ Consistent(pss[data], kernel[fd], aio.handler[<<fd, "R">>],
                    aio.handler[<<fd, "W">>], aio.handler[<<fd, "X">>], TRUE)
      /\ Tidy(Taken) /\ MasksElsewhere(aio, Taken, {fd})
      /\ Taken.enabled = aio.enabled /\ Taken.client = aio.client
      /\ \A v \in Events :
           Taken.handler[<<fd, v>>] = IF v = flag THEN "undefined" ELSE aio.handler[<<fd, v>>]
  BY Called, Vocabulary DEF DataPossible
<1>2. PICK closed \in {c \in BOOLEAN : c => flag = "R"} :
        pss' = IF data = Nil \/ flag = "X" THEN pss
               ELSE [pss EXCEPT ![data] = notify(Peeked(@, closed), Signals)]
  BY DEF DataPossible
<1>3. aio' = Taken /\ kernel' = kernel /\ kernel' \in KernelType
  BY DEF DataPossible, SocketsSound, Sound
<1> DEFINE state == IF closed THEN "OtherEndClosed" ELSE pss[data].sockState
           p == IF flag = "X" THEN pss[data]
                ELSE notify(Peeked(pss[data], closed), Signals)
<1>4. pss' = [pss EXCEPT ![data] = p]
  <2>1. data # Nil /\ pss = [pss EXCEPT ![data] = pss[data]]
    BY <1>1, Vocabulary DEF SocketsSound, Sound, SocketsType
  <2>2. CASE flag = "X"
    <3>1. p = pss[data] /\ pss' = pss
      BY <1>2, <2>2
    <3> HIDE DEF p
    <3>2. QED
      BY <2>1, <3>1
  <2>3. CASE flag # "X"
    BY <1>2, <2>1, <2>3
  <2>4. QED
    BY <2>2, <2>3
<1>5. state \in States /\ (state # pss[data].sockState => state = "OtherEndClosed" /\ flag = "R")
  BY <1>1, <1>2 DEF Private, States
<1>6. state # "Invalid"
  BY <1>1, <1>5 DEF Open
<1> HIDE DEF state
<1>7. Becomes(p, pss[data], IF flag = "X" THEN pss[data].sockState ELSE state,
              IF flag = "X" THEN pss[data].awaits ELSE pss[data].awaits \ {Signals})
  <2>1. CASE flag = "X"
    BY <1>1, <2>1 DEF Becomes
  <2>2. CASE flag # "X"
    <3>1. CASE closed
      <4>1. p = notify([pss[data] EXCEPT !.sockState = state], Signals)
        BY <2>2, <3>1 DEF Peeked, state
      <4>2. QED
        BY <1>1, <1>5, <2>2, <4>1, Notified
    <3>2. CASE ~closed
      <4>1. p = notify(pss[data], Signals) /\ state = pss[data].sockState
        BY <2>2, <3>2 DEF Peeked, state
      <4>2. QED
        BY <1>1, <2>2, <4>1 DEF notify, Becomes, Private
    <3>3. QED
      BY <3>1, <3>2
  <2>3. QED
    BY <2>1, <2>2
<1>8. Open(p)
  BY <1>1, <1>6, <1>7, StaysOpen DEF Open
<1> HIDE DEF p
<1>9. flag # "X" => kernel[fd] = "connected" /\ "conn" \notin pss[data].awaits
  BY <1>1 DEF Consistent, Events
<1>10. Told(pss[data], p)
  BY <1>5, <1>7, <1>9 DEF Told, Becomes
<1>11. SocketSound(p, aio', kernel') /\ ~Offers(p)
  <2> DEFINE R == aio.handler[<<fd, "R">>]
             W == aio.handler[<<fd, "W">>]
             X == aio.handler[<<fd, "X">>]
             Left(v, h) == IF v = flag THEN "undefined" ELSE h
  <2>1. Consistent(pss[data], kernel[fd], R, W, X, TRUE)
    BY <1>1
  <2>2. Consistent(p, kernel[fd], Left("R", R), Left("W", W), Left("X", X), TRUE) /\ ~Offers(p)
    <3>1. CASE flag = "X"
      <4>1. p.awaits = pss[data].awaits /\ p.sockState = pss[data].sockState /\ X = "dataHandler"
            /\ p.tcp = pss[data].tcp /\ p.multiListen = pss[data].multiListen
        BY <1>1, <1>7, <3>1 DEF Becomes
      <4>2. Left("R", R) = R /\ Left("W", W) = W /\ Left("X", X) = "undefined"
        BY <3>1
      <4> HIDE DEF R, W, X, Left
      <4>3. QED
        BY OursAre, <2>1, <4>1, <4>2 DEF Consistent, Offers
    <3>2. CASE flag = "R"
      <4>1. p.awaits = pss[data].awaits \ {"read"} /\ R = "dataHandler"
        BY <1>1, <1>7, <3>2 DEF Becomes, Signals
      <4>2. Left("R", R) = "undefined" /\ Left("W", W) = W /\ Left("X", X) = X
        BY <3>2
      <4>3. p.tcp = pss[data].tcp /\ ~pss[data].multiListen /\ ~p.multiListen
        BY <1>7, <1>9, <2>1, <3>2 DEF Becomes, Consistent
      <4> HIDE DEF R, W, X, Left
      <4>4. QED
        BY OursAre, <1>9, <2>1, <3>2, <4>1, <4>2, <4>3 DEF Consistent, Offers
    <3>3. CASE flag = "W"
      BY OursAre, <1>1, <1>5, <1>7, <1>9, <2>1, <3>3 DEF Consistent, Offers, Becomes, Signals
    <3>4. QED
      BY <1>1, <3>1, <3>2, <3>3 DEF Events
  <2>3. /\ p.s = fd /\ fd \in aio'.enabled
        /\ aio'.handler[<<fd, "R">>] = Left("R", R)
        /\ aio'.handler[<<fd, "W">>] = Left("W", W)
        /\ aio'.handler[<<fd, "X">>] = Left("X", X)
    BY <1>1, <1>3, <1>7, Vocabulary DEF Becomes
  <2> HIDE DEF Left, R, W, X
  <2>4. QED
    BY <1>3, <1>8, <2>2, <2>3, SoundWhenOpen
<1>12. Elsewhere(aio, aio', kernel, kernel', {fd})
  BY <1>1, <1>3 DEF Elsewhere
<1>13. Changes(data, fd, p)
  BY <1>1, <1>3, <1>4, <1>7, <1>10, <1>11, <1>12 DEF Changes, Consistent, Becomes
<1>14. QED
  BY <1>1, <1>3, <1>7, <1>8, <1>11, <1>13, OneSocket DEF Becomes

\* A descriptor that is free is nobody's.
LEMMA FreeIsNobodys ==
  ASSUME SocketsSound, NEW d \in Descriptors, kernel[d] = "free"
  PROVE  /\ \A s \in Sockets : ~Has(pss[s], d)
         /\ d \notin aio.enabled
         /\ \A v \in Events : aio.handler[<<d, v>>] \notin Handlers
<1>1. DescriptorSound(d, aio, kernel, pss)
  BY DEF SocketsSound, Sound
<1>2. ASSUME NEW s \in Sockets PROVE ~Has(pss[s], d)
  <2>1. SocketSound(pss[s], aio, kernel)
    BY DEF SocketsSound, Sound
  <2>2. QED
    BY <2>1 DEF SocketSound, Consistent, SocketKinds, Has
<1>3. QED
  BY <1>1, <1>2 DEF DescriptorSound

LEMMA NewIsFree ==
  ASSUME FreeDescriptors # {}
  PROVE  NewDescriptor \in Descriptors /\ kernel[NewDescriptor] = "free"
BY LeastDescriptor DEF FreeDescriptors, NewDescriptor

LEMMA AcceptedMultiKeeps ==
  ASSUME SocketsSound, AioTypeOK, AcceptedMulti
  PROVE  Keeps({fd, NewDescriptor})
<1> DEFINE new == NewDescriptor
           q == pss[data]
           p == notify([q EXCEPT !.sockState = "Connected", !.acceptedSock = new], "conn")
           W == aio.handler[<<fd, "W">>]
           X == aio.handler[<<fd, "X">>]
<1>1. /\ fd \in Descriptors /\ data \in Sockets /\ q \in Private
      /\ Open(q) /\ q.s = fd /\ q.multiListen /\ kernel[fd] \in SocketKinds
      /\ fd \in aio.enabled /\ data = aio.client[fd]
      /\ Consistent(q, kernel[fd], "acceptHandler", W, X, TRUE)
      /\ Tidy(Taken) /\ MasksElsewhere(aio, Taken, {fd})
      /\ Taken.enabled = aio.enabled /\ Taken.client = aio.client
      /\ Taken.handler[<<fd, "R">>] = "undefined"
      /\ Taken.handler[<<fd, "W">>] = W
      /\ Taken.handler[<<fd, "X">>] = X
  BY Called, Vocabulary DEF AcceptedMulti
<1>2. /\ aio' = Taken /\ kernel' = [kernel EXCEPT ![new] = "connected"]
      /\ pss' = [pss EXCEPT ![data] = p] /\ FreeDescriptors # {}
  BY DEF AcceptedMulti
<1>3. /\ new \in Descriptors /\ kernel[new] = "free" /\ new # fd
      /\ new \notin aio.enabled
      /\ \A v \in Events : aio.handler[<<new, v>>] \notin Handlers
      /\ \A s \in Sockets : ~Has(pss[s], new)
  BY <1>1, <1>2, NewIsFree, FreeIsNobodys DEF SocketKinds
<1>4. /\ p \in Private /\ p.s = fd /\ p.tcp = q.tcp /\ p.multiListen /\ p.acceptedSock = new
      /\ p.sockState = "Connected" /\ p.awaits = q.awaits \ {"conn"}
  <2> DEFINE r == [q EXCEPT !.sockState = "Connected", !.acceptedSock = new]
  <2>1. /\ r \in Private /\ r.s = fd /\ r.tcp = q.tcp /\ r.multiListen /\ r.acceptedSock = new
        /\ r.sockState = "Connected" /\ r.awaits = q.awaits
    BY <1>1, <1>3 DEF Private, States
  <2>2. p = [r EXCEPT !.awaits = @ \ {"conn"}]
    BY DEF notify
  <2> HIDE DEF p, r
  <2>3. QED
    BY <2>1, <2>2 DEF Private
<1>5. Open(p) /\ Offers(p)
  BY <1>1, <1>4, Vocabulary DEF Open, Offers
<1> HIDE DEF p, W, X
<1>6. /\ pss' \in SocketsType /\ pss'[data] = p
      /\ \A s \in Sockets : s # data => pss'[s] = pss[s]
  BY <1>1, <1>2, <1>4 DEF SocketsSound, Sound, SocketsType
<1>7. /\ kernel' \in KernelType /\ kernel'[new] = "connected" /\ kernel'[fd] = kernel[fd]
      /\ \A d \in Descriptors \ {fd, new} : kernel'[d] = kernel[d]
  BY <1>1, <1>2, <1>3, Vocabulary DEF SocketsSound, Sound, KernelType
<1>8. SocketSound(p, aio', kernel') /\ Told(q, p)
  <2>1. Consistent(p, kernel[fd], "undefined", W, X, TRUE) /\ Told(q, p)
    BY OursAre, <1>1, <1>4 DEF Consistent, Told
  <2>2. QED
    BY <1>1, <1>2, <1>3, <1>4, <1>5, <1>7, <2>1 DEF SocketSound, Consistent
<1>9. Elsewhere(aio, aio', kernel, kernel', {fd, new})
  BY <1>1, <1>2, <1>7 DEF Elsewhere, MasksElsewhere
<1>10. /\ DescriptorSound(fd, aio', kernel', pss')
       /\ DescriptorSound(new, aio', kernel', pss')
  <2>1. kernel[fd] \notin {"free", "other"}
    BY <1>1 DEF SocketKinds
  <2>2. /\ aio'.enabled = aio.enabled /\ aio'.client[fd] = data
        /\ \A v \in Events : aio'.handler[<<new, v>>] \notin Handlers
    BY <1>1, <1>2, <1>3 DEF MasksElsewhere
  <2>3. QED
    BY <1>1, <1>3, <1>4, <1>5, <1>6, <1>7, <2>1, <2>2, Vocabulary DEF DescriptorSound
<1>11. \A s \in Sockets \ {data} : pss'[s] = pss[s] /\ \A d \in {fd, new} : ~Has(pss[s], d)
  <2>1. \A s \in Sockets \ {data} : ~Has(pss[s], fd)
    BY <1>1 DEF SocketsSound, Sound, Separate, Has
  <2>2. QED
    BY <1>3, <1>6, <2>1
<1>12. Local(aio, aio', kernel, kernel', pss, pss', {data}, {fd, new})
  BY <1>1, <1>2, <1>3, <1>4, <1>6, <1>7, <1>8, <1>9, <1>10, <1>11 DEF Local, SocketKinds
<1>13. SocketsSound'
  BY <1>12, Frame DEF SocketsSound
<1>14. \A s \in Sockets : Told(pss[s], pss'[s])
  BY <1>6, <1>8 DEF Told
<1>15. QED
  BY <1>1, <1>3, <1>7, <1>9, <1>13, <1>14 DEF Keeps, Touches, SocketKinds

LEMMA DescriptorOfNobody ==
  ASSUME NEW m, NEW k, NEW q, NEW d, d \notin m.enabled,
         \A v \in Events : m.handler[<<d, v>>] \notin Handlers
  PROVE  DescriptorSound(d, m, k, q)
BY Vocabulary DEF DescriptorSound

LEMMA DescriptorOfSocket ==
  ASSUME NEW m, NEW k, NEW q, NEW d, NEW s \in Sockets, d \in m.enabled, m.client[d] = s,
         k[d] \in SocketKinds, Open(q[s]), q[s].s = d
  PROVE  DescriptorSound(d, m, k, q)
BY DEF DescriptorSound, SocketKinds

LEMMA AcceptedInPlaceKeeps ==
  ASSUME SocketsSound, AioTypeOK, AcceptedInPlace
  PROVE  Keeps({fd, NewDescriptor})
<1> DEFINE new == NewDescriptor
           q == pss[data]
           p == notify([q EXCEPT !.sockState = "Connected", !.s = new], "conn")
           left == aioDisable(Taken, fd)
<1>1. /\ fd \in Descriptors /\ data \in Sockets /\ q \in Private
      /\ Open(q) /\ q.s = fd /\ ~q.multiListen /\ kernel[fd] \in SocketKinds
      /\ Consistent(q, kernel[fd], "acceptHandler", aio.handler[<<fd, "W">>],
                    aio.handler[<<fd, "X">>], TRUE)
      /\ Tidy(Taken) /\ MasksElsewhere(aio, Taken, {fd})
      /\ Taken.enabled = aio.enabled
  BY Called, Vocabulary DEF AcceptedInPlace
<1>2. /\ aio' = aioEnable(left, new, data)
      /\ kernel' = [kernel EXCEPT ![fd] = "free", ![new] = "connected"]
      /\ pss' = [pss EXCEPT ![data] = p] /\ FreeDescriptors # {}
  BY DEF AcceptedInPlace
<1>3. /\ new \in Descriptors /\ kernel[new] = "free" /\ new # fd
      /\ new \notin aio.enabled
      /\ \A s \in Sockets : ~Has(pss[s], new)
  BY <1>1, <1>2, NewIsFree, FreeIsNobodys DEF SocketKinds
<1>4. DisabledFor(Taken, left, {fd})
  BY <1>1, DisableEffect
<1>5. EnabledFor(left, aio', new, data)
  BY <1>1, <1>2, <1>3, <1>4, EnableEffect, Vocabulary DEF DisabledFor
<1> HIDE DEF left, new
<1>6. /\ Tidy(aio') /\ MasksElsewhere(aio, aio', {fd, new})
      /\ fd \notin aio'.enabled /\ \A v \in Events : aio'.handler[<<fd, v>>] = "none"
      /\ new \in aio'.enabled /\ aio'.client[new] = data
      /\ \A v \in Events : aio'.handler[<<new, v>>] = "undefined"
  <2>1. new \notin left.enabled
    BY <1>1, <1>3, <1>4 DEF DisabledFor
  <2>2. /\ fd \notin left.enabled /\ \A v \in Events : left.handler[<<fd, v>>] = "none"
        /\ MasksElsewhere(Taken, left, {fd})
    BY <1>4 DEF DisabledFor
  <2>3. MasksElsewhere(left, aio', {new})
    BY <1>5 DEF EnabledFor
  <2>4. fd \notin aio'.enabled /\ \A v \in Events : aio'.handler[<<fd, v>>] = "none"
    BY <1>1, <1>3, <2>2, <2>3 DEF MasksElsewhere
  <2>5. MasksElsewhere(aio, aio', {fd, new})
    BY <1>1, <2>2, <2>3 DEF MasksElsewhere
  <2>6. QED
    BY <1>5, <2>1, <2>4, <2>5 DEF EnabledFor
<1>7. /\ p \in Private /\ p.s = new /\ p.tcp = q.tcp /\ ~p.multiListen
      /\ p.sockState = "Connected" /\ p.awaits = q.awaits \ {"conn"}
  <2> DEFINE r == [q EXCEPT !.sockState = "Connected", !.s = new]
  <2>1. /\ r \in Private /\ r.s = new /\ r.tcp = q.tcp /\ ~r.multiListen
        /\ r.sockState = "Connected" /\ r.awaits = q.awaits
    BY <1>1, <1>3 DEF Private, States
  <2>2. p = [r EXCEPT !.awaits = @ \ {"conn"}]
    BY DEF notify
  <2> HIDE DEF p, r
  <2>3. QED
    BY <2>1, <2>2 DEF Private
<1>8. Open(p) /\ ~Offers(p)
  BY <1>3, <1>7, Vocabulary DEF Open, Offers
<1> HIDE DEF p
<1>9. /\ pss' \in SocketsType /\ pss'[data] = p
      /\ \A s \in Sockets : s # data => pss'[s] = pss[s]
  BY <1>1, <1>2, <1>7 DEF SocketsSound, Sound, SocketsType
<1>10. /\ kernel' \in KernelType /\ kernel'[new] = "connected" /\ kernel'[fd] = "free"
       /\ \A d \in Descriptors \ {fd, new} : kernel'[d] = kernel[d]
  <2>1. kernel \in KernelType /\ "free" \in Kinds /\ "connected" \in Kinds
    BY Vocabulary DEF SocketsSound, Sound
  <2>2. QED
    BY <1>1, <1>2, <1>3, <2>1 DEF KernelType
<1>11. SocketSound(p, aio', kernel') /\ Told(q, p)
  <2>1. kernel[fd] = "listening" /\ q.tcp
    BY <1>1 DEF Consistent
  <2>2. "read" \notin q.awaits /\ "write" \notin q.awaits
    BY <1>1, <2>1 DEF Consistent
  <2>3. Consistent(p, "connected", "undefined", "undefined", "undefined", TRUE) /\ Told(q, p)
    BY OursAre, <1>7, <2>1, <2>2 DEF Consistent, Told, SocketKinds
  <2>4. /\ "R" \in Events /\ "W" \in Events /\ "X" \in Events
    BY Vocabulary
  <2>5. QED
    BY <1>6, <1>7, <1>8, <1>10, <2>3, <2>4, SoundWhenOpen
<1>12. Elsewhere(aio, aio', kernel, kernel', {fd, new})
  BY <1>6, <1>10 DEF Elsewhere
<1>13. /\ DescriptorSound(fd, aio', kernel', pss')
       /\ DescriptorSound(new, aio', kernel', pss')
  <2>1. DescriptorSound(fd, aio', kernel', pss')
    BY <1>6, DescriptorOfNobody, IdleIsNoHandler
  <2>2. "connected" \in SocketKinds
    BY DEF SocketKinds
  <2>3. DescriptorSound(new, aio', kernel', pss')
    BY <1>1, <1>6, <1>7, <1>8, <1>9, <1>10, <2>2, DescriptorOfSocket
  <2>4. QED
    BY <2>1, <2>3
<1>14. \A s \in Sockets \ {data} : pss'[s] = pss[s] /\ \A d \in {fd, new} : ~Has(pss[s], d)
  <2>1. \A s \in Sockets \ {data} : ~Has(pss[s], fd)
    BY <1>1 DEF SocketsSound, Sound, Separate, Has
  <2>2. QED
    BY <1>3, <1>9, <2>1
<1>15. Local(aio, aio', kernel, kernel', pss, pss', {data}, {fd, new})
  BY <1>1, <1>3, <1>6, <1>7, <1>8, <1>9, <1>10, <1>11, <1>12, <1>13, <1>14
     DEF Local, SocketKinds
<1>16. SocketsSound'
  BY <1>15, Frame DEF SocketsSound
<1>17. \A s \in Sockets : Told(pss[s], pss'[s])
  BY <1>9, <1>11 DEF Told
<1>18. QED
  BY <1>1, <1>3, <1>10, <1>12, <1>16, <1>17 DEF Keeps, Touches, SocketKinds, new

-----------------------------------------------------------------------------
(* The primitives                                                          *)

\* What a primitive finds.
LEMMA Asked ==
  ASSUME SocketsSound, NEW s \in Sockets, Open(pss[s])
  PROVE  LET p == pss[s]
             d == p.s
         IN /\ p \in Private /\ d \in Descriptors /\ kernel[d] \in SocketKinds
            /\ Tidy(aio)
            /\ Consistent(p, kernel[d], aio.handler[<<d, "R">>], aio.handler[<<d, "W">>],
                          aio.handler[<<d, "X">>], d \in aio.enabled)
            /\ d \in aio.enabled => aio.client[d] = s
            /\ \A v \in Events : aio.handler[<<d, v>>] \in Handlers => d \in aio.enabled
<1> DEFINE p == pss[s]
           d == p.s
<1>1. p \in Private /\ d \in Descriptors /\ Tidy(aio)
  BY DEF SocketsSound, Sound, SocketsType, Private, Open
<1>2. SocketSound(p, aio, kernel) /\ DescriptorSound(d, aio, kernel, pss)
  BY <1>1 DEF SocketsSound, Sound
<1>3. kernel[d] \in SocketKinds
  BY <1>2 DEF SocketSound, Consistent
<1>4. ASSUME d \in aio.enabled PROVE aio.client[d] = s
  <2>1. aio.client[d] \in Sockets /\ Open(pss[aio.client[d]]) /\ pss[aio.client[d]].s = d
    BY <1>2, <1>3, <1>4 DEF DescriptorSound
  <2>2. QED
    BY <2>1 DEF SocketsSound, Sound, Separate
<1>5. QED
  BY <1>1, <1>2, <1>3, <1>4 DEF SocketSound, DescriptorSound

LEMMA ListenKeeps ==
  ASSUME SocketsSound, NEW s \in Sockets, NEW multi \in BOOLEAN, sqSocketListenOnPort(s, multi)
  PROVE  Keeps({pss[s].s})
<1> DEFINE q == pss[s]
           d == q.s
           p == [q EXCEPT !.sockState = "WaitingForConnection", !.multiListen = multi,
                          !.awaits = {"conn"}]
           on == aioEnable(aio, d, s)
           evs == {"R", "X"}
           W == aio'.handler[<<d, "W">>]
<1>1. /\ q # Nil /\ q.tcp /\ q.sockState = "Unconnected" /\ d # NoDescriptor
      /\ kernel[d] = "idle" /\ kernel' = [kernel EXCEPT ![d] = "listening"]
      /\ aio' = aioHandle(on, d, "acceptHandler", evs)
  BY DEF sqSocketListenOnPort, Fresh, socketValid
<1>2. Open(q)
  BY <1>1 DEF Open
<1>3. /\ q \in Private /\ d \in Descriptors /\ Tidy(aio) /\ pss \in SocketsType
      /\ Consistent(q, "idle", aio.handler[<<d, "R">>], aio.handler[<<d, "W">>],
                    aio.handler[<<d, "X">>], d \in aio.enabled)
      /\ d \in aio.enabled => aio.client[d] = s
  BY <1>1, <1>2, Asked DEF SocketsSound, Sound
<1>4. pss' = [pss EXCEPT ![s] = p]
  BY <1>3 DEF sqSocketListenOnPort, SocketsType
<1>5. EnabledFor(aio, on, d, s)
  BY <1>3, EnableEffect, Vocabulary
<1>6. /\ "acceptHandler" \in Handlers /\ evs \in SUBSET Events
      /\ "R" \in Events /\ "W" \in Events /\ "X" \in Events
      /\ "R" \in evs /\ "W" \notin evs /\ "X" \in evs
  BY Vocabulary
<1> HIDE DEF evs, on
<1>7. HandledBy(on, aio', d, evs, "acceptHandler")
  BY <1>1, <1>3, <1>5, <1>6, HandleEffect DEF EnabledFor
<1>8. /\ Tidy(aio') /\ MasksElsewhere(aio, aio', {d})
      /\ d \in aio'.enabled /\ aio'.client[d] = s
      /\ aio'.handler[<<d, "R">>] = "acceptHandler"
      /\ aio'.handler[<<d, "X">>] = "acceptHandler"
      /\ W \in {aio.handler[<<d, "W">>], "undefined"}
  BY <1>3, <1>5, <1>6, <1>7, MasksElsewhereTrans DEF EnabledFor, HandledBy
<1>9. Becomes(p, [q EXCEPT !.multiListen = multi], "WaitingForConnection", {"conn"})
  BY <1>3 DEF Becomes, Private, States
<1>10. Open(p) /\ ~Offers(p) /\ p.s = d /\ p.tcp
  BY <1>1, <1>3, <1>9, Vocabulary DEF Becomes, Open, Offers, Private
<1> HIDE DEF p, W
<1>11. Consistent(p, "listening", "acceptHandler", W, "acceptHandler", TRUE)
  BY OursAre, <1>3, <1>8, <1>9, <1>10 DEF Consistent, Becomes, SocketKinds
<1>12. /\ kernel' \in KernelType /\ kernel'[d] = "listening"
       /\ \A c \in Descriptors \ {d} : kernel'[c] = kernel[c]
  <2>1. kernel \in KernelType /\ "listening" \in Kinds
    BY Vocabulary DEF SocketsSound, Sound
  <2>2. QED
    BY <1>1, <1>3, <2>1 DEF KernelType
<1>13. SocketSound(p, aio', kernel')
  BY <1>8, <1>10, <1>11, <1>12, SoundWhenOpen DEF W
<1>14. Told(q, p)
  BY <1>1, <1>3 DEF Told, Consistent
<1>15. Elsewhere(aio, aio', kernel, kernel', {d})
  BY <1>8, <1>12 DEF Elsewhere
<1>16. Changes(s, d, p)
  BY <1>2, <1>4, <1>8, <1>9, <1>10, <1>12, <1>14, <1>15 DEF Changes, Becomes, SocketKinds
<1>17. QED
  BY <1>8, <1>10, <1>13, <1>16, OneSocket

\* A primitive that leaves its socket open.
LEMMA StillOpen ==
  ASSUME SocketsSound, NEW s \in Sockets, Open(pss[s]), NEW d, d = pss[s].s,
         NEW p \in Private, NEW kind, pss' = [pss EXCEPT ![s] = p],
         kernel' = [kernel EXCEPT ![d] = kind],
         Tidy(aio'), MasksElsewhere(aio, aio', {d}),
         d \in aio'.enabled => aio'.client[d] = s,
         \A v \in Events : aio'.handler[<<d, v>>] \in Handlers => d \in aio'.enabled,
         p.s = d, Open(p), ~Offers(p), Told(pss[s], p),
         Consistent(p, kind, aio'.handler[<<d, "R">>], aio'.handler[<<d, "W">>],
                    aio'.handler[<<d, "X">>], d \in aio'.enabled)
  PROVE  Keeps({d})
<1>1. d \in Descriptors /\ kernel \in KernelType /\ kind \in SocketKinds /\ kind \in Kinds
  BY Asked, Vocabulary DEF SocketsSound, Sound, Consistent, SocketKinds
<1>2. /\ kernel' \in KernelType /\ kernel'[d] = kind
      /\ \A c \in Descriptors \ {d} : kernel'[c] = kernel[c]
  BY <1>1 DEF KernelType
<1>3. SocketSound(p, aio', kernel')
  BY <1>2 DEF SocketSound, Consistent
<1>4. Elsewhere(aio, aio', kernel, kernel', {d})
  BY <1>2 DEF Elsewhere
<1>5. Changes(s, d, p)
  BY <1>1, <1>2, <1>4 DEF Changes
<1>6. QED
  BY <1>3, <1>5, OneSocket

LEMMA ConnectKeeps ==
  ASSUME SocketsSound, NEW s \in Sockets, sqSocketConnectToPort(s)
  PROVE  Keeps({pss[s].s})
<1> DEFINE q == pss[s]
           d == q.s
           on == aioEnable(aio, d, s)
           R == aio.handler[<<d, "R">>]
           W == aio.handler[<<d, "W">>]
           X == aio.handler[<<d, "X">>]
<1>1. /\ q # Nil /\ q.tcp /\ q.sockState = "Unconnected" /\ d # NoDescriptor
      /\ kernel[d] = "idle"
  BY DEF sqSocketConnectToPort, Fresh, socketValid
<1>2. Open(q)
  BY <1>1 DEF Open
<1>3. /\ q \in Private /\ d \in Descriptors /\ Tidy(aio) /\ pss \in SocketsType
      /\ kernel \in KernelType
      /\ Consistent(q, "idle", R, W, X, d \in aio.enabled)
      /\ d \in aio.enabled => aio.client[d] = s
  BY <1>1, <1>2, Asked DEF SocketsSound, Sound
<1>4. EnabledFor(aio, on, d, s)
  BY <1>3, EnableEffect, Vocabulary
<1> HIDE DEF on
<1>5. /\ Tidy(on) /\ MasksElsewhere(aio, on, {d}) /\ d \in on.enabled /\ on.client[d] = s
      /\ on.handler[<<d, "R">>] \in {R, "undefined"}
      /\ on.handler[<<d, "W">>] \in {W, "undefined"}
      /\ on.handler[<<d, "X">>] \in {X, "undefined"}
  BY <1>3, <1>4, Vocabulary DEF EnabledFor
<1>6. CASE kernel' = [kernel EXCEPT ![d] = "connected"] /\ aio' = on
           /\ pss' = [pss EXCEPT ![s].sockState = "Connected"]
  <2> DEFINE p == [q EXCEPT !.sockState = "Connected"]
  <2>1. pss' = [pss EXCEPT ![s] = p]
    BY <1>3, <1>6 DEF SocketsType
  <2>2. Becomes(p, q, "Connected", q.awaits)
    BY <1>3 DEF Becomes, Private, States
  <2> HIDE DEF p
  <2>3. Open(p) /\ p.s = d /\ p \in Private
    BY <1>2, <2>2, StaysOpen DEF Becomes
  <2>4. ~p.multiListen /\ ~Offers(p) /\ Told(q, p)
    BY <1>1, <1>3, <2>2 DEF Becomes, Consistent, Offers, Told
  <2>5. Consistent(p, "connected", on.handler[<<d, "R">>], on.handler[<<d, "W">>],
                   on.handler[<<d, "X">>], d \in on.enabled)
    <3>1. p.tcp /\ p.sockState = "Connected" /\ p.awaits = q.awaits
      BY <1>1, <2>2 DEF Becomes
    <3>2. \A what \in {"conn", "read", "write"} : what \notin p.awaits
      BY <1>3, <3>1 DEF Consistent
    <3>3. /\ on.handler[<<d, "R">>] \notin SocketHandlers
          /\ on.handler[<<d, "W">>] \notin SocketHandlers
          /\ on.handler[<<d, "X">>] \notin {"acceptHandler", "dataHandler"}
      <4>1. /\ R \notin SocketHandlers /\ W \notin SocketHandlers
            /\ X \notin {"acceptHandler", "dataHandler"}
        BY <1>3 DEF Consistent, SocketHandlers
      <4>2. "undefined" \notin SocketHandlers
        BY DEF SocketHandlers
      <4>3. QED
        BY <1>5, <4>1, <4>2
    <3>4. QED
      <4>1. /\ Ours(on.handler[<<d, "R">>]) /\ Ours(on.handler[<<d, "W">>])
            /\ Ours(on.handler[<<d, "X">>])
        BY <1>3, <1>5, OursAre DEF Consistent
      <4>2. QED
        BY <1>5, <2>4, <3>1, <3>2, <3>3, <4>1 DEF Consistent, SocketKinds, SocketHandlers
  <2>6. QED
    BY <1>2, <1>5, <1>6, <2>1, <2>3, <2>4, <2>5, StillOpen
<1>7. CASE /\ kernel' = [kernel EXCEPT ![d] = "connecting"]
           /\ aio' = aioHandle(on, d, "connectHandler", {"W", "X"})
           /\ pss' = [pss EXCEPT ![s].sockState = "WaitingForConnection",
                                 ![s].awaits = {"conn"}]
  <2> DEFINE p == [q EXCEPT !.sockState = "WaitingForConnection", !.awaits = {"conn"}]
             evs == {"W", "X"}
  <2>1. pss' = [pss EXCEPT ![s] = p]
    BY <1>3, <1>7 DEF SocketsType
  <2>2. Becomes(p, q, "WaitingForConnection", {"conn"})
    BY <1>3 DEF Becomes, Private, States
  <2> HIDE DEF p
  <2>3. Open(p) /\ p.s = d /\ p \in Private
    BY <1>2, <2>2, StaysOpen DEF Becomes
  <2>4. /\ "connectHandler" \in Handlers /\ evs \in SUBSET Events
        /\ "R" \in Events /\ "W" \in Events /\ "X" \in Events
        /\ "R" \notin evs /\ "W" \in evs /\ "X" \in evs
    BY Vocabulary
  <2>5. aio' = aioHandle(on, d, "connectHandler", evs)
    BY <1>7
  <2> HIDE DEF evs
  <2>6. HandledBy(on, aio', d, evs, "connectHandler")
    BY <1>3, <1>5, <2>4, <2>5, HandleEffect
  <2>7. /\ Tidy(aio') /\ MasksElsewhere(aio, aio', {d})
        /\ d \in aio'.enabled /\ aio'.client[d] = s
        /\ aio'.handler[<<d, "R">>] \in {R, "undefined"}
        /\ aio'.handler[<<d, "W">>] = "connectHandler"
        /\ aio'.handler[<<d, "X">>] = "connectHandler"
    BY <1>5, <2>4, <2>6, MasksElsewhereTrans DEF HandledBy
  <2>8. ~p.multiListen /\ ~Offers(p) /\ Told(q, p)
    BY <1>1, <1>3, <2>2 DEF Becomes, Consistent, Offers, Told
  <2>9. Consistent(p, "connecting", aio'.handler[<<d, "R">>], aio'.handler[<<d, "W">>],
                   aio'.handler[<<d, "X">>], d \in aio'.enabled)
    BY OursAre, <1>1, <1>3, <2>2, <2>7, <2>8 DEF Consistent, Becomes, SocketKinds
  <2>10. QED
    BY <1>2, <1>7, <2>1, <2>3, <2>7, <2>8, <2>9, StillOpen
<1>8. CASE aio' = on /\ UNCHANGED <<kernel, pss>>
  <2>1. pss' = [pss EXCEPT ![s] = q] /\ kernel' = [kernel EXCEPT ![d] = "idle"]
    BY <1>1, <1>3, <1>8 DEF SocketsType, KernelType
  <2>2. ~Offers(q) /\ Told(q, q)
    BY <1>1 DEF Offers, Told
  <2>3. Consistent(q, "idle", on.handler[<<d, "R">>], on.handler[<<d, "W">>],
                   on.handler[<<d, "X">>], d \in on.enabled)
    BY OursAre, <1>1, <1>3, <1>5 DEF Consistent
  <2>4. QED
    BY <1>2, <1>3, <1>5, <1>8, <2>1, <2>2, <2>3, StillOpen
<1>9. QED
  BY <1>6, <1>7, <1>8 DEF sqSocketConnectToPort, on

LEMMA ConnectDatagramsKeeps ==
  ASSUME SocketsSound, NEW s \in Sockets, ConnectDatagrams(s)
  PROVE  Keeps({pss[s].s})
<1> DEFINE q == pss[s]
           d == q.s
           p == [q EXCEPT !.sockState = "Connected"]
<1>1. /\ q # Nil /\ ~q.tcp /\ d # NoDescriptor /\ aio' = aio /\ kernel' = kernel
  BY DEF ConnectDatagrams, socketValid
<1>2. Open(q)
  <2>1. SocketSound(q, aio, kernel)
    BY DEF SocketsSound, Sound
  <2>2. QED
    BY <1>1, <2>1 DEF SocketSound
<1>3. /\ q \in Private /\ d \in Descriptors /\ Tidy(aio) /\ pss \in SocketsType
      /\ kernel \in KernelType
      /\ Consistent(q, kernel[d], aio.handler[<<d, "R">>], aio.handler[<<d, "W">>],
                    aio.handler[<<d, "X">>], d \in aio.enabled)
      /\ d \in aio.enabled => aio.client[d] = s
      /\ \A v \in Events : aio.handler[<<d, v>>] \in Handlers => d \in aio.enabled
  BY <1>2, Asked DEF SocketsSound, Sound
<1>4. pss' = [pss EXCEPT ![s] = p]
  BY <1>3 DEF ConnectDatagrams, SocketsType
<1>5. Becomes(p, q, "Connected", q.awaits)
  BY <1>3 DEF Becomes, Private, States
<1> HIDE DEF p
<1>6. Open(p) /\ p.s = d /\ p \in Private
  BY <1>2, <1>5, StaysOpen DEF Becomes
<1>7. ~Offers(p) /\ Told(q, p)
  BY <1>1, <1>3, <1>5 DEF Becomes, Consistent, Offers, Told
<1>8. Consistent(p, kernel[d], aio.handler[<<d, "R">>], aio.handler[<<d, "W">>],
                 aio.handler[<<d, "X">>], d \in aio.enabled)
  BY <1>1, <1>3, <1>5 DEF Consistent, Becomes
<1>9. kernel' = [kernel EXCEPT ![d] = kernel[d]] /\ MasksElsewhere(aio, aio', {d})
  BY <1>1, <1>3 DEF KernelType, MasksElsewhere
<1>10. /\ Tidy(aio') /\ (d \in aio'.enabled => aio'.client[d] = s)
       /\ \A v \in Events : aio'.handler[<<d, v>>] \in Handlers => d \in aio'.enabled
       /\ Consistent(p, kernel[d], aio'.handler[<<d, "R">>], aio'.handler[<<d, "W">>],
                     aio'.handler[<<d, "X">>], d \in aio'.enabled)
  BY <1>1, <1>3, <1>8
<1>11. QED
  BY <1>2, <1>4, <1>6, <1>7, <1>9, <1>10, StillOpen, Zenon

\* Of a connected socket, a transfer that is asked for or that fails.
LEMMA TransferKeeps ==
  ASSUME SocketsSound, NEW s \in Sockets, Transfers(s), kernel' = kernel, NEW p, NEW state,
         NEW v, \/ v = "R" /\ p.awaits = pss[s].awaits \cup {"read"}
                \/ v = "W" /\ p.awaits = pss[s].awaits \cup {"write"},
         aio' = aioHandle(aio, pss[s].s, "dataHandler", {v, "X"}),
         state \in {pss[s].sockState, "OtherEndClosed"},
         Becomes(p, pss[s], state, p.awaits), pss' = [pss EXCEPT ![s] = p]
  PROVE  Keeps({pss[s].s})
<1> DEFINE q == pss[s]
           d == q.s
           evs == {v, "X"}
           R == aio.handler[<<d, "R">>]
           W == aio.handler[<<d, "W">>]
<1>1. /\ q # Nil /\ d # NoDescriptor /\ q.sockState \in {"Connected", "OtherEndClosed"}
      /\ kernel[d] = "connected"
  BY DEF Transfers, socketValid
<1>2. Open(q) /\ state # "Invalid"
  BY <1>1 DEF Open
<1>3. /\ q \in Private /\ d \in Descriptors /\ Tidy(aio) /\ kernel \in KernelType
      /\ Consistent(q, "connected", R, W, aio.handler[<<d, "X">>], d \in aio.enabled)
      /\ d \in aio.enabled => aio.client[d] = s
  BY <1>1, <1>2, Asked DEF SocketsSound, Sound
<1>4. /\ "dataHandler" \in Handlers /\ evs \in SUBSET Events
      /\ "R" \in Events /\ "W" \in Events /\ "X" \in Events /\ "X" \in evs
      /\ "R" \in evs <=> v = "R"
      /\ "W" \in evs <=> v = "W"
  BY Vocabulary DEF Events
<1>5. aio' = aioHandle(aio, d, "dataHandler", evs)
  OBVIOUS
<1> HIDE DEF evs
<1>6. HandledBy(aio, aio', d, evs, "dataHandler")
  BY <1>3, <1>4, <1>5, HandleEffect
<1>7. d \in aio.enabled
  BY <1>1, <1>3 DEF Consistent
<1>8. /\ Tidy(aio') /\ MasksElsewhere(aio, aio', {d})
      /\ d \in aio'.enabled /\ aio'.client[d] = s
      /\ aio'.handler[<<d, "R">>] = IF v = "R" THEN "dataHandler" ELSE R
      /\ aio'.handler[<<d, "W">>] = IF v = "W" THEN "dataHandler" ELSE W
      /\ aio'.handler[<<d, "X">>] = "dataHandler"
  BY <1>3, <1>4, <1>6, <1>7 DEF HandledBy
<1>9. Open(p) /\ p.s = d /\ p \in Private
  BY <1>2, StaysOpen DEF Becomes
<1>10. ~p.multiListen /\ ~Offers(p) /\ Told(q, p)
  BY <1>1, <1>3 DEF Becomes, Consistent, Offers, Told
<1>11. Consistent(p, "connected", aio'.handler[<<d, "R">>], aio'.handler[<<d, "W">>],
                  aio'.handler[<<d, "X">>], d \in aio'.enabled)
  <2>1. p.tcp = q.tcp /\ "conn" \notin q.awaits
    BY <1>1, <1>3 DEF Becomes, Consistent
  <2>2. QED
    BY OursAre, <1>3, <1>8, <1>10, <2>1 DEF Consistent
<1>12. kernel' = [kernel EXCEPT ![d] = "connected"]
  BY <1>1, <1>3 DEF KernelType
<1>13. QED
  BY <1>2, <1>8, <1>9, <1>10, <1>11, <1>12, StillOpen, Zenon

LEMMA ReceiveKeeps ==
  ASSUME SocketsSound, NEW s \in Sockets, sqSocketReceiveDataAvailable(s)
  PROVE  Keeps({pss[s].s})
<1>1. PICK state \in {pss[s].sockState, "OtherEndClosed"} :
        pss' = [pss EXCEPT ![s].sockState = state, ![s].awaits = @ \cup {"read"}]
  BY DEF sqSocketReceiveDataAvailable
<1> DEFINE q == pss[s]
           awaits == q.awaits \cup {"read"}
           p == [q EXCEPT !.sockState = state, !.awaits = awaits]
<1>2. q \in Private /\ pss \in SocketsType
  BY DEF sqSocketReceiveDataAvailable, Transfers, socketValid, SocketsSound, Sound, SocketsType
<1>3. pss' = [pss EXCEPT ![s] = p]
  BY <1>1, <1>2 DEF SocketsType
<1>4. state \in States /\ awaits \in SUBSET {"conn", "read", "write"}
  BY <1>2 DEF Private, States
<1> HIDE DEF awaits
<1>5. Becomes(p, q, state, awaits)
  BY <1>2, <1>4 DEF Private, Becomes
<1> HIDE DEF p
<1>6. p.awaits = q.awaits \cup {"read"} /\ Becomes(p, q, state, p.awaits)
  BY <1>5 DEF Becomes, awaits
<1>7. QED
  BY <1>3, <1>6, TransferKeeps DEF sqSocketReceiveDataAvailable

LEMMA SendKeeps ==
  ASSUME SocketsSound, NEW s \in Sockets, sqSocketSendDone(s)
  PROVE  Keeps({pss[s].s})
<1> DEFINE q == pss[s]
           awaits == q.awaits \cup {"write"}
           p == [q EXCEPT !.awaits = awaits]
<1>1. q \in Private /\ pss \in SocketsType
  BY DEF sqSocketSendDone, Transfers, socketValid, SocketsSound, Sound, SocketsType
<1>2. pss' = [pss EXCEPT ![s] = p]
  BY <1>1 DEF SocketsType, sqSocketSendDone
<1>3. awaits \in SUBSET {"conn", "read", "write"}
  BY <1>1 DEF Private
<1> HIDE DEF awaits
<1>4. Becomes(p, q, q.sockState, awaits)
  BY <1>1, <1>3 DEF Private, Becomes
<1> HIDE DEF p
<1>5. p.awaits = q.awaits \cup {"write"} /\ Becomes(p, q, q.sockState, p.awaits)
  BY <1>4 DEF Becomes, awaits
<1>6. QED
  BY <1>2, <1>5, TransferKeeps DEF sqSocketSendDone

LEMMA TransferFailsKeeps ==
  ASSUME SocketsSound, NEW s \in Sockets, TransferFails(s)
  PROVE  Keeps({pss[s].s})
<1> DEFINE q == pss[s]
           d == q.s
           p == [q EXCEPT !.sockState = "OtherEndClosed"]
<1>1. /\ q # Nil /\ d # NoDescriptor /\ q.sockState \in {"Connected", "OtherEndClosed"}
      /\ kernel[d] = "connected" /\ aio' = aio /\ kernel' = kernel
  BY DEF TransferFails, Transfers, socketValid
<1>2. Open(q)
  BY <1>1 DEF Open
<1>3. /\ q \in Private /\ d \in Descriptors /\ Tidy(aio) /\ pss \in SocketsType
      /\ kernel \in KernelType
      /\ Consistent(q, "connected", aio.handler[<<d, "R">>], aio.handler[<<d, "W">>],
                    aio.handler[<<d, "X">>], d \in aio.enabled)
      /\ d \in aio.enabled => aio.client[d] = s
      /\ \A v \in Events : aio.handler[<<d, v>>] \in Handlers => d \in aio.enabled
  BY <1>1, <1>2, Asked DEF SocketsSound, Sound
<1>4. pss' = [pss EXCEPT ![s] = p]
  BY <1>3 DEF TransferFails, SocketsType
<1>5. Becomes(p, q, "OtherEndClosed", q.awaits)
  BY <1>3 DEF Becomes, Private, States
<1> HIDE DEF p
<1>6. Open(p) /\ p.s = d /\ p \in Private
  BY <1>2, <1>5, StaysOpen DEF Becomes
<1>7. ~Offers(p) /\ Told(q, p)
  BY <1>1, <1>3, <1>5 DEF Becomes, Consistent, Offers, Told
<1>8. Consistent(p, "connected", aio.handler[<<d, "R">>], aio.handler[<<d, "W">>],
                 aio.handler[<<d, "X">>], d \in aio.enabled)
  BY <1>1, <1>3, <1>5 DEF Consistent, Becomes
<1>9. kernel' = [kernel EXCEPT ![d] = "connected"] /\ MasksElsewhere(aio, aio', {d})
  BY <1>1, <1>3 DEF KernelType, MasksElsewhere
<1>10. QED
  BY <1>1, <1>2, <1>3, <1>4, <1>6, <1>7, <1>8, <1>9, StillOpen

\* A primitive that closes the descriptor of its socket.
LEMMA ClosedForGood ==
  ASSUME SocketsSound, NEW s \in Sockets, Open(pss[s]), NEW d, d = pss[s].s,
         NEW p \in Private \cup {Nil}, pss' = [pss EXCEPT ![s] = p],
         aio' = aioDisable(aio, d), kernel' = [kernel EXCEPT ![d] = "free"],
         p # Nil => /\ p.s = NoDescriptor /\ p.sockState = "Unconnected"
                    /\ sqSocketCloseConnection(s)
  PROVE  Keeps({d})
<1>1. d \in Descriptors /\ kernel \in KernelType /\ Tidy(aio) /\ "free" \in Kinds
  BY Asked, Vocabulary DEF SocketsSound, Sound
<1>2. DisabledFor(aio, aio', {d})
  BY <1>1, DisableEffect
<1>3. /\ Tidy(aio') /\ MasksElsewhere(aio, aio', {d}) /\ d \notin aio'.enabled
      /\ \A v \in Events : aio'.handler[<<d, v>>] \notin Handlers
  BY <1>2, IdleIsNoHandler DEF DisabledFor
<1>4. /\ kernel' \in KernelType /\ kernel'[d] = "free"
      /\ \A c \in Descriptors \ {d} : kernel'[c] = kernel[c]
  BY <1>1 DEF KernelType
<1>5. ~Open(p) /\ ~Offers(p) /\ (Told(pss[s], p) \/ sqSocketCloseConnection(s))
  BY DEF Open, Offers, Told
<1>6. Elsewhere(aio, aio', kernel, kernel', {d})
  BY <1>3, <1>4 DEF Elsewhere
<1>7. Changes(s, d, p)
  BY <1>3, <1>4, <1>5, <1>6 DEF Changes
<1>8. QED
  BY <1>3, <1>5, <1>7, OneSocket

LEMMA CloseKeeps ==
  ASSUME SocketsSound, NEW s \in Sockets, sqSocketCloseConnection(s)
  PROVE  Keeps({pss[s].s})
<1> DEFINE q == pss[s]
           p == [q EXCEPT !.sockState = "Unconnected", !.s = NoDescriptor]
<1>1. Open(q)
  BY DEF sqSocketCloseConnection, Usable, socketValid, Open
<1>2. q \in Private /\ kernel[q.s] # "free" /\ pss \in SocketsType
  BY <1>1, Asked DEF SocketKinds, SocketsSound, Sound
<1>3. /\ Closed(q) = p /\ p \in Private
      /\ p.s = NoDescriptor /\ p.sockState = "Unconnected"
  BY <1>2 DEF Closed, Private, States
<1> HIDE DEF p
<1>4. /\ pss' = [pss EXCEPT ![s] = p]
      /\ aio' = aioDisable(aio, q.s) /\ kernel' = [kernel EXCEPT ![q.s] = "free"]
  BY <1>2, <1>3 DEF sqSocketCloseConnection, SocketsType
<1>5. QED
  BY <1>1, <1>3, <1>4, ClosedForGood

\* A socket without a descriptor is forgotten.
LEMMA Forgotten ==
  ASSUME SocketsSound, NEW s \in Sockets, ~Open(pss[s]),
         aio' = aio, kernel' = kernel, pss' = [pss EXCEPT ![s] = Nil]
  PROVE  Keeps({})
<1>1. /\ Tidy(aio') /\ kernel' \in KernelType /\ pss' \in SocketsType /\ pss'[s] = Nil
      /\ \A t \in Sockets \ {s} : pss'[t] = pss[t]
  BY DEF SocketsSound, Sound, SocketsType
<1>2. Elsewhere(aio, aio', kernel, kernel', {})
  BY DEF Elsewhere, MasksElsewhere
<1>3. ~Open(pss'[s]) /\ ~Offers(pss'[s]) /\ SocketSound(pss'[s], aio', kernel')
  BY <1>1 DEF Open, Offers, SocketSound
<1>4. Local(aio, aio', kernel, kernel', pss, pss', {s}, {})
  BY <1>1, <1>2, <1>3 DEF Local
<1>5. SocketsSound'
  BY <1>4, Frame DEF SocketsSound
<1>6. \A t \in Sockets : Told(pss[t], pss'[t])
  BY <1>1 DEF Told
<1>7. QED
  BY <1>2, <1>5, <1>6 DEF Keeps, Touches

LEMMA ConnectionStatusKeeps ==
  ASSUME SocketsSound, NEW s \in Sockets, sqSocketConnectionStatus(s)
  PROVE  Keeps({})
BY Forgotten DEF sqSocketConnectionStatus, Open

LEMMA DestroyKeeps ==
  ASSUME SocketsSound, NEW s \in Sockets, sqSocketDestroy(s)
  PROVE  Keeps(IF Open(pss[s]) THEN {pss[s].s} ELSE {})
<1> DEFINE d == pss[s].s
<1>1. pss' = [pss EXCEPT ![s] = Nil]
  BY DEF sqSocketDestroy
<1>2. CASE Open(pss[s])
  <2>1. kernel[0] = "other" /\ d # NoDescriptor /\ kernel[d] \in SocketKinds
    BY <1>2, Asked DEF SocketsSound, Sound, Open
  <2>2. d \notin {0, NoDescriptor}
    BY <2>1 DEF SocketKinds
  <2>3. aio' = aioDisable(aio, d) /\ kernel' = [kernel EXCEPT ![d] = "free"]
    BY <2>2 DEF sqSocketDestroy
  <2>4. QED
    BY <1>1, <1>2, <2>3, ClosedForGood
<1>3. CASE ~Open(pss[s])
  <2>1. d = NoDescriptor
    BY <1>3 DEF sqSocketDestroy, Usable, socketValid, Open
  <2>2. aio' = aio /\ kernel' = kernel
    BY <2>1 DEF sqSocketDestroy
  <2>3. QED
    BY <1>1, <1>3, <2>2, Forgotten
<1>4. QED
  BY <1>2, <1>3

LEMMA CreateKeeps ==
  ASSUME SocketsSound, NEW s \in Sockets, NEW tcp \in BOOLEAN, sqSocketCreate(s, tcp)
  PROVE  Keeps({NewDescriptor})
<1> DEFINE new == NewDescriptor
           kind == IF tcp THEN "idle" ELSE "connected"
           p == [s |-> new, sockState |-> IF tcp THEN "Unconnected" ELSE "Connected",
                 multiListen |-> FALSE, acceptedSock |-> 0, tcp |-> tcp, awaits |-> {}]
<1>1. /\ pss[s] = Nil /\ FreeDescriptors # {} /\ kernel' = [kernel EXCEPT ![new] = kind]
      /\ aio' = IF tcp THEN aio ELSE aioEnable(aio, new, s)
      /\ pss' = [pss EXCEPT ![s] = p]
  BY DEF sqSocketCreate, socketValid
<1>2. /\ Tidy(aio) /\ kernel \in KernelType /\ pss \in SocketsType
      /\ kind \in Kinds /\ kind \in SocketKinds /\ kind # "listening"
      /\ tcp \/ kind = "connected"
  BY Vocabulary DEF SocketsSound, Sound, SocketKinds
<1>3. /\ new \in Descriptors /\ kernel[new] = "free" /\ new \notin aio.enabled
      /\ \A t \in Sockets : ~Has(pss[t], new)
      /\ \A v \in Events : aio.handler[<<new, v>>] \notin Handlers
  BY <1>1, NewIsFree, FreeIsNobodys
<1> HIDE DEF new
<1>4. /\ p \in Private /\ p.s = new /\ p.tcp = tcp /\ ~p.multiListen /\ p.awaits = {}
      /\ p.sockState = IF tcp THEN "Unconnected" ELSE "Connected"
  BY <1>3, AsynchronousIOAssumption DEF Private, States, Descriptors
<1> HIDE DEF p, kind
<1>5. Open(p) /\ ~Offers(p)
  BY <1>3, <1>4, Vocabulary DEF Open, Offers
<1>6. /\ Tidy(aio') /\ MasksElsewhere(aio, aio', {new})
      /\ new \in aio'.enabled <=> ~tcp
      /\ ~tcp => aio'.client[new] = s
      /\ \A v \in Events : aio'.handler[<<new, v>>] \notin Handlers
  <2>1. CASE tcp
    <3>1. aio' = aio
      BY <1>1, <2>1
    <3>2. QED
      BY <1>2, <1>3, <2>1, <3>1 DEF MasksElsewhere
  <2>2. CASE ~tcp
    <3>1. EnabledFor(aio, aio', new, s)
      BY <1>1, <1>2, <1>3, <2>2, EnableEffect, Vocabulary
    <3>2. QED
      BY <1>3, <2>2, <3>1, IdleIsNoHandler DEF EnabledFor
  <2>3. QED
    BY <2>1, <2>2
<1>7. /\ kernel' \in KernelType /\ kernel'[new] = kind
      /\ \A d \in Descriptors \ {new} : kernel'[d] = kernel[d]
  BY <1>1, <1>2, <1>3 DEF KernelType
<1>8. /\ pss' \in SocketsType /\ pss'[s] = p
      /\ \A t \in Sockets \ {s} : pss'[t] = pss[t]
  BY <1>1, <1>2, <1>4 DEF SocketsType
<1>9. SocketSound(p, aio', kernel')
  <2>1. \A h \in SocketHandlers : \A v \in Events : aio'.handler[<<new, v>>] # h
    BY <1>6, Vocabulary
  <2>2. /\ "acceptHandler" \in SocketHandlers /\ "connectHandler" \in SocketHandlers
        /\ "dataHandler" \in SocketHandlers
        /\ "R" \in Events /\ "W" \in Events /\ "X" \in Events
    BY Vocabulary
  <2>3. Consistent(p, kind, aio'.handler[<<new, "R">>], aio'.handler[<<new, "W">>],
                   aio'.handler[<<new, "X">>], new \in aio'.enabled)
    <3>1. \A v \in Events : Ours(aio'.handler[<<new, v>>])
      BY <1>3, <1>6, NothingIsOurs
    <3>2. QED
      BY <1>2, <1>4, <1>6, <2>1, <2>2, <3>1 DEF Consistent, kind
  <2>4. QED
    BY <1>4, <1>5, <1>7, <2>3 DEF SocketSound, Consistent
<1>10. DescriptorSound(new, aio', kernel', pss')
  <2>1. CASE tcp
    BY <1>6, <2>1, DescriptorOfNobody
  <2>2. CASE ~tcp
    BY <1>2, <1>4, <1>5, <1>6, <1>7, <1>8, <2>2, DescriptorOfSocket
  <2>3. QED
    BY <2>1, <2>2
<1>11. Elsewhere(aio, aio', kernel, kernel', {new})
  BY <1>6, <1>7 DEF Elsewhere
<1>12. ~Open(pss[s]) /\ \A t \in Sockets : Told(pss[t], pss'[t])
  BY <1>1, <1>8 DEF Open, Told
<1>13. Local(aio, aio', kernel, kernel', pss, pss', {s}, {new})
  BY <1>3, <1>4, <1>5, <1>6, <1>7, <1>8, <1>9, <1>10, <1>11, <1>12 DEF Local
<1>14. SocketsSound'
  BY <1>13, Frame DEF SocketsSound
<1>15. QED
  BY <1>2, <1>3, <1>7, <1>11, <1>12, <1>14 DEF Keeps, Touches, new

LEMMA AcceptFromKeeps ==
  ASSUME SocketsSound, NEW s \in Sockets, NEW server \in Sockets, sqSocketAcceptFrom(s, server)
  PROVE  Keeps({pss[server].s, pss[server].acceptedSock})
<1> DEFINE q == pss[server]
           sd == q.s
           d == q.acceptedSock
           on == aioHandle(aio, sd, "acceptHandler", {"R", "X"})
           evs == {"R", "X"}
           awaits == q.awaits \cup {"conn"}
           r == [q EXCEPT !.acceptedSock = NoDescriptor, !.sockState = "WaitingForConnection",
                          !.awaits = awaits]
           p == [s |-> d, sockState |-> "Connected", multiListen |-> FALSE,
                 acceptedSock |-> 0, tcp |-> TRUE, awaits |-> {}]
<1>1. /\ pss[s] = Nil /\ q # Nil /\ q.multiListen /\ q.sockState = "Connected"
      /\ aio' = aioEnable(on, d, s) /\ kernel' = kernel
  BY DEF sqSocketAcceptFrom, socketValid
<1>2. Open(q) /\ Offers(q) /\ s # server
  <2>1. SocketSound(q, aio, kernel)
    BY DEF SocketsSound, Sound
  <2>2. QED
    BY <1>1, <2>1 DEF SocketSound, Offers
<1>3. /\ q \in Private /\ sd \in Descriptors /\ Tidy(aio) /\ pss \in SocketsType
      /\ kernel \in KernelType
      /\ Consistent(q, kernel[sd], aio.handler[<<sd, "R">>], aio.handler[<<sd, "W">>],
                    aio.handler[<<sd, "X">>], sd \in aio.enabled)
      /\ sd \in aio.enabled => aio.client[sd] = server
  BY <1>2, Asked DEF SocketsSound, Sound
<1>4. /\ d \in Descriptors /\ kernel[d] = "connected" /\ d \notin aio.enabled
  BY <1>2 DEF SocketsSound, Sound, SocketSound
<1>5. kernel[sd] = "listening" /\ sd \in aio.enabled /\ sd # d
  BY <1>1, <1>3, <1>4 DEF Consistent
<1>6. pss' = [pss EXCEPT ![server] = r, ![s] = p]
  BY <1>2, <1>3 DEF sqSocketAcceptFrom, SocketsType
<1>7. /\ "acceptHandler" \in Handlers /\ evs \in SUBSET Events
      /\ "R" \in Events /\ "W" \in Events /\ "X" \in Events
      /\ "R" \in evs /\ "W" \notin evs /\ "X" \in evs
  BY Vocabulary
<1>8. on = aioHandle(aio, sd, "acceptHandler", evs)
  OBVIOUS
<1> HIDE DEF evs, on
<1>9. HandledBy(aio, on, sd, evs, "acceptHandler")
  BY <1>3, <1>7, <1>8, HandleEffect
<1>10. EnabledFor(on, aio', d, s)
  BY <1>1, <1>4, <1>9, EnableEffect, Vocabulary DEF HandledBy
<1>11. /\ Tidy(aio') /\ MasksElsewhere(aio, aio', {sd, d})
       /\ sd \in aio'.enabled /\ aio'.client[sd] = server
       /\ aio'.handler[<<sd, "R">>] = "acceptHandler"
       /\ aio'.handler[<<sd, "W">>] = aio.handler[<<sd, "W">>]
       /\ aio'.handler[<<sd, "X">>] = "acceptHandler"
       /\ d \in aio'.enabled /\ aio'.client[d] = s
       /\ \A v \in Events : aio'.handler[<<d, v>>] = "undefined"
  <2>1. /\ MasksElsewhere(aio, on, {sd}) /\ MasksElsewhere(on, aio', {d})
        /\ on.enabled = aio.enabled /\ on.client = aio.client
    BY <1>9, <1>10 DEF HandledBy, EnabledFor
  <2>2. MasksElsewhere(aio, aio', {sd, d})
    BY <2>1 DEF MasksElsewhere
  <2>3. /\ sd \in aio'.enabled /\ aio'.client[sd] = server
        /\ \A v \in Events : aio'.handler[<<sd, v>>] = on.handler[<<sd, v>>]
    BY <1>3, <1>5, <2>1 DEF MasksElsewhere
  <2>4. /\ on.handler[<<sd, "R">>] = "acceptHandler" /\ on.handler[<<sd, "X">>] = "acceptHandler"
        /\ on.handler[<<sd, "W">>] = aio.handler[<<sd, "W">>]
    BY <1>7, <1>9 DEF HandledBy
  <2>5. /\ Tidy(aio') /\ d \in aio'.enabled /\ aio'.client[d] = s
        /\ \A v \in Events : aio'.handler[<<d, v>>] = "undefined"
    BY <1>4, <1>10, <2>1 DEF EnabledFor
  <2>6. QED
    BY <1>7, <2>2, <2>3, <2>4, <2>5
<1>12. /\ r \in Private /\ r.s = sd /\ r.tcp = q.tcp /\ r.multiListen
       /\ r.sockState = "WaitingForConnection" /\ r.awaits = awaits
  <2>1. awaits \in SUBSET {"conn", "read", "write"}
    BY <1>3 DEF Private
  <2> HIDE DEF awaits
  <2>2. QED
    BY <1>1, <1>3, <2>1 DEF Private, States
<1>13. /\ p \in Private /\ p.s = d /\ p.tcp /\ ~p.multiListen
       /\ p.sockState = "Connected" /\ p.awaits = {}
  BY <1>4, AsynchronousIOAssumption DEF Private, States, Descriptors
<1> HIDE DEF r, p
<1>14. Open(r) /\ ~Offers(r) /\ Open(p) /\ ~Offers(p)
  BY <1>3, <1>4, <1>12, <1>13, Vocabulary DEF Open, Offers
<1>15. /\ pss' \in SocketsType /\ pss'[server] = r /\ pss'[s] = p
       /\ \A t \in Sockets \ {server, s} : pss'[t] = pss[t]
  BY <1>2, <1>3, <1>6, <1>12, <1>13 DEF SocketsType
<1>16. SocketSound(r, aio', kernel') /\ SocketSound(p, aio', kernel')
  <2>1. Consistent(r, "listening", "acceptHandler", aio.handler[<<sd, "W">>], "acceptHandler",
                   TRUE)
    BY OursAre, <1>3, <1>5, <1>12 DEF Consistent
  <2>2. Consistent(p, "connected", "undefined", "undefined", "undefined", TRUE)
    BY OursAre, <1>13 DEF Consistent, SocketKinds
  <2>3. SocketSound(r, aio', kernel')
    BY <1>1, <1>5, <1>11, <1>12, <1>14, <2>1, SoundWhenOpen
  <2>4. SocketSound(p, aio', kernel')
    BY <1>1, <1>4, <1>7, <1>11, <1>13, <1>14, <2>2, SoundWhenOpen
  <2>5. QED
    BY <2>3, <2>4
<1>17. DescriptorSound(sd, aio', kernel', pss') /\ DescriptorSound(d, aio', kernel', pss')
  <2>1. kernel'[sd] \in SocketKinds /\ kernel'[d] \in SocketKinds
    BY <1>1, <1>4, <1>5 DEF SocketKinds
  <2>2. DescriptorSound(sd, aio', kernel', pss')
    BY <1>11, <1>12, <1>14, <1>15, <2>1, DescriptorOfSocket
  <2>3. DescriptorSound(d, aio', kernel', pss')
    BY <1>11, <1>13, <1>14, <1>15, <2>1, DescriptorOfSocket
  <2>4. QED
    BY <2>2, <2>3
<1>18. Elsewhere(aio, aio', kernel, kernel', {sd, d})
  BY <1>1, <1>11 DEF Elsewhere
<1>19. ~Open(pss[s]) /\ \A t \in Sockets : Told(pss[t], pss'[t])
  <2>1. "conn" \notin q.awaits
    BY <1>1, <1>3 DEF Consistent
  <2>2. QED
    BY <1>1, <1>15, <2>1 DEF Open, Told
<1>20. ASSUME NEW t \in Sockets \ {server, s} PROVE ~Has(pss[t], sd) /\ ~Has(pss[t], d)
  <2>1. Separate(pss[t], q) /\ Separate(q, pss[t])
    BY DEF SocketsSound, Sound
  <2>2. QED
    BY <1>2, <2>1 DEF Separate, Has
<1>21. Separate(p, r) /\ Separate(r, p)
  BY <1>5, <1>12, <1>13, <1>14 DEF Separate
<1>22. Local(aio, aio', kernel, kernel', pss, pss', {server, s}, {sd, d})
  <2>1. kernel' \in KernelType /\ kernel[sd] # "other" /\ kernel[d] # "other"
    BY <1>1, <1>3, <1>4, <1>5
  <2>2. \A t \in Sockets \ {server, s} :
          pss'[t] = pss[t] /\ \A c \in {sd, d} : ~Has(pss[t], c)
    BY <1>15, <1>20
  <2>3. \A c \in {sd, d} : kernel[c] # "other" /\ DescriptorSound(c, aio', kernel', pss')
    BY <1>17, <2>1
  <2>4. \A t \in {server, s} : /\ SocketSound(pss'[t], aio', kernel')
                               /\ Open(pss[t]) => pss[t].s \in {sd, d}
                               /\ Open(pss'[t]) => pss'[t].s \in {sd, d}
                               /\ Offers(pss'[t]) => pss'[t].acceptedSock \in {sd, d}
    BY <1>12, <1>13, <1>14, <1>15, <1>16, <1>19
  <2>5. \A t, u \in {server, s} : t # u => Separate(pss'[t], pss'[u])
    BY <1>15, <1>21
  <2>6. QED
    BY <1>3, <1>4, <1>11, <1>15, <1>18, <2>1, <2>2, <2>3, <2>4, <2>5 DEF Local
<1>23. SocketsSound'
  BY <1>22, Frame DEF SocketsSound
<1>24. QED
  BY <1>1, <1>4, <1>5, <1>18, <1>19, <1>23 DEF Keeps, Touches, SocketKinds

-----------------------------------------------------------------------------
(* All the steps                                                            *)

LEMMA HandleKeeps ==
  ASSUME SocketsSound, AioTypeOK, Handle
  PROVE  \E D : Keeps(D)
<1>1. CASE AcceptException
  BY <1>1, AcceptExceptionKeeps
<1>2. CASE AcceptAborted
  BY <1>2, AcceptAbortedKeeps
<1>3. CASE AcceptFailed
  BY <1>3, AcceptFailedKeeps
<1>4. CASE AcceptedMulti
  BY <1>4, AcceptedMultiKeeps
<1>5. CASE AcceptedInPlace
  BY <1>5, AcceptedInPlaceKeeps
<1>6. CASE ConnectException
  BY <1>6, ConnectExceptionKeeps
<1>7. CASE ConnectCompleted
  BY <1>7, ConnectCompletedKeeps
<1>8. CASE DataPossible
  BY <1>8, DataPossibleKeeps
<1>9. QED
  BY <1>1, <1>2, <1>3, <1>4, <1>5, <1>6, <1>7, <1>8 DEF Handle

LEMMA RequestKeeps ==
  ASSUME SocketsSound, NEW s \in Sockets, Request(s)
  PROVE  \E D : Keeps(D)
<1>1. ASSUME NEW tcp \in BOOLEAN, sqSocketCreate(s, tcp) PROVE \E D : Keeps(D)
  BY <1>1, CreateKeeps
<1>2. ASSUME NEW multi \in BOOLEAN, sqSocketListenOnPort(s, multi) PROVE \E D : Keeps(D)
  BY <1>2, ListenKeeps
<1>3. CASE sqSocketConnectToPort(s)
  BY <1>3, ConnectKeeps
<1>4. CASE ConnectDatagrams(s)
  BY <1>4, ConnectDatagramsKeeps
<1>5. ASSUME NEW server \in Sockets, sqSocketAcceptFrom(s, server) PROVE \E D : Keeps(D)
  BY <1>5, AcceptFromKeeps
<1>6. CASE sqSocketConnectionStatus(s)
  BY <1>6, ConnectionStatusKeeps
<1>7. CASE sqSocketCloseConnection(s)
  BY <1>7, CloseKeeps
<1>8. CASE sqSocketDestroy(s)
  BY <1>8, DestroyKeeps
<1>9. CASE sqSocketReceiveDataAvailable(s)
  BY <1>9, ReceiveKeeps
<1>10. CASE sqSocketSendDone(s)
  BY <1>10, SendKeeps
<1>11. CASE TransferFails(s)
  BY <1>11, TransferFailsKeeps
<1>12. QED
  BY <1>1, <1>2, <1>3, <1>4, <1>5, <1>6, <1>7, <1>8, <1>9, <1>10, <1>11 DEF Request

\* The end of the session leaves nothing enabled and no socket.
LEMMA ShutdownKeeps ==
  ASSUME SocketsSound, sqNetworkShutdown
  PROVE  SocketsSound' /\ aio'.enabled = {} /\ pss' = [s \in Sockets |-> Nil]
<1> DEFINE D == aio.enabled
<1>1. /\ Tidy(aio) /\ D \in SUBSET Descriptors /\ kernel \in KernelType /\ kernel[0] = "other"
      /\ \A d \in Descriptors : DescriptorSound(d, aio, kernel, pss)
  BY DEF SocketsSound, Sound, Tidy, Masks
<1>2. /\ aio' = Disabled(aio, D) /\ pss' = [s \in Sockets |-> Nil]
      /\ kernel' = [d \in Descriptors |-> IF d \in D THEN "free" ELSE kernel[d]]
  BY DEF sqNetworkShutdown, aioFini
<1> HIDE DEF D
<1>3. DisabledFor(aio, aio', D)
  BY <1>1, <1>2, DisabledEffect
<1>4. Tidy(aio') /\ aio'.enabled = {}
  BY <1>3 DEF DisabledFor, D
<1>5. ASSUME NEW d \in Descriptors PROVE DescriptorSound(d, aio', kernel', pss')
  <2>1. \A v \in Events : aio'.handler[<<d, v>>] \notin Handlers
    <3>1. CASE d \in D
      BY <1>3, <3>1, IdleIsNoHandler DEF DisabledFor
    <3>2. CASE d \notin D
      <4>1. \A v \in Events : aio'.handler[<<d, v>>] = aio.handler[<<d, v>>]
        BY <1>3, <3>2 DEF DisabledFor, MasksElsewhere
      <4>2. QED
        BY <1>1, <3>2, <4>1 DEF DescriptorSound, D
    <3>3. QED
      BY <3>1, <3>2
  <2>2. QED
    BY <1>4, <2>1, DescriptorOfNobody
<1>6. kernel' \in KernelType /\ kernel'[0] = "other"
  <2>1. 0 \in Descriptors /\ "free" \in Kinds
    BY Vocabulary, AsynchronousIOAssumption DEF Descriptors
  <2>2. 0 \notin D
    BY <1>1, <2>1 DEF DescriptorSound, D
  <2>3. QED
    BY <1>1, <1>2, <2>1, <2>2 DEF KernelType
<1>7. /\ pss' \in SocketsType
      /\ \A s \in Sockets : SocketSound(pss'[s], aio', kernel')
      /\ \A s, t \in Sockets : Separate(pss'[s], pss'[t])
  BY <1>2 DEF SocketsType, SocketSound, Separate, Open, Offers
<1>8. QED
  BY <1>2, <1>4, <1>5, <1>6, <1>7 DEF SocketsSound, Sound

-----------------------------------------------------------------------------
(* The theorems                                                             *)

\* In Sockets alone, nothing else enables descriptors.
OnlySockets == \A d \in aio.enabled : kernel[d] \in SocketKinds

SocketsInv == TypeOK /\ SocketsSound /\ OnlySockets

LEMMA SocketsInitially == Init => SocketsInv
<1> SUFFICES ASSUME Init PROVE SocketsInv
  OBVIOUS
<1> USE DEF Init, AioInit
<1>1. 0 \in Descriptors /\ "free" \in Kinds /\ "other" \in Kinds /\ MaxDescriptor + 1 \in Nat
  BY AsynchronousIOAssumption DEF Descriptors, Kinds
<1>2. /\ aio \in Masks /\ kernel \in KernelType /\ kernel[0] = "other"
      /\ \A d \in Descriptors, v \in Events : aio.handler[<<d, v>>] = "none"
      /\ aio.enabled = {} /\ aio.watched = {}
  BY <1>1 DEF Masks, KernelType
<1>3. TypeOK
  BY <1>1, <1>2 DEF TypeOK, AioTypeOK, KernelType
<1>4. Tidy(aio) /\ \A d \in Descriptors : DescriptorSound(d, aio, kernel, pss)
  BY <1>2, IdleIsNoHandler, DescriptorOfNobody DEF Tidy
<1>5. /\ pss \in SocketsType
      /\ \A s \in Sockets : SocketSound(pss[s], aio, kernel)
      /\ \A s, t \in Sockets : Separate(pss[s], pss[t])
  BY DEF SocketsType, SocketSound, Separate, Open, Offers
<1>6. QED
  BY <1>2, <1>3, <1>4, <1>5 DEF SocketsInv, SocketsSound, Sound, OnlySockets

LEMMA KeepsOnlySockets ==
  ASSUME OnlySockets, NEW D, Keeps(D)
  PROVE  OnlySockets'
<1> SUFFICES ASSUME NEW d \in aio'.enabled PROVE kernel'[d] \in SocketKinds
  BY DEF OnlySockets
<1>1. Sound(aio', kernel', pss') /\ Touches(D)
  BY DEF Keeps, SocketsSound
<1>2. d \in Descriptors /\ DescriptorSound(d, aio', kernel', pss')
  BY <1>1 DEF Sound, Tidy, Masks
<1>3. CASE d \in D
  BY <1>1, <1>2, <1>3 DEF Touches, DescriptorSound
<1>4. CASE d \notin D
  BY <1>1, <1>2, <1>4 DEF Touches, Elsewhere, MasksElsewhere, OnlySockets
<1>5. QED
  BY <1>3, <1>4

LEMMA ReadyOK ==
  ASSUME AioTypeOK, TakeEvent \/ Select \/ EndPoll \/ UNCHANGED <<ready, scanned>>
  PROVE  ready' \subseteq Descriptors \X Events /\ scanned' \in Descriptors
<1>1. CASE TakeEvent
  <2>1. First[1] \in Descriptors
    BY <1>1, FirstIsReady DEF TakeEvent, fd
  <2>2. QED
    BY <1>1, <2>1 DEF TakeEvent, AioTypeOK
<1>2. CASE Select
  <2>1. 0 \in Descriptors
    BY AsynchronousIOAssumption DEF Descriptors
  <2>2. QED
    BY <1>2, <2>1 DEF Select, Watched, AioTypeOK, Masks
<1>3. CASE EndPoll
  BY <1>3 DEF EndPoll, AioTypeOK
<1>4. CASE UNCHANGED <<ready, scanned>>
  BY <1>4 DEF AioTypeOK
<1>5. QED
  BY <1>1, <1>2, <1>3, <1>4

LEMMA SoundIsTyped ==
  ASSUME SocketsSound', ready' \subseteq Descriptors \X Events, scanned' \in Descriptors,
         thisNetSession' \in BOOLEAN
  PROVE  TypeOK'
BY DEF SocketsSound, Sound, Tidy, KernelType, SocketsType, TypeOK, AioTypeOK

LEMMA SocketsStep == SocketsInv /\ [Next]_vars => SocketsInv'
<1> SUFFICES ASSUME SocketsInv, [Next]_vars PROVE SocketsInv'
  OBVIOUS
<1> USE DEF SocketsInv
<1>1. AioTypeOK /\ thisNetSession \in BOOLEAN
  BY DEF TypeOK
<1>2. CASE Handle
  <2>1. PICK D : Keeps(D)
    BY <1>1, <1>2, HandleKeeps
  <2>2. TakeEvent /\ UNCHANGED thisNetSession
    BY <1>2 DEF Handle, AcceptException, AcceptAborted, AcceptFailed, AcceptedMulti,
                AcceptedInPlace, ConnectException, ConnectCompleted, DataPossible, Calls
  <2>3. QED
    BY <1>1, <2>1, <2>2, KeepsOnlySockets, ReadyOK, SoundIsTyped DEF Keeps
<1>3. ASSUME NEW s \in Sockets, Request(s) PROVE SocketsInv'
  <2>1. PICK D : Keeps(D)
    BY <1>3, RequestKeeps
  <2>2. UNCHANGED <<ready, scanned, thisNetSession>>
    BY <1>3 DEF Request, sqSocketCreate, sqSocketListenOnPort, sqSocketConnectToPort,
                ConnectDatagrams, sqSocketAcceptFrom, sqSocketConnectionStatus,
                sqSocketCloseConnection, sqSocketDestroy, sqSocketReceiveDataAvailable,
                sqSocketSendDone, TransferFails, Primitive
  <2>3. QED
    BY <1>1, <2>1, <2>2, KeepsOnlySockets, ReadyOK, SoundIsTyped DEF Keeps
<1>4. CASE sqNetworkShutdown
  <2>1. SocketsSound' /\ aio'.enabled = {}
    BY <1>4, ShutdownKeeps
  <2>2. UNCHANGED <<ready, scanned>> /\ thisNetSession' = FALSE
    BY <1>4 DEF sqNetworkShutdown, Primitive
  <2>3. QED
    BY <1>1, <2>1, <2>2, ReadyOK, SoundIsTyped DEF OnlySockets
<1>5. CASE sqNetworkInit
  <2>1. UNCHANGED <<aio, kernel, pss, ready, scanned>> /\ thisNetSession' = TRUE
    BY <1>5 DEF sqNetworkInit, Primitive
  <2>2. SocketsSound' /\ OnlySockets'
    BY <2>1 DEF SocketsSound, OnlySockets
  <2>3. QED
    BY <1>1, <2>1, <2>2, ReadyOK, SoundIsTyped
<1>6. CASE Poll
  <2>1. UNCHANGED <<aio, kernel, pss, thisNetSession>> /\ (Select \/ EndPoll)
    BY <1>6 DEF Poll, Select, EndPoll
  <2>2. SocketsSound' /\ OnlySockets'
    BY <2>1 DEF SocketsSound, OnlySockets
  <2>3. QED
    BY <1>1, <2>1, <2>2, ReadyOK, SoundIsTyped
<1>7. CASE UNCHANGED vars
  <2>1. UNCHANGED <<aio, ready, scanned, kernel, thisNetSession, pss>>
    BY <1>7 DEF vars, aioVars
  <2>2. SocketsSound' /\ OnlySockets'
    BY <2>1 DEF SocketsSound, OnlySockets
  <2>3. QED
    BY <1>1, <2>1, <2>2, ReadyOK, SoundIsTyped
<1>8. QED
  BY <1>2, <1>3, <1>4, <1>5, <1>6, <1>7 DEF Next, Operation

\* What SocketsInv says holds in every state.
THEOREM SocketsStaySound == Spec => []SocketsInv
<1>1. Init => SocketsInv
  BY SocketsInitially
<1>2. SocketsInv /\ [Next]_vars => SocketsInv'
  BY SocketsStep
<1>3. QED
  BY <1>1, <1>2, PTL DEF Spec

\* The masks, the descriptors and the private structs have their types.
THEOREM SocketsTypeCorrect == Spec => []TypeOK
<1>1. SocketsInv => TypeOK
  BY DEF SocketsInv
<1>2. QED
  BY <1>1, SocketsStaySound, PTL

\* The parts of the invariant, as the properties say them.
LEMMA OpenIsOpen ==
  /\ \A s : s \in OpenSockets <=> s \in Sockets /\ Open(pss[s])
  /\ \A s : s \in Pending <=> s \in Sockets /\ Offers(pss[s])
BY DEF OpenSockets, ValidSockets, socketValid, Pending, Open, Offers

LEMMA SoundHoldsOnce == SocketsSound => DescriptorsHeldOnce
<1> SUFFICES ASSUME SocketsSound PROVE DescriptorsHeldOnce
  OBVIOUS
<1>1. \A s \in Sockets : SocketSound(pss[s], aio, kernel)
  BY DEF SocketsSound, Sound
<1>2. \A s, t \in Sockets : s # t => Separate(pss[s], pss[t])
  BY DEF SocketsSound, Sound
<1>3. ASSUME NEW s \in OpenSockets PROVE kernel[pss[s].s] \in SocketKinds
  BY <1>1, OpenIsOpen DEF SocketSound, Consistent
<1>4. ASSUME NEW s \in OpenSockets, NEW t \in OpenSockets, s # t PROVE pss[s].s # pss[t].s
  BY <1>2, <1>4, OpenIsOpen DEF Separate
<1>5. ASSUME NEW s \in OpenSockets, NEW t \in Pending PROVE pss[s].s # pss[t].acceptedSock
  <2>1. CASE s = t
    <3>1. kernel[pss[t].acceptedSock] = "connected" /\ kernel[pss[s].s] = "listening"
      BY <1>1, <2>1, OpenIsOpen DEF SocketSound, Offers, Consistent
    <3>2. QED
      BY <3>1
  <2>2. CASE s # t
    BY <1>2, <2>2, OpenIsOpen DEF Separate
  <2>3. QED
    BY <2>1, <2>2
<1>6. QED
  BY <1>3, <1>4, <1>5 DEF DescriptorsHeldOnce, SocketKinds

\* No two sockets have one descriptor, and none has one that is closed or that is not a
\* socket's, whatever was accepted, closed and given again.
THEOREM NoDescriptorIsShared == Spec => []DescriptorsHeldOnce
<1>1. SocketsInv => DescriptorsHeldOnce
  BY SoundHoldsOnce DEF SocketsInv
<1>2. QED
  BY <1>1, SocketsStaySound, PTL

\* A handler is only ever given a socket that is valid and whose descriptor the event is of.
THEOREM HandlersFindTheirSockets == Spec => []ClientsOwnTheirDescriptors
<1>1. SocketsInv => ClientsOwnTheirDescriptors
  <2> SUFFICES ASSUME SocketsInv, NEW d \in aio.enabled
               PROVE  aio.client[d] \in OpenSockets /\ pss[aio.client[d]].s = d
    BY DEF ClientsOwnTheirDescriptors
  <2>1. DescriptorSound(d, aio, kernel, pss) /\ kernel[d] \in SocketKinds
    BY DEF SocketsInv, SocketsSound, Sound, Tidy, Masks, OnlySockets
  <2>2. QED
    BY <2>1, OpenIsOpen DEF DescriptorSound
<1>2. QED
  BY <1>1, SocketsStaySound, PTL

LEMMA SoundIsOpen == SocketsSound => SelectNeverFails
<1> SUFFICES ASSUME SocketsSound, NEW e \in Watched PROVE kernel[e[1]] # "free"
  BY DEF SelectNeverFails
<1>1. /\ e \in Descriptors \X Events /\ e \in aio.watched /\ Tidy(aio)
  BY DEF Watched, SocketsSound, Sound, Tidy, Masks
<1>2. e = <<e[1], e[2]>> /\ e[1] \in Descriptors /\ e[2] \in Events
  BY <1>1
<1>3. aio.handler[<<e[1], e[2]>>] \in Handlers
  BY <1>1, <1>2 DEF Tidy
<1>4. DescriptorSound(e[1], aio, kernel, pss)
  BY <1>2 DEF SocketsSound, Sound
<1>5. QED
  BY <1>2, <1>3, <1>4 DEF DescriptorSound

\* select is never asked about a closed descriptor.
THEOREM SelectIsAskedOfOpenDescriptors == Spec => []SelectNeverFails
<1>1. SocketsInv => SelectNeverFails
  BY SoundIsOpen DEF SocketsInv
<1>2. QED
  BY <1>1, SocketsStaySound, PTL

LEMMA SoundOwesSignals == SocketsSound => SignalsAreOwed
<1> SUFFICES ASSUME SocketsSound, NEW s \in OpenSockets,
                    NEW what \in {"conn", "read", "write"}
             PROVE  what \in pss[s].awaits <=> pss[s].s \in aio.enabled /\ Sends(s, what)
  BY DEF SignalsAreOwed
<1> DEFINE d == pss[s].s
<1>1. s \in Sockets /\ Open(pss[s])
  BY OpenIsOpen
<1>2. /\ d \in Descriptors /\ Tidy(aio)
      /\ Consistent(pss[s], kernel[d], aio.handler[<<d, "R">>], aio.handler[<<d, "W">>],
                    aio.handler[<<d, "X">>], d \in aio.enabled)
      /\ \A v \in Events : aio.handler[<<d, v>>] \in Handlers => d \in aio.enabled
  BY <1>1, Asked
<1>3. \A v \in Events, h \in SocketHandlers :
        aio.handler[<<d, v>>] = h => d \in aio.enabled /\ <<d, v>> \in Watched
  <2> SUFFICES ASSUME NEW v \in Events, aio.handler[<<d, v>>] \in Handlers
               PROVE  d \in aio.enabled /\ <<d, v>> \in Watched
    BY Vocabulary
  <2>1. d \in aio.enabled /\ <<d, v>> \in aio.watched /\ d < aio.maxFd
    BY <1>2 DEF Tidy
  <2>2. QED
    BY <2>1 DEF Watched
<1> HIDE DEF d
<1>4. /\ "R" \in Events /\ "W" \in Events
      /\ "acceptHandler" \in SocketHandlers /\ "connectHandler" \in SocketHandlers
      /\ "dataHandler" \in SocketHandlers
  BY Vocabulary
<1>5. CASE what = "conn"
  <2>1. Sends(s, what) <=> \/ <<d, "R">> \in Watched /\ aio.handler[<<d, "R">>] = "acceptHandler"
                           \/ <<d, "W">> \in Watched /\ aio.handler[<<d, "W">>] = "connectHandler"
    BY <1>5 DEF Sends, d
  <2>2. QED
    BY <1>2, <1>3, <1>4, <1>5, <2>1 DEF Consistent, d
<1>6. CASE what = "read"
  <2>1. Sends(s, what) <=> <<d, "R">> \in Watched /\ aio.handler[<<d, "R">>] = "dataHandler"
    BY <1>6 DEF Sends, d
  <2>2. QED
    BY <1>2, <1>3, <1>4, <1>6, <2>1 DEF Consistent, d
<1>7. CASE what = "write"
  <2>1. Sends(s, what) <=> <<d, "W">> \in Watched /\ aio.handler[<<d, "W">>] = "dataHandler"
    BY <1>7 DEF Sends, d
  <2>2. QED
    BY <1>2, <1>3, <1>4, <1>7, <2>1 DEF Consistent, d
<1>8. QED
  BY <1>5, <1>6, <1>7

\* A signal is owed exactly when the handler that sends it is installed and watched.
THEOREM NoSignalIsLostOrSpurious == Spec => []SignalsAreOwed
<1>1. SocketsInv => SignalsAreOwed
  BY SoundOwesSignals DEF SocketsInv
<1>2. QED
  BY <1>1, SocketsStaySound, PTL

\* The step that changes the state of a socket signals whoever waits for its connection, unless
\* it is the image's own closing of the socket.
THEOREM WaitersAreTold == Spec => NoSilentChange
<1> DEFINE Loud == \A s \in Sockets :
                     socketValid(s) /\ pss'[s] # Nil /\ "conn" \in pss[s].awaits
                       /\ pss'[s].sockState # pss[s].sockState
                     => "conn" \notin pss'[s].awaits \/ sqSocketCloseConnection(s)
<1>1. SocketsInv /\ [Next]_vars => Loud
  <2> SUFFICES ASSUME SocketsInv, [Next]_vars PROVE Loud
    OBVIOUS
  <2>1. SocketsSound /\ AioTypeOK
    BY DEF SocketsInv, TypeOK
  <2>2. ASSUME NEW D, Keeps(D) PROVE Loud
    BY <2>2 DEF Keeps, Told, socketValid
  <2>3. CASE Handle
    BY <2>1, <2>2, <2>3, HandleKeeps
  <2>4. ASSUME NEW s \in Sockets, Request(s) PROVE Loud
    BY <2>1, <2>2, <2>4, RequestKeeps
  <2>5. CASE sqNetworkShutdown
    BY <2>1, <2>5, ShutdownKeeps
  <2>6. CASE pss' = pss
    BY <2>6
  <2>7. QED
    BY <2>3, <2>4, <2>5, <2>6 DEF Next, Operation, Poll, sqNetworkInit, vars
<1>2. Spec => [][Next]_vars
  BY DEF Spec
<1>3. QED
  BY <1>1, <1>2, SocketsStaySound, PTL DEF NoSilentChange
=============================================================================
