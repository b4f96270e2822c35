----------------------- MODULE ProcessScheduler_proofs -----------------------
(***************************************************************************)
(* Theorems about ProcessScheduler, for any processes, priorities,         *)
(* semaphores and sections.  The sequences are put away first: the proofs  *)
(* reason about who is linked from a list, and that nobody is twice.       *)
(***************************************************************************)
EXTENDS ProcessScheduler, SequenceTheorems, TLAPS

-----------------------------------------------------------------------------
(* What linking and unlinking do to the members of a list.                  *)

Members(s) == {s[k] : k \in DOMAIN s}
NoRepeats(s) == \A j, k \in DOMAIN s : s[j] = s[k] => j = k

\* Only the empty list has no members.
LEMMA EmptyMembers ==
  ASSUME NEW S, NEW s \in Seq(S)
  PROVE  /\ Members(s) \subseteq S
         /\ s = <<>> <=> Members(s) = {}
<1>1. Len(s) \in Nat /\ DOMAIN s = 1 .. Len(s) /\ s \in [1 .. Len(s) -> S]
  BY LenProperties
<1>2. s # <<>> => Len(s) \in Nat \ {0}
  BY EmptySeq
<1>3. s # <<>> => s[1] \in Members(s)
  BY <1>1, <1>2 DEF Members
<1>4. s = <<>> => Members(s) = {}
  BY DEF Members
<1>5. QED
  BY <1>1, <1>3, <1>4 DEF Members

\* addLastLink:toList:
LEMMA AppendMembers ==
  ASSUME NEW S, NEW s \in Seq(S), NEW e \in S
  PROVE  /\ Append(s, e) \in Seq(S)
         /\ Members(Append(s, e)) = Members(s) \cup {e}
         /\ NoRepeats(s) /\ e \notin Members(s) => NoRepeats(Append(s, e))
<1> DEFINE t == Append(s, e)
<1>1. Len(s) \in Nat /\ DOMAIN s = 1 .. Len(s)
  BY LenProperties
<1>2. t \in Seq(S) /\ Len(t) = Len(s) + 1
      /\ (\A i \in 1 .. Len(s) : t[i] = s[i]) /\ t[Len(s) + 1] = e
  BY AppendProperties
<1>3. DOMAIN t = 1 .. Len(s) + 1
  BY <1>2, LenProperties
<1> HIDE DEF t
<1>4. Members(t) = Members(s) \cup {e}
  BY <1>1, <1>2, <1>3 DEF Members
<1>5. NoRepeats(s) /\ e \notin Members(s) => NoRepeats(t)
  BY <1>1, <1>2, <1>3 DEF Members, NoRepeats
<1>6. QED
  BY <1>2, <1>4, <1>5 DEF t

\* addFirstLink:toList:
LEMMA PushMembers ==
  ASSUME NEW S, NEW s \in Seq(S), NEW e \in S
  PROVE  /\ <<e>> \o s \in Seq(S)
         /\ Members(<<e>> \o s) = Members(s) \cup {e}
         /\ NoRepeats(s) /\ e \notin Members(s) => NoRepeats(<<e>> \o s)
<1> DEFINE t == <<e>> \o s
<1>1. Len(s) \in Nat /\ DOMAIN s = 1 .. Len(s)
  BY LenProperties
<1>2. <<e>> \in Seq(S) /\ Len(<<e>>) = 1 /\ <<e>>[1] = e
  OBVIOUS
<1>3. t \in Seq(S) /\ Len(t) = 1 + Len(s)
      /\ \A i \in 1 .. 1 + Len(s) : t[i] = IF i <= 1 THEN <<e>>[i] ELSE s[i - 1]
  BY <1>2, ConcatProperties
<1>4. DOMAIN t = 1 .. Len(s) + 1
  BY <1>1, <1>3, LenProperties
<1> HIDE DEF t
<1>5. /\ t[1] = e
      /\ \A i \in 1 .. Len(s) : t[i + 1] = s[i]
      /\ \A i \in DOMAIN t : i # 1 => i - 1 \in DOMAIN s /\ t[i] = s[i - 1]
  <2>1. t[1] = e
    BY <1>1, <1>2, <1>3
  <2>2. ASSUME NEW i \in 1 .. Len(s) PROVE t[i + 1] = s[i]
    <3>1. i + 1 \in 1 .. 1 + Len(s) /\ ~(i + 1 <= 1) /\ i + 1 - 1 = i
      BY <1>1
    <3>2. QED
      BY <3>1, <1>3
  <2>3. ASSUME NEW i \in DOMAIN t, i # 1 PROVE i - 1 \in DOMAIN s /\ t[i] = s[i - 1]
    <3>1. i - 1 \in 1 .. Len(s) /\ i \in 1 .. 1 + Len(s) /\ ~(i <= 1)
      BY <2>3, <1>1, <1>4
    <3>2. QED
      BY <3>1, <1>1, <1>3
  <2>4. QED
    BY <2>1, <2>2, <2>3
<1>6. Members(t) = Members(s) \cup {e}
  <2>1. ASSUME NEW i \in DOMAIN t PROVE t[i] \in Members(s) \cup {e}
    BY <1>5 DEF Members
  <2>2. ASSUME NEW i \in DOMAIN s PROVE s[i] \in Members(t)
    <3>1. i + 1 \in DOMAIN t /\ t[i + 1] = s[i]
      BY <1>1, <1>4, <1>5
    <3>2. QED
      BY <3>1 DEF Members
  <2>3. e \in Members(t)
    BY <1>1, <1>4, <1>5 DEF Members
  <2>4. QED
    BY <2>1, <2>2, <2>3 DEF Members
<1>7. ASSUME NoRepeats(s), e \notin Members(s), NEW j \in DOMAIN t, NEW k \in DOMAIN t, t[j] = t[k]
      PROVE  j = k
  <2>1. CASE j = 1 \/ k = 1
    BY <2>1, <1>5, <1>7 DEF Members
  <2>2. CASE j # 1 /\ k # 1
    <3>1. j - 1 = k - 1
      BY <2>2, <1>5, <1>7 DEF NoRepeats
    <3>2. QED
      BY <3>1, <1>1, <1>4
  <2>3. QED
    BY <2>1, <2>2
<1>8. QED
  BY <1>3, <1>6, <1>7 DEF t, NoRepeats

\* removeFirstLinkOfList
LEMMA TailMembers ==
  ASSUME NEW S, NEW s \in Seq(S), s # <<>>
  PROVE  /\ Tail(s) \in Seq(S)
         /\ Head(s) \in S
         /\ Head(s) \in Members(s)
         /\ Members(Tail(s)) \subseteq Members(s)
         /\ NoRepeats(s) => /\ Members(Tail(s)) = Members(s) \ {Head(s)}
                            /\ NoRepeats(Tail(s))
<1> DEFINE t == Tail(s)
           h == Head(s)
<1>1. Len(s) \in Nat \ {0} /\ DOMAIN s = 1 .. Len(s)
  BY LenProperties, EmptySeq
<1>2. t \in Seq(S) /\ Len(t) = Len(s) - 1 /\ h \in S
      /\ \A i \in 1 .. Len(t) : t[i] = s[i + 1]
  BY HeadTailProperties
<1>3. h = s[1]
  OBVIOUS
<1>4. DOMAIN t = 1 .. Len(s) - 1
  BY <1>2, LenProperties
<1> HIDE DEF t, h
<1>5. \A i \in DOMAIN t : i + 1 \in DOMAIN s /\ t[i] = s[i + 1]
  BY <1>1, <1>2, <1>4
<1>6. Members(t) \subseteq Members(s)
  BY <1>5 DEF Members
<1>7. h \in Members(s)
  BY <1>1, <1>3 DEF Members
<1>8. ASSUME NoRepeats(s)
      PROVE  Members(t) = Members(s) \ {h} /\ NoRepeats(t)
  <2>1. ASSUME NEW i \in DOMAIN t PROVE t[i] # h
    BY <1>1, <1>3, <1>4, <1>5, <1>8 DEF NoRepeats
  <2>2. ASSUME NEW i \in DOMAIN s, s[i] # h PROVE s[i] \in Members(t)
    <3>1. i - 1 \in DOMAIN t /\ t[i - 1] = s[i]
      BY <2>2, <1>1, <1>2, <1>3, <1>4
    <3>2. QED
      BY <3>1 DEF Members
  <2>3. NoRepeats(t)
    BY <1>1, <1>4, <1>5, <1>8 DEF NoRepeats
  <2>4. QED
    BY <2>1, <2>2, <2>3, <1>6 DEF Members
<1>9. QED
  BY <1>2, <1>6, <1>7, <1>8 DEF t, h

\* The links after link k.
LEMMA AfterLink ==
  ASSUME NEW S, NEW s \in Seq(S), NEW k \in DOMAIN s
  PROVE  LET t == SubSeq(s, k + 1, Len(s)) IN
         /\ t \in Seq(S)
         /\ Len(t) = Len(s) - k
         /\ DOMAIN t = 1 .. Len(s) - k
         /\ \A i \in 1 .. Len(s) - k : t[i] = s[k + i]
<1> DEFINE t == SubSeq(s, k + 1, Len(s))
<1>1. Len(s) \in Nat /\ k \in 1 .. Len(s) /\ \A i \in k + 1 .. Len(s) : s[i] \in S
  BY LenProperties, ElementOfSeq
<1>2. /\ t \in Seq(S)
      /\ Len(t) = IF k + 1 <= Len(s) THEN Len(s) - (k + 1) + 1 ELSE 0
      /\ \A i \in 1 .. Len(s) - (k + 1) + 1 : t[i] = s[k + 1 + i - 1]
  BY <1>1, SubSeqProperties
<1> HIDE DEF t
<1>3. Len(t) = Len(s) - k
  BY <1>1, <1>2
<1>4. DOMAIN t = 1 .. Len(s) - k
  BY <1>2, <1>3, LenProperties
<1>5. ASSUME NEW i \in 1 .. Len(s) - k PROVE t[i] = s[k + i]
  <2>1. i \in 1 .. Len(s) - (k + 1) + 1 /\ k + 1 + i - 1 = k + i
    BY <1>1
  <2>2. QED
    BY <2>1, <1>2
<1>6. QED
  BY <1>2, <1>3, <1>4, <1>5 DEF t

\* removeProcess:fromList: of the link at k
LEMMA CutMembers ==
  ASSUME NEW S, NEW s \in Seq(S), NEW k \in DOMAIN s
  PROVE  LET t == SubSeq(s, 1, k - 1) \o SubSeq(s, k + 1, Len(s)) IN
         /\ t \in Seq(S)
         /\ Members(t) \subseteq Members(s)
         /\ NoRepeats(s) => /\ Members(t) = Members(s) \ {s[k]}
                            /\ NoRepeats(t)
<1> DEFINE a == SubSeq(s, 1, k - 1)
           b == SubSeq(s, k + 1, Len(s))
           t == a \o b
<1>1. /\ Len(s) \in Nat /\ DOMAIN s = 1 .. Len(s) /\ k \in 1 .. Len(s)
      /\ \A i \in 1 .. Len(s) : s[i] \in S
  BY LenProperties, ElementOfSeq
<1>2. a \in Seq(S) /\ Len(a) = k - 1 /\ \A i \in 1 .. k - 1 : a[i] = s[i]
  BY <1>1, SubSeqProperties
<1>3. b \in Seq(S) /\ Len(b) = Len(s) - k /\ \A i \in 1 .. Len(s) - k : b[i] = s[k + i]
  BY AfterLink
<1> HIDE DEF a, b
<1>4. /\ t \in Seq(S)
      /\ Len(t) = Len(a) + Len(b)
      /\ \A i \in 1 .. Len(a) + Len(b) : t[i] = IF i <= Len(a) THEN a[i] ELSE b[i - Len(a)]
  BY <1>2, <1>3, ConcatProperties
<1> HIDE DEF t
<1>5. DOMAIN t = 1 .. Len(s) - 1
  <2>1. Len(a) + Len(b) = Len(s) - 1
    BY <1>1, <1>2, <1>3
  <2>2. DOMAIN t = 1 .. Len(t)
    BY <1>4, LenProperties
  <2>3. QED
    BY <2>1, <2>2, <1>4
<1>6. \A i \in DOMAIN t : /\ i < k => i \in DOMAIN s /\ t[i] = s[i]
                          /\ i >= k => i + 1 \in DOMAIN s /\ t[i] = s[i + 1]
  <2>1. ASSUME NEW i \in DOMAIN t, i < k PROVE i \in DOMAIN s /\ t[i] = s[i]
    BY <2>1, <1>1, <1>2, <1>3, <1>4, <1>5
  <2>2. ASSUME NEW i \in DOMAIN t, i >= k PROVE i + 1 \in DOMAIN s /\ t[i] = s[i + 1]
    <3>1. t[i] = b[i - (k - 1)]
      BY <2>2, <1>1, <1>2, <1>3, <1>4, <1>5
    <3>2. i - (k - 1) \in 1 .. Len(s) - k /\ k + (i - (k - 1)) = i + 1 /\ i + 1 \in 1 .. Len(s)
      BY <2>2, <1>1, <1>5
    <3>3. QED
      BY <3>1, <3>2, <1>1, <1>3
  <2>3. QED
    BY <2>1, <2>2
<1>7. Members(t) \subseteq Members(s)
  BY <1>1, <1>5, <1>6 DEF Members
<1>8. ASSUME NoRepeats(s)
      PROVE  Members(t) = Members(s) \ {s[k]} /\ NoRepeats(t)
  <2>1. ASSUME NEW i \in DOMAIN t PROVE t[i] # s[k]
    BY <1>1, <1>5, <1>6, <1>8 DEF NoRepeats
  <2>2. ASSUME NEW i \in DOMAIN s, s[i] # s[k] PROVE s[i] \in Members(t)
    <3>1. CASE i < k
      <4>1. i \in DOMAIN t /\ t[i] = s[i]
        BY <3>1, <1>1, <1>5, <1>6
      <4>2. QED
        BY <4>1 DEF Members
    <3>2. CASE i > k
      <4>1. i - 1 \in DOMAIN t /\ t[i - 1] = s[i]
        BY <3>2, <1>1, <1>5, <1>6
      <4>2. QED
        BY <4>1 DEF Members
    <3>3. QED
      BY <2>2, <3>1, <3>2, <1>1
  <2>3. NoRepeats(t)
    BY <1>1, <1>5, <1>6, <1>8 DEF NoRepeats
  <2>4. QED
    BY <2>1, <2>2, <2>3, <1>7 DEF Members
<1>9. QED
  BY <1>4, <1>7, <1>8 DEF t, a, b

\* What is left of a run queue when everybody up to link k has been taken off it.
LEMMA RestMembers ==
  ASSUME NEW S, NEW s \in Seq(S), NEW k \in DOMAIN s
  PROVE  LET t == SubSeq(s, k + 1, Len(s)) IN
         /\ t \in Seq(S)
         /\ Members(t) = {s[j] : j \in {i \in DOMAIN s : i > k}}
         /\ NoRepeats(s) => NoRepeats(t) /\ s[k] \notin Members(t)
<1> DEFINE t == SubSeq(s, k + 1, Len(s))
<1>1. /\ Len(s) \in Nat /\ DOMAIN s = 1 .. Len(s) /\ k \in 1 .. Len(s)
      /\ \A i \in 1 .. Len(s) : s[i] \in S
  BY LenProperties, ElementOfSeq
<1>2. t \in Seq(S) /\ DOMAIN t = 1 .. Len(s) - k /\ \A i \in 1 .. Len(s) - k : t[i] = s[k + i]
  BY AfterLink
<1> HIDE DEF t
<1>3. DOMAIN t = 1 .. Len(s) - k /\ \A i \in 1 .. Len(s) - k : t[i] = s[k + i]
  BY <1>2
<1>4. \A i \in DOMAIN t : k + i \in DOMAIN s /\ k + i > k /\ t[i] = s[k + i]
  BY <1>1, <1>3
<1>5. \A j \in DOMAIN s : j > k => j - k \in DOMAIN t /\ t[j - k] = s[j]
  BY <1>1, <1>3
<1>6. Members(t) = {s[j] : j \in {i \in DOMAIN s : i > k}}
  BY <1>4, <1>5 DEF Members
<1>7. NoRepeats(s) => NoRepeats(t)
  BY <1>1, <1>3, <1>4 DEF NoRepeats
<1>8. NoRepeats(s) => s[k] \notin Members(t)
  BY <1>1, <1>6 DEF NoRepeats
<1>9. QED
  BY <1>2, <1>6, <1>7, <1>8 DEF t

-----------------------------------------------------------------------------
(* The same for all lists at once.                                          *)

LinkedLists == [Lists -> Seq(Processes)]
BackLinks == [Processes -> Lists \cup {Nil}]

Free(L, p) == \A l \in Lists : p \notin Members(L[l])

\* Nobody is linked twice, and the processes linked from a list point back to it.
Sound(L, M) ==
  \A l \in Lists : NoRepeats(L[l]) /\ \A p \in Members(L[l]) : M[p] = l

\* No run queue above h, once h is known, holds a process.
Covered(L, h) == h # 0 => \A q \in Priorities : q > h => L[q] = <<>>

\* The vocabulary of the module and that of the proofs.
LEMMA Vocabulary ==
  /\ Lists = Priorities \cup Waitables
  /\ Nil \notin Lists /\ Nil \notin Processes
  /\ MaxPriority \in Nat \ {0}
  /\ Priorities = 1 .. MaxPriority
  /\ 1 \in Priorities
  /\ Semaphores \subseteq Waitables /\ CriticalSections \subseteq Waitables
  /\ \A q \in Priorities : q \in Lists /\ q \notin Waitables /\ q \in Nat
  /\ \A p, l : OnList(p, l) <=> p \in Members(list[l])
  /\ \A p : OnNoList(p) <=> Free(list, p)
  /\ OneListEach <=> Sound(list, myList) /\ myList[activeProcess] = Nil
  /\ HintCoversRunQueues <=> Covered(list, highestRunnable)
<1>1. MaxPriority \in Nat \ {0} /\ Nil \notin Processes \cup Lists /\ Priorities \cap Waitables = {}
  BY ConstantsAssumption DEF ConstantsAssumption
<1>2. OneListEach <=> Sound(list, myList) /\ myList[activeProcess] = Nil
  BY DEF OneListEach, Sound, Members, NoRepeats
<1>3. \A p : OnNoList(p) <=> Free(list, p)
  BY DEF OnNoList, OnList, Free, Members
<1>4. \A p, l : OnList(p, l) <=> p \in Members(list[l])
  BY DEF OnList, Members
<1>5. HintCoversRunQueues <=> Covered(list, highestRunnable)
  BY DEF HintCoversRunQueues, Covered
<1>6. QED
  BY <1>1, <1>2, <1>3, <1>4, <1>5 DEF Lists, Priorities, Waitables

\* A process that believes to be on no list is on none.
LEMMA NilIsFree ==
  ASSUME NEW L, NEW M, Sound(L, M), NEW p, M[p] = Nil
  PROVE  Free(L, p)
BY Vocabulary DEF Sound, Free

\* What a process on no list believes does not matter.
LEMMA Repoint ==
  ASSUME NEW L \in LinkedLists, NEW M \in BackLinks, Sound(L, M),
         NEW p \in Processes, Free(L, p), NEW x
  PROVE  Sound(L, [M EXCEPT ![p] = x])
<1>1. ASSUME NEW l \in Lists, NEW q \in Members(L[l]) PROVE q \in Processes /\ q # p
  BY EmptyMembers, <1>1 DEF Free, LinkedLists
<1>2. QED
  BY <1>1 DEF Sound, BackLinks

\* The lists L and N differ in list l only, where N has p and L does not.
Linked(L, N, p, l) ==
  /\ N \in LinkedLists
  /\ \A m \in Lists : m # l => N[m] = L[m]
  /\ Members(N[l]) = Members(L[l]) \cup {p}
  /\ NoRepeats(L[l]) /\ p \notin Members(L[l]) => NoRepeats(N[l])

LEMMA LinkSound ==
  ASSUME NEW L \in LinkedLists, NEW M \in BackLinks, NEW N,
         NEW p \in Processes, NEW l \in Lists,
         Linked(L, N, p, l), Sound(L, M), Free(L, p)
  PROVE  Sound(N, [M EXCEPT ![p] = l])
<1>1. Sound(L, [M EXCEPT ![p] = l])
  BY Repoint
<1>2. QED
  BY <1>1 DEF Sound, Linked, Free, BackLinks

LEMMA AddLastLinks ==
  ASSUME NEW L \in LinkedLists, NEW p \in Processes, NEW l \in Lists
  PROVE  /\ Linked(L, AddLast(L, p, l), p, l)
         /\ \A k \in DOMAIN L[l] : /\ k \in DOMAIN AddLast(L, p, l)[l]
                                  /\ AddLast(L, p, l)[l][k] = L[l][k]
<1>1. L[l] \in Seq(Processes)
  BY DEF LinkedLists
<1>2. AddLast(L, p, l)[l] = Append(L[l], p) /\ \A m \in Lists : m # l => AddLast(L, p, l)[m] = L[m]
  BY DEF AddLast, LinkedLists
<1>3. AddLast(L, p, l) \in LinkedLists
  BY <1>1, AppendMembers DEF AddLast, LinkedLists
<1>4. Linked(L, AddLast(L, p, l), p, l)
  BY <1>1, <1>2, <1>3, AppendMembers DEF Linked
<1>5. \A k \in DOMAIN L[l] : k \in DOMAIN Append(L[l], p) /\ Append(L[l], p)[k] = L[l][k]
  <2>1. /\ Len(L[l]) \in Nat /\ DOMAIN L[l] = 1 .. Len(L[l])
        /\ DOMAIN Append(L[l], p) = 1 .. Len(Append(L[l], p))
        /\ Len(Append(L[l], p)) = Len(L[l]) + 1
        /\ \A k \in 1 .. Len(L[l]) : Append(L[l], p)[k] = L[l][k]
    BY <1>1, AppendProperties, LenProperties
  <2>2. QED
    BY <2>1
<1>6. QED
  BY <1>2, <1>4, <1>5

LEMMA AddFirstLinks ==
  ASSUME NEW L \in LinkedLists, NEW p \in Processes, NEW l \in Lists
  PROVE  Linked(L, AddFirst(L, p, l), p, l)
<1>1. L[l] \in Seq(Processes)
  BY DEF LinkedLists
<1>2. AddFirst(L, p, l)[l] = <<p>> \o L[l] /\ \A m \in Lists : m # l => AddFirst(L, p, l)[m] = L[m]
  BY DEF AddFirst, LinkedLists
<1>3. AddFirst(L, p, l) \in LinkedLists
  BY <1>1, PushMembers DEF AddFirst, LinkedLists
<1>4. QED
  BY <1>1, <1>2, <1>3, PushMembers DEF Linked

\* ... where N no longer has p.
Unlinked(L, N, p, l) ==
  /\ N \in LinkedLists
  /\ p \in Processes
  /\ p \in Members(L[l])
  /\ \A m \in Lists : m # l => N[m] = L[m]
  /\ Members(N[l]) \subseteq Members(L[l])
  /\ NoRepeats(L[l]) => NoRepeats(N[l]) /\ Members(N[l]) = Members(L[l]) \ {p}

LEMMA UnlinkSound ==
  ASSUME NEW L \in LinkedLists, NEW M \in BackLinks, NEW N,
         NEW p, NEW l \in Lists,
         Unlinked(L, N, p, l), Sound(L, M)
  PROVE  Sound(N, M) /\ Free(N, p) /\ M[p] = l
<1>1. M[p] = l
  BY DEF Sound, Unlinked
<1>2. Sound(N, M)
  BY DEF Sound, Unlinked
<1>3. Free(N, p)
  BY <1>1 DEF Sound, Unlinked, Free
<1>4. QED
  BY <1>1, <1>2, <1>3

LEMMA RemoveFirstUnlinks ==
  ASSUME NEW L \in LinkedLists, NEW l \in Lists, L[l] # <<>>
  PROVE  Unlinked(L, RemoveFirst(L, l), Head(L[l]), l)
<1>1. L[l] \in Seq(Processes)
  BY DEF LinkedLists
<1>2. RemoveFirst(L, l)[l] = Tail(L[l]) /\ \A m \in Lists : m # l => RemoveFirst(L, l)[m] = L[m]
  BY DEF RemoveFirst, LinkedLists
<1>3. RemoveFirst(L, l) \in LinkedLists
  BY <1>1, TailMembers DEF RemoveFirst, LinkedLists
<1>4. QED
  BY <1>1, <1>2, <1>3, TailMembers DEF Unlinked

LEMMA RemoveUnlinks ==
  ASSUME NEW L \in LinkedLists, NEW l \in Lists, NEW p \in Members(L[l])
  PROVE  Unlinked(L, Remove(L, p, l), p, l)
<1> DEFINE k == CHOOSE n \in DOMAIN L[l] : L[l][n] = p
<1>1. L[l] \in Seq(Processes)
  BY DEF LinkedLists
<1>2. k \in DOMAIN L[l] /\ L[l][k] = p
  BY DEF Members
<1>3. Remove(L, p, l) = [L EXCEPT ![l] = SubSeq(L[l], 1, k - 1) \o SubSeq(L[l], k + 1, Len(L[l]))]
  BY DEF Remove, LinkedLists
<1> HIDE DEF k
<1> DEFINE t == SubSeq(L[l], 1, k - 1) \o SubSeq(L[l], k + 1, Len(L[l]))
<1>4. /\ t \in Seq(Processes)
      /\ Members(t) \subseteq Members(L[l])
      /\ NoRepeats(L[l]) => Members(t) = Members(L[l]) \ {p} /\ NoRepeats(t)
  BY <1>1, <1>2, CutMembers
<1> HIDE DEF t
<1>5. Remove(L, p, l) = [L EXCEPT ![l] = t]
  BY <1>3 DEF t
<1>6. Remove(L, p, l) \in LinkedLists /\ Remove(L, p, l)[l] = t
      /\ \A m \in Lists : m # l => Remove(L, p, l)[m] = L[m]
  BY <1>4, <1>5 DEF LinkedLists
<1>7. p \in Processes
  BY <1>1, EmptyMembers
<1>8. QED
  BY <1>4, <1>6, <1>7 DEF Unlinked

-----------------------------------------------------------------------------
(* The shapes a step can have, whichever primitive it belongs to.           *)

\* p is ready to be resumed once the lists are L.
Woken(L, p) ==
  \/ L = list /\ p # activeProcess /\ Free(list, p) /\ suspendedContext[p] = "live"
  \/ \E w \in Waitables : Unlinked(list, L, p, w)

\* The active process is about to stop, with the lists L and M.
Left(L, M) ==
  \/ L = list /\ M = myList
  \/ \E l \in Lists :
       /\ l \in Waitables \/ (l = priority[activeProcess] /\ list[l] # <<>>)
       /\ Linked(list, L, activeProcess, l)
       /\ \A k \in DOMAIN list[l] : k \in DOMAIN L[l] /\ L[l][k] = list[l][k]
       /\ M = [myList EXCEPT ![activeProcess] = l]

QuietStep ==
  /\ UNCHANGED <<list, myList, activeProcess, highestRunnable, halted>>
  /\ suspendedContext' \in [Processes -> {"live", "nil"}]
  /\ suspendedContext'[IdleProcess] = suspendedContext[IdleProcess]
  /\ \A p \in Processes : suspendedContext'[p] \in {suspendedContext[p], "nil"}
  /\ \A p \in Processes : suspendedContext'[p] # suspendedContext[p] => myList[p] \in MakesZombies

ReadyStep ==
  /\ UNCHANGED halted
  /\ \E L \in LinkedLists, p \in Processes : Woken(L, p) /\ ResumeOrPreempt(L, p)

BlockStep ==
  /\ Running
  /\ \E L \in LinkedLists, M \in BackLinks : Left(L, M) /\ TransferToWoken(L, M)

SuspendStep ==
  /\ UNCHANGED <<suspendedContext, activeProcess, highestRunnable, halted>>
  /\ \E p \in Processes, l \in Lists :
       /\ p \notin {activeProcess, IdleProcess}
       /\ Unlinked(list, list', p, l)
       /\ myList' = [myList EXCEPT ![p] = Nil]

\* What TypeOK says of the lists and of who runs.
LEMMA Typed ==
  ASSUME TypeOK
  PROVE  /\ list \in LinkedLists /\ myList \in BackLinks
         /\ priority \in [Processes -> Priorities]
         /\ suspendedContext \in [Processes -> {"live", "nil"}]
         /\ activeProcess \in Processes /\ IdleProcess \in Processes
         /\ highestRunnable \in 0 .. MaxPriority
         /\ halted \in BOOLEAN
BY ConstantsAssumption DEF ConstantsAssumption, TypeOK, LinkedLists, BackLinks

\* Taking the first waiter off a semaphore's or section's list.
LEMMA WokenFirst ==
  ASSUME TypeOK, NEW w \in Waitables, list[w] # <<>>
  PROVE  /\ RemoveFirst(list, w) \in LinkedLists
         /\ Head(list[w]) \in Processes
         /\ Woken(RemoveFirst(list, w), Head(list[w]))
<1>1. w \in Lists
  BY Vocabulary
<1>2. Unlinked(list, RemoveFirst(list, w), Head(list[w]), w)
  BY <1>1, Typed, RemoveFirstUnlinks
<1>3. QED
  BY <1>2 DEF Unlinked, Woken

\* addLastLink of the active process
LEMMA LeftBlocked ==
  ASSUME TypeOK, Running, NEW l \in Lists, BlockOn(l),
         l \in Waitables \/ (l = priority[activeProcess] /\ list[l] # <<>>)
  PROVE  BlockStep
<1> DEFINE L == AddLast(list, activeProcess, l)
           M == [myList EXCEPT ![activeProcess] = l]
<1>1. /\ Linked(list, L, activeProcess, l)
      /\ \A k \in DOMAIN list[l] : k \in DOMAIN L[l] /\ L[l][k] = list[l][k]
  BY Typed, AddLastLinks
<1>2. M \in BackLinks
  BY Typed DEF BackLinks
<1>3. Left(L, M)
  BY <1>1 DEF Left
<1>4. L \in LinkedLists
  BY <1>1 DEF Linked
<1>5. QED
  BY <1>2, <1>3, <1>4 DEF BlockStep, BlockOn

\* Every primitive has one of the shapes.
LEMMA Shapes ==
  ASSUME TypeOK, [Next]_vars
  PROVE  QuietStep \/ ReadyStep \/ BlockStep \/ SuspendStep
<1> USE Typed
<1>1. ASSUME NEW p \in Processes, Resume(p) PROVE ReadyStep
  BY <1>1, Vocabulary DEF Resume, ReadyStep, Woken
<1>2. ASSUME NEW p \in Processes, Suspend(p) PROVE SuspendStep
  <2>1. myList[p] \in Lists /\ p \in Members(list[myList[p]])
    BY <1>2, Vocabulary DEF Suspend, BackLinks
  <2>2. Unlinked(list, Remove(list, p, myList[p]), p, myList[p])
    BY <2>1, RemoveUnlinks
  <2>3. QED
    BY <1>2, <2>1, <2>2 DEF Suspend, SuspendStep
<1>3. ASSUME NEW p \in Processes, DropContext(p) PROVE QuietStep
  BY <1>3 DEF DropContext, QuietStep
<1>4. ASSUME NEW p \in Processes, NEW n \in Priorities, SetPriority(p, n) PROVE QuietStep
  BY <1>4 DEF SetPriority, QuietStep
<1>5. ASSUME NEW s \in Semaphores, Signal(s) PROVE QuietStep \/ ReadyStep
  <2>1. CASE list[s] = <<>>
    BY <1>5, <2>1 DEF Signal, QuietStep
  <2>2. CASE list[s] # <<>>
    BY <1>5, <2>2, WokenFirst, Vocabulary DEF Signal, ReadyStep
  <2>3. QED
    BY <2>1, <2>2
<1>6. ASSUME NEW s \in Semaphores, Wait(s) PROVE QuietStep \/ BlockStep
  <2>1. CASE UNCHANGED <<list, myList, highestRunnable, activeProcess, suspendedContext, halted>>
    BY <2>1 DEF QuietStep
  <2>2. CASE BlockOn(s)
    <3>1. Running
      BY <1>6 DEF Wait
    <3>2. s \in Waitables /\ s \in Lists
      BY Vocabulary
    <3>3. QED
      BY <2>2, <3>1, <3>2, LeftBlocked
  <2>3. \/ UNCHANGED <<list, myList, highestRunnable, activeProcess, suspendedContext, halted>>
        \/ BlockOn(s)
    BY <1>6, Zenon DEF Wait
  <2>4. QED
    BY <2>1, <2>2, <2>3
<1>7. ASSUME NEW c \in CriticalSections, EnterCriticalSection(c) PROVE QuietStep \/ BlockStep
  <2>1. CASE UNCHANGED <<list, myList, highestRunnable, activeProcess, suspendedContext, halted>>
    BY <2>1 DEF QuietStep
  <2>2. CASE BlockOn(c)
    <3>1. Running
      BY <1>7 DEF EnterCriticalSection
    <3>2. c \in Waitables /\ c \in Lists
      BY Vocabulary
    <3>3. QED
      BY <2>2, <3>1, <3>2, LeftBlocked
  <2>3. \/ UNCHANGED <<list, myList, highestRunnable, activeProcess, suspendedContext, halted>>
        \/ BlockOn(c)
    BY <1>7, Zenon DEF EnterCriticalSection
  <2>4. QED
    BY <2>1, <2>2, <2>3
<1>8. ASSUME NEW c \in CriticalSections, TestAndSetOwnershipOfCriticalSection(c) PROVE QuietStep
  BY <1>8 DEF TestAndSetOwnershipOfCriticalSection, QuietStep
<1>9. ASSUME NEW c \in CriticalSections, ExitCriticalSection(c) PROVE QuietStep \/ ReadyStep
  <2>1. CASE list[c] = <<>>
    BY <1>9, <2>1 DEF ExitCriticalSection, QuietStep
  <2>2. CASE list[c] # <<>>
    BY <1>9, <2>2, WokenFirst, Vocabulary DEF ExitCriticalSection, ReadyStep
  <2>3. QED
    BY <2>1, <2>2
<1>10. ASSUME SuspendActive PROVE BlockStep
  BY <1>10 DEF SuspendActive, BlockStep, Left
<1>11. ASSUME Yield PROVE BlockStep
  BY <1>11, LeftBlocked, Vocabulary DEF Yield
<1>12. ASSUME UNCHANGED vars PROVE QuietStep
  BY <1>12 DEF vars, QuietStep
<1>13. QED
  BY <1>1, <1>2, <1>3, <1>4, <1>5, <1>6, <1>7, <1>8, <1>9, <1>10, <1>11, <1>12 DEF Next

-----------------------------------------------------------------------------
(* The effect of the operators the primitives share.                        *)

LEMMA PutToSleepEffect ==
  ASSUME TypeOK, NEW L \in LinkedLists, NEW M \in BackLinks, NEW p \in Processes,
         NEW yielding, PutToSleep(L, M, p, yielding)
  PROVE  /\ Linked(L, list', p, priority[p])
         /\ priority[p] \in Priorities
         /\ myList' = [M EXCEPT ![p] = priority[p]]
         /\ myList' \in BackLinks
         /\ highestRunnable' \in 0 .. MaxPriority
         /\ Sound(L, M) /\ Free(L, p) => Sound(list', myList')
         /\ Covered(L, highestRunnable) => Covered(list', highestRunnable')
<1>1. priority[p] \in Priorities /\ priority[p] \in Lists
  BY Typed, Vocabulary
<1>2. Linked(L, list', p, priority[p])
  BY <1>1, AddLastLinks, AddFirstLinks DEF PutToSleep
<1>3. myList' = [M EXCEPT ![p] = priority[p]] /\ myList' \in BackLinks
  BY <1>1 DEF PutToSleep, BackLinks
<1>4. highestRunnable' \in 0 .. MaxPriority
  BY <1>1, Typed, Vocabulary DEF PutToSleep
<1>5. Sound(L, M) /\ Free(L, p) => Sound(list', myList')
  BY <1>1, <1>2, <1>3, LinkSound
<1>6. ASSUME Covered(L, highestRunnable), highestRunnable' # 0,
             NEW q \in Priorities, q > highestRunnable'
      PROVE  list'[q] = <<>>
  <2>1. highestRunnable # 0 /\ q > highestRunnable /\ q # priority[p]
    BY <1>1, <1>6, Typed, Vocabulary DEF PutToSleep
  <2>2. list'[q] = L[q]
    BY <2>1, <1>2, Vocabulary DEF Linked
  <2>3. QED
    BY <2>1, <2>2, <1>6 DEF Covered
<1>7. QED
  BY <1>1, <1>2, <1>3, <1>4, <1>5, <1>6 DEF Covered

LEMMA TransferToEffect ==
  ASSUME TypeOK, NEW p \in Processes, TransferTo(p)
  PROVE  /\ activeProcess' = p
         /\ suspendedContext' \in [Processes -> {"live", "nil"}]
         /\ suspendedContext'[p] = "nil"
         /\ activeProcess # p => suspendedContext'[activeProcess] = "live"
         /\ \A q \in Processes \ {activeProcess, p} : suspendedContext'[q] = suspendedContext[q]
BY Typed DEF TransferTo

\* wakeHighestPriority finds link k of queue q: the queues above q, and q up to k,
\* are emptied.
Finds(L, q, k) ==
  /\ q \in RunnableQueues(L)
  /\ k \in Runnable(L, q)
  /\ \A h \in RunnableQueues(L) : h <= q
  /\ \A j \in Runnable(L, q) : k <= j

LEMMA SearchFromType ==
  ASSUME TypeOK
  PROVE  /\ SearchFrom \in Priorities
         /\ highestRunnable # 0 => SearchFrom = highestRunnable
         /\ highestRunnable = 0 => SearchFrom = MaxPriority
BY Typed, Vocabulary DEF SearchFrom

LEMMA TransferToLinkEffect ==
  ASSUME TypeOK, NEW L \in LinkedLists, NEW M \in BackLinks, NEW q, NEW k,
         Finds(L, q, k), TransferToLink(L, M, q, k)
  PROVE  /\ q \in Priorities /\ k \in DOMAIN L[q] /\ L[q][k] \in Processes
         /\ TransferTo(L[q][k])
         /\ list' \in LinkedLists
         /\ \A i \in DOMAIN L[q] : i > k => L[q][i] \in Members(list'[q])
         /\ Members(list'[q]) \subseteq Members(L[q])
         /\ \A m \in Lists : m \in q + 1 .. SearchFrom => list'[m] = <<>>
         /\ \A m \in Lists : m # q /\ m \notin q + 1 .. SearchFrom => list'[m] = L[m]
         /\ myList' = [M EXCEPT ![L[q][k]] = Nil] /\ myList' \in BackLinks
         /\ highestRunnable' = q /\ highestRunnable' \in 0 .. MaxPriority
         /\ Sound(L, M) => Sound(list', myList') /\ myList'[activeProcess'] = Nil
         /\ Covered(L, highestRunnable) => Covered(list', highestRunnable')
<1> DEFINE p == L[q][k]
           t == SubSeq(L[q], k + 1, Len(L[q]))
<1>1. q \in Priorities /\ q \in Lists /\ q \notin q + 1 .. SearchFrom /\ q <= SearchFrom
  BY SearchFromType, Vocabulary DEF Finds, RunnableQueues
<1>2. k \in DOMAIN L[q]
  BY DEF Finds, Runnable
<1>3. L[q] \in Seq(Processes)
  BY <1>1 DEF LinkedLists
<1>4. p \in Processes
  BY <1>2, <1>3, LenProperties, ElementOfSeq
<1>5. /\ t \in Seq(Processes)
      /\ Members(t) = {L[q][j] : j \in {i \in DOMAIN L[q] : i > k}}
      /\ Members(t) \subseteq Members(L[q])
      /\ NoRepeats(L[q]) => NoRepeats(t) /\ p \notin Members(t)
  <2>1. /\ t \in Seq(Processes)
        /\ Members(t) = {L[q][j] : j \in {i \in DOMAIN L[q] : i > k}}
        /\ NoRepeats(L[q]) => NoRepeats(t) /\ p \notin Members(t)
    BY <1>2, <1>3, RestMembers
  <2> HIDE DEF t
  <2>2. {L[q][j] : j \in {i \in DOMAIN L[q] : i > k}} \subseteq Members(L[q])
    BY DEF Members
  <2>3. QED
    BY <2>1, <2>2
<1> HIDE DEF t
<1>6. list' = [l \in Lists |-> CASE l = q -> t
                                 [] l \in q + 1 .. SearchFrom -> <<>>
                                 [] OTHER -> L[l]]
  BY DEF TransferToLink, t
<1>7. /\ list'[q] = t
      /\ \A m \in Lists : m \in q + 1 .. SearchFrom => list'[m] = <<>>
      /\ \A m \in Lists : m # q /\ m \notin q + 1 .. SearchFrom => list'[m] = L[m]
  BY <1>1, <1>6
<1>8. list' \in LinkedLists
  <2>1. ASSUME NEW m \in Lists PROVE list'[m] \in Seq(Processes)
    BY <1>5, <1>7, EmptySeq DEF LinkedLists
  <2>2. list' = [m \in Lists |-> list'[m]]
    BY <1>6
  <2>3. QED
    BY <2>1, <2>2 DEF LinkedLists
<1>9. myList' = [M EXCEPT ![p] = Nil] /\ myList' \in BackLinks
  BY <1>4 DEF TransferToLink, BackLinks
<1>10. highestRunnable' = q /\ highestRunnable' \in 0 .. MaxPriority /\ TransferTo(p)
  BY <1>1, Vocabulary DEF TransferToLink
<1>11. ASSUME Sound(L, M) PROVE Sound(list', myList') /\ myList'[activeProcess'] = Nil
  <2>1. Members(<<>>) = {} /\ NoRepeats(<<>>)
    BY DEF Members, NoRepeats
  <2>2. Sound(list', M)
    BY <1>5, <1>7, <1>11, <2>1 DEF Sound
  <2>3. M[p] = q
    BY <1>1, <1>2, <1>11 DEF Sound, Members
  <2>4. Free(list', p)
    BY <2>2, <2>3, <1>1, <1>5, <1>7, <1>11 DEF Free, Sound
  <2>5. Sound(list', myList')
    BY <2>2, <2>4, <1>4, <1>8, <1>9, Repoint
  <2>6. QED
    BY <2>5, <1>4, <1>9, <1>10 DEF TransferTo, BackLinks
<1>12. ASSUME Covered(L, highestRunnable), NEW m \in Priorities, m > q
       PROVE  list'[m] = <<>>
  <2>1. CASE m \in q + 1 .. SearchFrom
    BY <2>1, <1>7, Vocabulary
  <2>2. CASE m \notin q + 1 .. SearchFrom
    <3>1. highestRunnable # 0 /\ m > highestRunnable /\ m # q /\ m \in Lists
      BY <2>2, <1>1, <1>12, SearchFromType, Typed, Vocabulary
    <3>2. QED
      BY <2>2, <3>1, <1>7, <1>12 DEF Covered
  <2>3. QED
    BY <2>1, <2>2
<1>13. QED
  BY <1>1, <1>2, <1>4, <1>5, <1>7, <1>8, <1>9, <1>10, <1>11, <1>12 DEF Covered

-----------------------------------------------------------------------------
(* The effect of a step: types, lists and the hint.                         *)

Effect ==
  /\ list' \in LinkedLists /\ myList' \in BackLinks
  /\ suspendedContext' \in [Processes -> {"live", "nil"}]
  /\ activeProcess' \in Processes
  /\ highestRunnable' \in 0 .. MaxPriority
  /\ halted' \in BOOLEAN
  /\ OneListEach => Sound(list', myList') /\ myList'[activeProcess'] = Nil
  /\ HintCoversRunQueues => Covered(list', highestRunnable')

\* A process that leaves list l for another place, or for none, uncovers nothing.
LEMMA UnlinkCovered ==
  ASSUME NEW L \in LinkedLists, NEW N, NEW p, NEW l \in Lists, NEW h,
         Unlinked(L, N, p, l), Covered(L, h)
  PROVE  Covered(N, h)
<1>1. ASSUME NEW q \in Priorities, L[q] = <<>> PROVE N[q] = <<>>
  <2>1. q \in Lists /\ L[q] \in Seq(Processes) /\ N[q] \in Seq(Processes)
    BY Vocabulary DEF LinkedLists, Unlinked
  <2>2. CASE q = l
    BY <1>1, <2>1, <2>2, EmptyMembers DEF Unlinked
  <2>3. CASE q # l
    BY <1>1, <2>1, <2>3 DEF Unlinked
  <2>4. QED
    BY <2>2, <2>3
<1>2. QED
  BY <1>1 DEF Covered

LEMMA WokenEffect ==
  ASSUME TypeOK, NEW L \in LinkedLists, NEW p \in Processes, Woken(L, p)
  PROVE  /\ OneListEach => Sound(L, myList) /\ Free(L, p) /\ p # activeProcess
         /\ HintCoversRunQueues => Covered(L, highestRunnable)
<1>1. CASE L = list /\ p # activeProcess /\ Free(list, p) /\ suspendedContext[p] = "live"
  BY <1>1, Vocabulary
<1>2. ASSUME NEW w \in Waitables, Unlinked(list, L, p, w)
      PROVE  /\ OneListEach => Sound(L, myList) /\ Free(L, p) /\ p # activeProcess
             /\ HintCoversRunQueues => Covered(L, highestRunnable)
  <2>1. w \in Lists /\ w # Nil
    BY Vocabulary
  <2>2. OneListEach => Sound(L, myList) /\ Free(L, p) /\ myList[p] = w
    BY <1>2, <2>1, Typed, UnlinkSound, Vocabulary
  <2>3. HintCoversRunQueues => Covered(L, highestRunnable)
    BY <1>2, <2>1, Typed, UnlinkCovered, Vocabulary
  <2>4. QED
    BY <2>1, <2>2, <2>3, Vocabulary
<1>3. QED
  BY <1>1, <1>2 DEF Woken

LEMMA ReadyEffect ==
  ASSUME TypeOK, ReadyStep
  PROVE  Effect
<1>1. PICK L \in LinkedLists, p \in Processes : Woken(L, p) /\ ResumeOrPreempt(L, p)
  BY DEF ReadyStep
<1>2. /\ OneListEach => /\ Sound(L, myList) /\ Free(L, p) /\ p # activeProcess
                        /\ myList[activeProcess] = Nil
      /\ HintCoversRunQueues => Covered(L, highestRunnable)
  BY <1>1, WokenEffect, Vocabulary
<1>3. halted' \in BOOLEAN
  BY Typed DEF ReadyStep
<1>4. CASE PutToSleep(L, myList, p, TRUE) /\ UNCHANGED <<activeProcess, suspendedContext>>
  <2>1. /\ Linked(L, list', p, priority[p]) /\ myList' = [myList EXCEPT ![p] = priority[p]]
        /\ myList' \in BackLinks /\ highestRunnable' \in 0 .. MaxPriority
        /\ Sound(L, myList) /\ Free(L, p) => Sound(list', myList')
        /\ Covered(L, highestRunnable) => Covered(list', highestRunnable')
    BY <1>4, Typed, PutToSleepEffect
  <2>2. p # activeProcess => myList'[activeProcess'] = myList[activeProcess]
    BY <1>4, <2>1, Typed DEF BackLinks
  <2>3. QED
    BY <1>2, <1>3, <1>4, <2>1, <2>2, Typed DEF Effect, Linked
<1>5. CASE /\ PutToSleep(L, [myList EXCEPT ![p] = Nil], activeProcess, PreemptionYields)
           /\ TransferTo(p)
  <2> DEFINE M == [myList EXCEPT ![p] = Nil]
  <2>1. M \in BackLinks
    BY Typed DEF BackLinks
  <2>2. /\ Linked(L, list', activeProcess, priority[activeProcess])
        /\ myList' = [M EXCEPT ![activeProcess] = priority[activeProcess]]
        /\ myList' \in BackLinks /\ highestRunnable' \in 0 .. MaxPriority
        /\ Sound(L, M) /\ Free(L, activeProcess) => Sound(list', myList')
        /\ Covered(L, highestRunnable) => Covered(list', highestRunnable')
    BY <1>5, <2>1, Typed, PutToSleepEffect
  <2>3. activeProcess' = p /\ suspendedContext' \in [Processes -> {"live", "nil"}]
    BY <1>5, TransferToEffect
  <2>4. ASSUME OneListEach
        PROVE  Sound(L, M) /\ Free(L, activeProcess)
    BY <1>2, <2>4, Typed, Repoint, NilIsFree
  <2>5. p # activeProcess => myList'[p] = Nil
    BY <2>2, Typed DEF BackLinks
  <2>6. QED
    BY <1>2, <1>3, <2>2, <2>3, <2>4, <2>5 DEF Effect, Linked
<1>6. QED
  BY <1>1, <1>4, <1>5 DEF ResumeOrPreempt

LEMMA LeftEffect ==
  ASSUME TypeOK, NEW L \in LinkedLists, NEW M \in BackLinks, Left(L, M)
  PROVE  /\ OneListEach => Sound(L, M)
         /\ HintCoversRunQueues => Covered(L, highestRunnable)
<1>1. CASE L = list /\ M = myList
  BY <1>1, Vocabulary
<1>2. ASSUME NEW l \in Lists, Linked(list, L, activeProcess, l),
             l \in Waitables \/ (l = priority[activeProcess] /\ list[l] # <<>>),
             M = [myList EXCEPT ![activeProcess] = l]
      PROVE  /\ OneListEach => Sound(L, M)
             /\ HintCoversRunQueues => Covered(L, highestRunnable)
  <2>1. OneListEach => Sound(list, myList) /\ Free(list, activeProcess)
    BY Vocabulary, NilIsFree
  <2>2. OneListEach => Sound(L, M)
    BY <1>2, <2>1, Typed, LinkSound
  <2>3. ASSUME NEW q \in Priorities, list[q] = <<>> PROVE L[q] = <<>>
    BY <1>2, <2>3, Vocabulary DEF Linked
  <2>4. QED
    BY <2>2, <2>3, Vocabulary DEF Covered
<1>3. QED
  BY <1>1, <1>2 DEF Left

LEMMA BlockEffect ==
  ASSUME TypeOK, BlockStep
  PROVE  Effect
<1>1. PICK L \in LinkedLists, M \in BackLinks : Left(L, M) /\ TransferToWoken(L, M)
  BY DEF BlockStep
<1>2. /\ OneListEach => Sound(L, M)
      /\ HintCoversRunQueues => Covered(L, highestRunnable)
  BY <1>1, LeftEffect
<1>3. CASE /\ halted' = TRUE
           /\ UNCHANGED <<list, myList, suspendedContext, activeProcess, highestRunnable>>
  BY <1>3, Typed, Vocabulary DEF Effect
<1>4. ASSUME NEW q, NEW k, Finds(L, q, k), TransferToLink(L, M, q, k), UNCHANGED halted
      PROVE  Effect
  <2>1. /\ L[q][k] \in Processes /\ TransferTo(L[q][k])
        /\ list' \in LinkedLists /\ myList' \in BackLinks
        /\ highestRunnable' \in 0 .. MaxPriority
        /\ Sound(L, M) => Sound(list', myList') /\ myList'[activeProcess'] = Nil
        /\ Covered(L, highestRunnable) => Covered(list', highestRunnable')
    BY <1>4, TransferToLinkEffect
  <2>2. activeProcess' \in Processes /\ suspendedContext' \in [Processes -> {"live", "nil"}]
    BY <2>1, TransferToEffect
  <2>3. QED
    BY <1>2, <1>4, <2>1, <2>2, Typed DEF Effect
<1>5. QED
  BY <1>1, <1>3, <1>4 DEF TransferToWoken, Finds

LEMMA SuspendEffect ==
  ASSUME TypeOK, SuspendStep
  PROVE  Effect
<1>1. PICK p \in Processes, l \in Lists :
        /\ p # activeProcess
        /\ Unlinked(list, list', p, l)
        /\ myList' = [myList EXCEPT ![p] = Nil]
  BY DEF SuspendStep
<1>2. list' \in LinkedLists /\ myList' \in BackLinks
  BY <1>1, Typed DEF Unlinked, BackLinks
<1>3. OneListEach => Sound(list', myList)  /\ Free(list', p)
  BY <1>1, Typed, UnlinkSound, Vocabulary
<1>4. OneListEach => Sound(list', myList')
  BY <1>1, <1>2, <1>3, Typed, Repoint
<1>5. myList'[activeProcess] = myList[activeProcess]
  BY <1>1, Typed DEF BackLinks
<1>6. HintCoversRunQueues => Covered(list', highestRunnable)
  BY <1>1, Typed, UnlinkCovered, Vocabulary
<1>7. QED
  BY <1>2, <1>4, <1>5, <1>6, Typed, Vocabulary DEF SuspendStep, Effect

LEMMA StepEffect ==
  ASSUME TypeOK, [Next]_vars
  PROVE  Effect
<1>1. ASSUME QuietStep PROVE Effect
  BY <1>1, Typed, Vocabulary DEF QuietStep, Effect
<1>2. QED
  BY <1>1, Shapes, ReadyEffect, BlockEffect, SuspendEffect

-----------------------------------------------------------------------------
(* The theorems                                                             *)

LEMMA InitSound == Init => TypeOK /\ OneListEach /\ HintCoversRunQueues
<1> SUFFICES ASSUME Init PROVE TypeOK /\ OneListEach /\ HintCoversRunQueues
  OBVIOUS
<1>1. IdleProcess \in Processes /\ <<IdleProcess>> \in Seq(Processes) /\ <<>> \in Seq(Processes)
  BY ConstantsAssumption DEF ConstantsAssumption
<1>2. list \in [Lists -> Seq(Processes)] /\ myList \in [Processes -> Lists \cup {Nil}]
  BY <1>1, Vocabulary DEF Init
<1>3. 0 \in 0 .. MaxPriority
  BY Vocabulary
<1>4. TypeOK
  BY <1>2, <1>3 DEF Init, TypeOK
<1>5. Members(<<>>) = {} /\ NoRepeats(<<>>)
  BY DEF Members, NoRepeats
<1>6. Members(<<IdleProcess>>) = {IdleProcess} /\ NoRepeats(<<IdleProcess>>)
  BY DEF Members, NoRepeats
<1>7. Sound(list, myList) /\ myList[activeProcess] = Nil
  <2>1. CASE activeProcess = IdleProcess
    BY <1>5, <2>1 DEF Init, Sound
  <2>2. CASE activeProcess # IdleProcess
    <3>1. /\ list = [l \in Lists |-> IF l = 1 THEN <<IdleProcess>> ELSE <<>>]
          /\ myList = [p \in Processes |-> IF p = IdleProcess THEN 1 ELSE Nil]
          /\ activeProcess \in Processes
      BY <2>2 DEF Init
    <3>2. ASSUME NEW l \in Lists
          PROVE  NoRepeats(list[l]) /\ \A p \in Members(list[l]) : myList[p] = l
      <4>1. CASE l = 1
        <5>1. list[l] = <<IdleProcess>>
          BY <3>1, <4>1
        <5>2. QED
          BY <1>1, <1>6, <3>1, <4>1, <5>1
      <4>2. CASE l # 1
        <5>1. list[l] = <<>>
          BY <3>1, <4>2
        <5>2. QED
          BY <1>5, <5>1
      <4>3. QED
        BY <4>1, <4>2
    <3>3. QED
      BY <2>2, <3>1, <3>2 DEF Sound
  <2>3. QED
    BY <2>1, <2>2 DEF Init
<1>8. HintCoversRunQueues
  BY DEF Init, HintCoversRunQueues
<1>9. QED
  BY <1>4, <1>7, <1>8, Vocabulary

\* What a step does to the variables that the shapes leave open.
LEMMA CountersTyped ==
  ASSUME TypeOK, [Next]_vars
  PROVE  /\ priority' \in [Processes -> Priorities]
         /\ excessSignals' \in [Semaphores -> Nat]
         /\ owner' \in [CriticalSections -> Processes \cup {Nil}]
         /\ entered' \in [CriticalSections -> SUBSET Processes]
<1> USE Typed
<1>0. /\ excessSignals \in [Semaphores -> Nat]
      /\ owner \in [CriticalSections -> Processes \cup {Nil}]
      /\ entered \in [CriticalSections -> SUBSET Processes]
  BY DEF TypeOK
<1>1. ASSUME NEW p \in Processes, Resume(p) \/ Suspend(p) \/ DropContext(p)
      PROVE  UNCHANGED <<priority, excessSignals, owner, entered>>
  BY <1>1 DEF Resume, Suspend, DropContext, synchronisation
<1>2. ASSUME NEW p \in Processes, NEW n \in Priorities, SetPriority(p, n)
      PROVE  priority' \in [Processes -> Priorities] /\ UNCHANGED <<excessSignals, owner, entered>>
  BY <1>2 DEF SetPriority, synchronisation
<1>3. ASSUME NEW s \in Semaphores, Signal(s)
      PROVE  excessSignals' \in [Semaphores -> Nat] /\ UNCHANGED <<priority, owner, entered>>
  <2>1. UNCHANGED <<priority, owner, entered>>
    BY <1>3, Zenon DEF Signal
  <2>2. \/ excessSignals' = [excessSignals EXCEPT ![s] = @ + 1]
        \/ excessSignals' = excessSignals
    BY <1>3, Zenon DEF Signal
  <2>3. excessSignals[s] \in Nat
    BY <1>0
  <2>4. QED
    BY <1>0, <2>1, <2>2, <2>3
<1>4. ASSUME NEW s \in Semaphores, Wait(s)
      PROVE  excessSignals' \in [Semaphores -> Nat] /\ UNCHANGED <<priority, owner, entered>>
  <2>1. UNCHANGED <<priority, owner, entered>>
    BY <1>4, Zenon DEF Wait
  <2>2. \/ excessSignals[s] > 0 /\ excessSignals' = [excessSignals EXCEPT ![s] = @ - 1]
        \/ excessSignals' = excessSignals
    BY <1>4, Zenon DEF Wait
  <2>3. excessSignals[s] \in Nat
    BY <1>0
  <2>4. QED
    BY <1>0, <2>1, <2>2, <2>3
<1>5. ASSUME NEW c \in CriticalSections,
             EnterCriticalSection(c) \/ TestAndSetOwnershipOfCriticalSection(c)
      PROVE  /\ owner' \in [CriticalSections -> Processes \cup {Nil}]
             /\ entered' \in [CriticalSections -> SUBSET Processes]
             /\ UNCHANGED <<priority, excessSignals>>
  <2>1. UNCHANGED priority /\ UNCHANGED excessSignals
    BY <1>5 DEF EnterCriticalSection, TestAndSetOwnershipOfCriticalSection
  <2>2. owner' = [owner EXCEPT ![c] = activeProcess] \/ owner' = owner
    BY <1>5, Zenon DEF EnterCriticalSection, TestAndSetOwnershipOfCriticalSection
  <2>3. entered' = [entered EXCEPT ![c] = @ \cup {activeProcess}]
    BY <1>5, Zenon DEF EnterCriticalSection, TestAndSetOwnershipOfCriticalSection
  <2>4. QED
    BY <1>0, <2>1, <2>2, <2>3
<1>6. ASSUME NEW c \in CriticalSections, ExitCriticalSection(c)
      PROVE  /\ owner' \in [CriticalSections -> Processes \cup {Nil}]
             /\ entered' \in [CriticalSections -> SUBSET Processes]
             /\ UNCHANGED <<priority, excessSignals>>
  <2>1. UNCHANGED priority /\ UNCHANGED excessSignals
    BY <1>6 DEF ExitCriticalSection
  <2>2. \/ owner' = [owner EXCEPT ![c] = Nil]
        \/ list[c] # <<>> /\ owner' = [owner EXCEPT ![c] = Head(list[c])]
    BY <1>6, Zenon DEF ExitCriticalSection
  <2>3. list[c] # <<>> => Head(list[c]) \in Processes
    BY WokenFirst, Vocabulary
  <2>4. entered' = [entered EXCEPT ![c] = @ \ {activeProcess}]
    BY <1>6, Zenon DEF ExitCriticalSection
  <2>5. QED
    BY <1>0, <2>1, <2>2, <2>3, <2>4
<1>7. ASSUME SuspendActive \/ Yield
      PROVE  UNCHANGED <<priority, excessSignals, owner, entered>>
  BY <1>7 DEF SuspendActive, Yield, synchronisation
<1>8. ASSUME UNCHANGED vars
      PROVE  UNCHANGED <<priority, excessSignals, owner, entered>>
  BY <1>8 DEF vars
<1>9. QED
  BY <1>0, <1>1, <1>2, <1>3, <1>4, <1>5, <1>6, <1>7, <1>8 DEF Next

LEMMA TypeStep == TypeOK /\ [Next]_vars => TypeOK'
BY StepEffect, CountersTyped DEF Effect, TypeOK, LinkedLists, BackLinks

\* Every variable of the scheduler keeps its type, whatever programs do.
THEOREM SchedulerTypeCorrect == Spec => []TypeOK
BY InitSound, TypeStep, PTL DEF Spec

\* Whatever programs do to priorities and contexts, and whomever they suspend: no
\* primitive links a process twice, loses track of the list a process is on, or
\* leaves the active process on one.  (addLastLinktoList, removeProcessfromList and
\* their callers.)
THEOREM ListsStaySound == Spec => []OneListEach
<1>1. TypeOK /\ OneListEach /\ [Next]_vars => OneListEach'
  <2>1. OneListEach' <=> Sound(list', myList') /\ myList'[activeProcess'] = Nil
    BY DEF OneListEach, Sound, Members, NoRepeats
  <2>2. QED
    BY <2>1, StepEffect DEF Effect
<1>2. QED
  BY <1>1, InitSound, SchedulerTypeCorrect, PTL DEF Spec

\* The cached bound of wakeHighestPriority never hides a process that is ready: no
\* step links one above it without raising it.
THEOREM HintNeverHides == Spec => []HintCoversRunQueues
<1>1. TypeOK /\ HintCoversRunQueues /\ [Next]_vars => HintCoversRunQueues'
  <2>1. HintCoversRunQueues' <=> Covered(list', highestRunnable')
    BY DEF HintCoversRunQueues, Covered
  <2>2. QED
    BY <2>1, StepEffect DEF Effect
<1>2. QED
  BY <1>1, InitSound, SchedulerTypeCorrect, PTL DEF Spec
=============================================================================
