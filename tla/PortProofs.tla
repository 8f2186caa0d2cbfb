----------------------------- MODULE PortProofs -----------------------------
(***************************************************************************)
(* Proofs about Port, for any threads, objects, handles, observers and     *)
(* bounds.                                                                 *)
(***************************************************************************)
EXTENDS Port, SequenceTheorems, FiniteSetTheorems, TLAPS

-----------------------------------------------------------------------------
(* Lists.                                                                  *)

Elems(q) == {q[i] : i \in DOMAIN q}
Distinct(q) == \A i, j \in DOMAIN q : q[i] = q[j] => i = j

\* push_back.
LEMMA AppendList ==
  ASSUME NEW S, NEW q \in Seq(S), NEW x \in S
  PROVE  /\ Append(q, x) \in Seq(S)
         /\ Elems(Append(q, x)) = Elems(q) \cup {x}
         /\ Distinct(q) /\ x \notin Elems(q) => Distinct(Append(q, x))
<1>1. Append(q, x) \in Seq(S) /\ Len(Append(q, x)) = Len(q) + 1 OBVIOUS
<1>2. \A i \in 1 .. Len(q) : Append(q, x)[i] = q[i] OBVIOUS
<1>3. Append(q, x)[Len(q) + 1] = x OBVIOUS
<1>4. DOMAIN q = 1 .. Len(q) /\ DOMAIN Append(q, x) = 1 .. Len(q) + 1 BY <1>1
<1>5. Elems(Append(q, x)) = Elems(q) \cup {x}
  <2>1. \A y \in Elems(Append(q, x)) : y \in Elems(q) \cup {x}
    BY <1>2, <1>3, <1>4 DEF Elems
  <2>2. \A y \in Elems(q) : y \in Elems(Append(q, x)) BY <1>2, <1>4 DEF Elems
  <2>3. x \in Elems(Append(q, x)) BY <1>3, <1>4 DEF Elems
  <2>4. QED BY <2>1, <2>2, <2>3
<1>6. ASSUME Distinct(q), x \notin Elems(q) PROVE Distinct(Append(q, x))
  BY <1>2, <1>3, <1>4, <1>6 DEF Distinct, Elems
<1>7. QED BY <1>1, <1>5, <1>6

\* pop_front.
LEMMA TailList ==
  ASSUME NEW S, NEW q \in Seq(S), q # <<>>
  PROVE  /\ Tail(q) \in Seq(S) /\ Head(q) \in S /\ Head(q) \in Elems(q)
         /\ Distinct(q) => Distinct(Tail(q)) /\ Elems(Tail(q)) = Elems(q) \ {Head(q)}
<1>1. Tail(q) \in Seq(S) /\ Len(Tail(q)) = Len(q) - 1 /\ Head(q) \in S OBVIOUS
<1>2. \A i \in 1 .. Len(q) - 1 : Tail(q)[i] = q[i + 1] OBVIOUS
<1>3. Head(q) = q[1] /\ 1 \in 1 .. Len(q) OBVIOUS
<1>4. DOMAIN q = 1 .. Len(q) /\ DOMAIN Tail(q) = 1 .. Len(q) - 1 BY <1>1
<1>5. Head(q) \in Elems(q) BY <1>3, <1>4 DEF Elems
<1>6. ASSUME Distinct(q)
  PROVE Distinct(Tail(q)) /\ Elems(Tail(q)) = Elems(q) \ {Head(q)}
  <2>1. Distinct(Tail(q)) BY <1>2, <1>4, <1>6 DEF Distinct
  <2>2. \A y \in Elems(Tail(q)) : y \in Elems(q) \ {Head(q)}
    BY <1>2, <1>3, <1>4, <1>6 DEF Elems, Distinct
  <2>3. ASSUME NEW y \in Elems(q) \ {Head(q)} PROVE y \in Elems(Tail(q))
    <3>1. PICK i \in 1 .. Len(q) : q[i] = y BY <1>4 DEF Elems
    <3>2. i # 1 BY <3>1, <1>3
    <3>3. i - 1 \in 1 .. Len(q) - 1 /\ Tail(q)[i - 1] = y BY <1>2, <3>1, <3>2
    <3>4. QED BY <3>3, <1>4 DEF Elems
  <2>4. QED BY <2>1, <2>2, <2>3
<1>7. QED BY <1>1, <1>5, <1>6

\* erase.
LEMMA EraseList ==
  ASSUME NEW S, NEW q \in Seq(S), NEW n \in DOMAIN q
  PROVE  /\ Without(q, n) \in Seq(S)
         /\ Distinct(q) => Distinct(Without(q, n)) /\ Elems(Without(q, n)) = Elems(q) \ {q[n]}
<1> DEFINE w == Without(q, n)
<1>1. n \in 1 .. Len(q) /\ Len(q) \in Nat OBVIOUS
<1> DEFINE a == SubSeq(q, 1, n - 1)
           b == SubSeq(q, n + 1, Len(q))
<1>2. a \in Seq(S) /\ Len(a) = n - 1 /\ \A i \in 1 .. n - 1 : a[i] = q[i] BY <1>1
<1>3. b \in Seq(S) /\ Len(b) = Len(q) - n /\ \A i \in 1 .. Len(q) - n : b[i] = q[n + i]
  BY <1>1
<1>4. w = a \o b BY DEF Without
<1> HIDE DEF a, b, w
<1>5. w \in Seq(S) /\ Len(w) = Len(q) - 1
  <2>1. w \in Seq(S) /\ Len(w) = Len(a) + Len(b) BY <1>2, <1>3, <1>4, ConcatProperties
  <2>2. QED BY <2>1, <1>1, <1>2, <1>3
<1>6. \A i \in 1 .. n - 1 : w[i] = q[i]
  <2>1. \A i \in 1 .. Len(a) : w[i] = a[i] BY <1>2, <1>3, <1>4
  <2>2. QED BY <2>1, <1>2
<1>7. ASSUME NEW i \in n .. Len(q) - 1 PROVE w[i] = q[i + 1]
  <2>1. i - (n - 1) \in 1 .. Len(q) - n /\ n + (i - (n - 1)) = i + 1 BY <1>1
  <2>2. \A j \in 1 .. Len(a) + Len(b) : w[j] = IF j <= Len(a) THEN a[j] ELSE b[j - Len(a)]
    BY <1>2, <1>3, <1>4, ConcatProperties
  <2>3. w[i] = b[i - (n - 1)]
    <3>1. i \in 1 .. Len(a) + Len(b) /\ ~(i <= Len(a)) BY <1>1, <1>2, <1>3
    <3>2. QED BY <2>2, <3>1, <1>2
  <2>4. QED BY <2>1, <2>3, <1>3
<1>8. DOMAIN q = 1 .. Len(q) /\ DOMAIN w = 1 .. Len(q) - 1 BY <1>5
<1>9. ASSUME Distinct(q) PROVE Distinct(w) /\ Elems(w) = Elems(q) \ {q[n]}
  <2>1. Distinct(w)
    <3> DEFINE old(i) == IF i < n THEN i ELSE i + 1
    <3>1. ASSUME NEW i \in DOMAIN w PROVE old(i) \in DOMAIN q /\ w[i] = q[old(i)]
      <4>1. CASE i < n
        <5>1. i \in 1 .. n - 1 /\ i \in DOMAIN q BY <1>1, <1>8, <4>1
        <5>2. QED BY <5>1, <4>1, <1>6
      <4>2. CASE ~(i < n)
        <5>1. i \in n .. Len(q) - 1 /\ i + 1 \in DOMAIN q BY <1>1, <1>8, <4>2
        <5>2. QED BY <5>1, <4>2, <1>7
      <4>3. QED BY <4>1, <4>2
    <3>2. \A i, j \in DOMAIN w : old(i) = old(j) => i = j BY <1>1, <1>8
    <3> HIDE DEF old
    <3>3. ASSUME NEW i \in DOMAIN w, NEW j \in DOMAIN w, w[i] = w[j] PROVE i = j
      <4>1. q[old(i)] = q[old(j)] BY <3>1, <3>3
      <4>2. old(i) = old(j) BY <4>1, <3>1, <1>9 DEF Distinct
      <4>3. QED BY <4>2, <3>2
    <3>4. QED BY <3>3 DEF Distinct
  <2>2. ASSUME NEW y \in Elems(w) PROVE y \in Elems(q) \ {q[n]}
    <3>1. PICK i \in 1 .. Len(q) - 1 : w[i] = y BY <1>8 DEF Elems
    <3>2. CASE i < n BY <1>1, <1>6, <1>8, <1>9, <3>1, <3>2 DEF Elems, Distinct
    <3>3. CASE i >= n BY <1>1, <1>7, <1>8, <1>9, <3>1, <3>3 DEF Elems, Distinct
    <3>4. QED BY <1>1, <3>2, <3>3
  <2>3. ASSUME NEW y \in Elems(q) \ {q[n]} PROVE y \in Elems(w)
    <3>1. PICK i \in 1 .. Len(q) : q[i] = y BY <1>8 DEF Elems
    <3>2. CASE i < n
      <4>1. i \in 1 .. n - 1 /\ i \in DOMAIN w BY <1>1, <1>8, <3>1, <3>2
      <4>2. QED BY <4>1, <1>6, <3>1 DEF Elems
    <3>3. CASE i > n
      <4>1. i - 1 \in n .. Len(q) - 1 /\ i - 1 \in DOMAIN w BY <1>1, <1>8, <3>1, <3>3
      <4>2. w[i - 1] = y BY <4>1, <1>1, <1>7, <3>1
      <4>3. QED BY <4>1, <4>2 DEF Elems
    <3>4. QED BY <1>1, <3>1, <3>2, <3>3
  <2>4. QED BY <2>1, <2>2, <2>3
<1>10. QED BY <1>5, <1>9 DEF w

-----------------------------------------------------------------------------
(* Type correctness.                                                       *)

\* Code that has an observer in hand really has one.
CurHeld == \A t \in Threads : pc[t] \in {"add", "match", "reap"} => cur[t] \in Observers

TypeInv == TypeOK /\ CurHeld

\* A new port is well typed.
LEMMA TypeInit == Init => TypeInv
<1> SUFFICES ASSUME Init PROVE TypeInv OBVIOUS
<1>1. ListTypes BY DEF Init, ListTypes
<1>2. HeapTypes BY DEF Init, HeapTypes
<1>3. ObjectTypes BY DEF Init, ObjectTypes
<1>4. ThreadTypes /\ CurHeld BY DEF Init, ThreadTypes, PCs, Ops, CurHeld
<1>5. zero \in BOOLEAN BY Zenon DEF Init
<1>6. PortTypes BY <1>5 DEF Init, PortTypes
<1>7. QED BY <1>1, <1>2, <1>3, <1>4, <1>6 DEF TypeInv, TypeOK

\* Every step keeps the types.
LEMMA TypeNext == TypeInv /\ [Next]_vars => TypeInv'
<1> SUFFICES ASSUME TypeInv, [Next]_vars PROVE TypeInv' OBVIOUS
<1> USE PortAssumption
<1> USE DEF TypeInv, TypeOK, ObjectTypes, PortTypes, ListTypes, HeapTypes, ThreadTypes, CurHeld,
      PCs, Ops, Goto, tableVars, objectVars, portVars, semaVars, callVars, histVars
<1>1. ASSUME NEW t \in Threads, AddMatch(t) PROVE TypeInv'
  BY <1>1 DEF AddMatch
<1>2. ASSUME NEW t \in Threads, AddObserver(t) PROVE TypeInv'
  BY <1>2 DEF AddObserver, Return
<1>3. ASSUME NEW t \in Threads, QueueSignal(t) PROVE TypeInv'
  <2>1. CASE zero \/ cur[t] \in Queued
    BY <2>1, <1>3 DEF QueueSignal
  <2>2. CASE ~(zero \/ cur[t] \in Queued)
    <3>1. CurHeld' /\ ObjectTypes' /\ PortTypes'
      BY <1>3 DEF QueueSignal
    <3>2. HeapTypes' /\ ThreadTypes'
      BY <1>3 DEF QueueSignal
    <3>3. ListTypes'
      <4>1. packets' = Append(packets, cur[t]) /\ cur[t] \in Observers
        BY <2>2, <1>3 DEF QueueSignal
      <4>2. interrupts' = interrupts BY <1>3 DEF QueueSignal
      <4>3. packets' \in Seq(Observers \cup UserPackets) BY <4>1, AppendList
      <4>4. interrupts' \in Seq(Interrupts) BY <4>2, AppendList
      <4>5. QED BY <4>3, <4>4
    <3>4. QED BY <3>1, <3>2, <3>3
  <2>3. QED BY <2>1, <2>2
<1>4. ASSUME NEW t \in Threads, PostSignal(t) PROVE TypeInv'
  <2>1. CASE Blocked = {}
    <3>1. CurHeld' /\ ObjectTypes' /\ PortTypes' /\ ListTypes'
      BY <1>4 DEF PostSignal, SemaPost
    <3>2. HeapTypes' BY <2>1, <1>4 DEF PostSignal, SemaPost, Blocked
    <3>3. ThreadTypes' BY <2>1, <1>4 DEF PostSignal, SemaPost, Blocked
    <3>4. QED BY <3>1, <3>2, <3>3
  <2>2. CASE Blocked # {}
    BY <2>2, <1>4 DEF PostSignal, SemaPost
  <2>3. QED BY <2>1, <2>2
<1>5. ASSUME NEW t \in Threads, MaybeReap(t) PROVE TypeInv'
  <2>1. CASE op[t] = "wait_async"
    <3>1. CurHeld' /\ ObjectTypes' /\ PortTypes' /\ ListTypes'
      BY <1>5 DEF MaybeReap, Return, Unlinked
    <3>2. HeapTypes' BY <1>5 DEF MaybeReap, Destroy
    <3>3. ThreadTypes'
      <4>1. pc' \in [Threads -> PCs] /\ op' \in [Threads -> Ops]
        <5>1. pc' = [pc EXCEPT ![t] = "user"] /\ op' = [op EXCEPT ![t] = "none"]
          BY <2>1, <1>5 DEF MaybeReap, Return
        <5>2. QED BY <5>1
      <4>2. arg' \in [Threads -> Handles \cup {NoHandle}] BY <2>1, <1>5 DEF MaybeReap, Return
      <4>3. key' \in [Threads -> Keys \cup {AnyKey}] BY <2>1, <1>5 DEF MaybeReap, Return
      <4>4. cur' \in [Threads -> Observers \cup {NoObs}] BY <1>5 DEF MaybeReap
      <4>5. QED BY <4>1, <4>2, <4>3, <4>4
    <3>4. QED BY <3>1, <3>2, <3>3
  <2>2. CASE op[t] # "wait_async"
    <3>1. CurHeld' /\ ObjectTypes' /\ PortTypes' /\ ListTypes'
      BY <2>2, <1>5 DEF MaybeReap, Unlinked
    <3>2. HeapTypes' BY <1>5 DEF MaybeReap, Destroy
    <3>3. ThreadTypes' BY <2>2, <1>5 DEF MaybeReap
    <3>4. QED BY <3>1, <3>2, <3>3
  <2>3. QED BY <2>1, <2>2
<1>6. ASSUME NEW t \in Threads, NEW d \in Objects, NotifyDone(t, d) PROVE TypeInv'
  BY <1>6 DEF NotifyDone, Return
<1>7. ASSUME NEW t \in Threads, NEW d \in Objects, NEW o \in Observers, NotifyNext(t, d, o)
  PROVE TypeInv'
  BY <1>7 DEF NotifyNext
<1>8. ASSUME NEW t \in Threads, NEW h \in Handles, CancelBadHandle(t, h) PROVE TypeInv'
  BY <1>8 DEF CancelBadHandle, Return
<1>9. ASSUME NEW t \in Threads, NEW h \in Handles, NEW k \in Keys, CancelStart(t, h, k)
  PROVE TypeInv'
  BY <1>9 DEF CancelStart, Live
<1>10. ASSUME NEW t \in Threads, CancelLock(t) PROVE TypeInv'
  BY <1>10 DEF CancelLock
<1>11. ASSUME NEW t \in Threads, CloseDone(t) PROVE TypeInv'
  BY <1>11 DEF CloseDone, Return
<1>12. ASSUME NEW t \in Threads, CancelByKeyDone(t) PROVE TypeInv'
  BY <1>12 DEF CancelByKeyDone
<1>13. ASSUME NEW t \in Threads, CancelQueuedDone(t) PROVE TypeInv'
  BY <1>13 DEF CancelQueuedDone, Return
<1>14. ASSUME NEW t \in Threads, NEW i \in DOMAIN packets, CancelPacket(t, i)
  PROVE TypeInv'
  BY <1>14, EraseList DEF CancelPacket, Destroy, Uncount
<1>15. ASSUME NEW t \in Threads, NEW o \in Observers, CancelNext(t, o) PROVE TypeInv'
  BY <1>15 DEF CancelNext
<1>16. ASSUME NEW t \in Threads, QueueUserFails(t) PROVE TypeInv'
  BY <1>16 DEF QueueUserFails, Return
<1>17. ASSUME NEW t \in Threads, PostUser(t) PROVE TypeInv'
  <2>1. CASE Blocked = {}
    <3>1. CurHeld' /\ ObjectTypes' /\ PortTypes' /\ ListTypes'
      BY <1>17 DEF PostUser, SemaPost
    <3>2. HeapTypes' BY <2>1, <1>17 DEF PostUser, SemaPost, Blocked
    <3>3. ThreadTypes' BY <2>1, <1>17 DEF PostUser, SemaPost, Blocked
    <3>4. QED BY <3>1, <3>2, <3>3
  <2>2. CASE Blocked # {}
    <3>1. PICK w \in Threads : pc' = [[pc EXCEPT ![t] = "user"] EXCEPT ![w] = "dequeue_interrupt"]
      BY <2>2, <1>17 DEF PostUser, SemaPost, Blocked
    <3>2. ObjectTypes' /\ PortTypes' /\ ListTypes' BY <1>17 DEF PostUser
    <3>3. CurHeld' BY <1>17, <3>1 DEF PostUser
    <3>4. HeapTypes' BY <2>2, <1>17 DEF PostUser, SemaPost
    <3>5. ThreadTypes'
      <4>1. pc' \in [Threads -> PCs] BY <3>1
      <4>2. op' \in [Threads -> Ops] BY <1>17 DEF PostUser
      <4>3. UNCHANGED <<arg, key, cur>> BY <1>17 DEF PostUser
      <4>4. QED BY <4>1, <4>2, <4>3
    <3>6. QED BY <3>2, <3>3, <3>4, <3>5
  <2>3. QED BY <2>1, <2>2
<1>18. ASSUME NEW t \in Threads, NEW u \in UserPackets, QueueUser(t, u) PROVE TypeInv'
  BY <1>18 DEF QueueUser
<1>19. ASSUME NEW t \in Threads, SemaWait(t) PROVE TypeInv'
  BY <1>19 DEF SemaWait, CountAvailable
<1>20. ASSUME NEW t \in Threads, DequeueInterrupt(t) PROVE TypeInv'
  <2>1. CASE interrupts # <<>>
    <3>1. CurHeld' /\ ObjectTypes' /\ PortTypes'
      BY <1>20 DEF DequeueInterrupt, Return
    <3>2. HeapTypes' /\ ThreadTypes'
      BY <2>1, <1>20 DEF DequeueInterrupt, Return
    <3>3. ListTypes'
      <4>1. packets' = packets BY <1>20 DEF DequeueInterrupt
      <4>2. interrupts' = Tail(interrupts) /\ interrupts # <<>>
        BY <2>1, <1>20 DEF DequeueInterrupt
      <4>3. packets' \in Seq(Observers \cup UserPackets) BY <4>1, TailList
      <4>4. interrupts' \in Seq(Interrupts) BY <4>2, TailList
      <4>5. QED BY <4>3, <4>4
    <3>4. QED BY <3>1, <3>2, <3>3
  <2>2. CASE interrupts = <<>>
    BY <2>2, <1>20 DEF DequeueInterrupt
  <2>3. QED BY <2>1, <2>2
<1>21. ASSUME NEW t \in Threads, DequeuePacket(t) PROVE TypeInv'
  BY <1>21 DEF DequeuePacket, Return, Destroy, Uncount
<1>22. ASSUME NEW t \in Threads, DequeueSpurious(t) PROVE TypeInv'
  BY <1>22 DEF DequeueSpurious
<1>23. ASSUME NEW t \in Threads, ZeroHandles(t) PROVE TypeInv'
  BY <1>23 DEF ZeroHandles
<1>24. ASSUME NEW t \in Threads, DrainPacket(t) PROVE TypeInv'
  <2>1. CurHeld' /\ ObjectTypes' /\ PortTypes'
    BY <1>24 DEF DrainPacket, Uncount
  <2>2. HeapTypes' /\ ThreadTypes'
    BY <1>24 DEF DrainPacket, Destroy
  <2>3. ListTypes'
    <3>1. packets' = Tail(packets) /\ packets # <<>> /\ interrupts' = interrupts
      BY <1>24 DEF DrainPacket
    <3>2. QED BY <3>1, TailList
  <2>4. QED BY <2>1, <2>2, <2>3
<1>25. ASSUME NEW t \in Threads, RemoveObserver(t) PROVE TypeInv'
  BY <1>25 DEF RemoveObserver, Destroy
<1>26. ASSUME NEW t \in Threads, Relock(t) PROVE TypeInv'
  BY <1>26 DEF Relock
<1>27. ASSUME NEW t \in Threads, ZeroDone(t) PROVE TypeInv'
  BY <1>27 DEF ZeroDone, Return
<1>28. ASSUME NEW t \in Threads, NEW o \in Observers, UnlinkObserver(t, o)
  PROVE TypeInv'
  BY <1>28 DEF UnlinkObserver, Dropped
<1>29. ASSUME NEW t \in Threads, NEW o \in Observers, NEW r \in Registration, WaitAsync(t, o, r)
  PROVE TypeInv'
  BY <1>29 DEF WaitAsync, Begin
<1>30. ASSUME NEW t \in Threads, NEW d \in Objects, NEW new \in SUBSET Sigs, Signal(t, d, new)
  PROVE TypeInv'
  BY <1>30 DEF Signal, Begin
<1>31. ASSUME NEW t \in Threads, NEW h \in Handles, CloseHandle(t, h) PROVE TypeInv'
  BY <1>31 DEF CloseHandle, Begin
<1>32. ASSUME NEW t \in Threads, NEW c \in {"cancel", "queue", "wait"}, Lookup(t, c)
  PROVE TypeInv'
  BY <1>32 DEF Lookup, Begin
<1>33. ASSUME NEW t \in Threads, ClosePort(t) PROVE TypeInv'
  BY <1>33 DEF ClosePort, Begin
<1>34. ASSUME NEW t \in Threads, WaitEnds(t) PROVE TypeInv'
  BY <1>34 DEF WaitEnds, Return
<1>35. ASSUME NEW i \in Interrupts, QueueInterruptPacket(i) PROVE TypeInv'
  BY <1>35 DEF QueueInterruptPacket
<1>36. ASSUME NEW i \in Interrupts, PostInterrupt(i) PROVE TypeInv'
  BY <1>36 DEF PostInterrupt, SemaPost, Blocked
<1>37. ASSUME NEW i \in Interrupts, RemoveInterruptPacket(i) PROVE TypeInv'
  BY <1>37, EraseList DEF RemoveInterruptPacket
<1>38. CASE UNCHANGED vars BY <1>38 DEF vars
<1> HIDE DEF TypeInv, Goto
<1>39. QED
  BY <1>1, <1>2, <1>3, <1>4, <1>5, <1>6, <1>7, <1>8, <1>9, <1>10, <1>11, <1>12, <1>13,
      <1>14, <1>15, <1>16, <1>17, <1>18, <1>19, <1>20, <1>21, <1>22, <1>23, <1>24, <1>25,
      <1>26, <1>27, <1>28, <1>29, <1>30, <1>31, <1>32, <1>33, <1>34, <1>35, <1>36, <1>37,
      <1>38 DEF Next, KernelStep, UserStep

\* Type correctness, for every value of the constants.
THEOREM TypeCorrect == Spec => []TypeOK
<1>1. TypeInv => TypeOK BY DEF TypeInv
<1>2. QED BY TypeInit, TypeNext, <1>1, PTL DEF Spec

-----------------------------------------------------------------------------
(* The life of an observer.                                                *)

\* Which call a thread is in, and whether it has an observer in hand.
ControlInv ==
  \A t \in Threads :
    /\ pc[t] = "user" <=> op[t] = "none"
    /\ pc[t] = "add" => op[t] = "wait_async"
    /\ pc[t] = "match" => op[t] \in {"wait_async", "signal"}
    /\ pc[t] = "post" => IF cur[t] = NoObs THEN op[t] = "queue"
                                           ELSE op[t] \in {"wait_async", "signal"}
    /\ pc[t] = "reap" => op[t] \in {"wait_async", "signal", "close", "cancel"}
    /\ pc[t] = "update" => op[t] = "signal"
    /\ pc[t] \in {"lock", "erase"} => op[t] \in {"close", "cancel"}
    /\ pc[t] \in {"cancel", "cancel_queued"} => op[t] = "cancel"
    /\ pc[t] = "queue" => op[t] = "queue"
    /\ pc[t] \in {"wait", "blocked", "dequeue_interrupt", "dequeue"} => op[t] = "wait"
    /\ pc[t] \in {"zero", "drain", "remove", "relock"} => op[t] = "close_port"
    /\ pc[t] = "remove" => cur[t] # NoObs
    /\ pc[t] \notin {"add", "match", "post", "reap", "remove"} => cur[t] = NoObs
    /\ op[t] \in {"close", "cancel"} /\ pc[t] # "cancel" => arg[t] \in Handles

\* OnMatch and OnCancel run with the lock of the object they are about.
LockInv ==
  \A t \in Threads :
    /\ pc[t] \in {"match", "reap"} => lock[ObjectOf(cur[t])] = t
    /\ pc[t] = "post" /\ cur[t] # NoObs => lock[ObjectOf(cur[t])] = t
    /\ pc[t] = "erase" => lock[ObjOf[arg[t]]] = t
    /\ pc[t] = "reap" /\ op[t] \in {"close", "cancel"} => ObjectOf(cur[t]) = ObjOf[arg[t]]

\* The port's lock is kept across steps by its two loops only.
PortLockInv ==
  /\ plock # NoThread => pc[plock] \in {"drain", "cancel_queued"}
  /\ \A t \in Threads : pc[t] = "drain" => plock = t

\* The port closes once; no wait_async overlaps it, and what on_zero_handles
\* has emptied stays empty.
CloseInv ==
  /\ \A t, u \in Threads : op[t] = "close_port" /\ op[u] = "close_port" => t = u
  /\ \A t \in Threads : op[t] = "close_port" => porth = "removed"
  /\ \A t \in Threads : op[t] = "wait_async" => porth = "open"
  /\ \A t \in Threads : pc[t] \in {"drain", "remove", "relock"} => zero
  /\ zero => porth # "open"
  /\ \A t \in Threads : pc[t] = "remove" => Queued = {}
  /\ porth = "freed" => zero /\ Queued = {} /\ observers = {}

\* A packet is on the queue once, and owns its observer only while it is.
QueueInv ==
  /\ Distinct(packets)
  /\ Queued \cap Observers \subseteq Live
  /\ owned \subseteq Queued

\* A watched object's list holds live observers of that object, and none that
\* its packet owns.
WatchInv ==
  \A d \in Objects : \A o \in watchers[d] : o \in Live /\ ObjectOf(o) = d /\ o \notin owned

\* An observer in a thread's hand is live, its packet does not own it, and it
\* is not on the object's list unless on_zero_handles has it; MakeObserver has
\* it alone.
HeldInv ==
  \A t \in Threads :
    /\ cur[t] # NoObs => cur[t] \in Live /\ cur[t] \notin owned
    /\ \A d \in Objects :
         pc[t] \in {"add", "match", "post", "reap"} => cur[t] \notin watchers[d]
    /\ pc[t] = "add" => cur[t] \in observers /\ \A u \in Threads : cur[u] = cur[t] => u = t

\* Exactly one party will delete a live observer.
DestroyerInv ==
  /\ observers \cup owned \subseteq Live
  /\ observers \cap owned = {}
  /\ \A t \in Threads : pc[t] = "remove" => cur[t] \notin observers
  /\ \A o \in Live : o \in observers \cup owned \/ \E t \in Threads : pc[t] = "remove" /\ cur[t] = o

ObserverInv ==
  /\ ControlInv /\ LockInv /\ PortLockInv /\ CloseInv
  /\ QueueInv /\ WatchInv /\ HeldInv /\ DestroyerInv

IInv == TypeInv /\ ObserverInv

\* A new port satisfies the invariant.
LEMMA InvInit == Init => IInv
<1> SUFFICES ASSUME Init PROVE IInv OBVIOUS
<1>1. TypeInv BY TypeInit
<1>2. Queued = {} /\ Distinct(packets) BY DEF Init, Queued, Distinct
<1>3. Live = {} BY DEF Init, Live
<1>4. ControlInv /\ LockInv /\ PortLockInv /\ CloseInv
  BY <1>2, PortAssumption DEF Init, ControlInv, LockInv, PortLockInv, CloseInv
<1>5. QueueInv /\ WatchInv /\ HeldInv /\ DestroyerInv
  BY <1>2, <1>3 DEF Init, QueueInv, WatchInv, HeldInv, DestroyerInv
<1>6. QED BY <1>1, <1>4, <1>5 DEF IInv, ObserverInv

\* An observer is of an object that exists.
LEMMA ObjectExists == ASSUME TypeInv, NEW o \in Live PROVE ObjectOf(o) \in Objects
<1>1. reg[o] \in Registration BY DEF TypeInv, TypeOK, HeapTypes, Live
<1>2. reg[o].handle \in Handles BY <1>1 DEF Registration
<1>3. QED BY <1>2, PortAssumption DEF ObjectOf

\* A step of t keeps LockInv when no lock changes hands, the other threads keep
\* what they hold, and t itself ends outside the object's lock or in the loop
\* over an object's observers.
LEMMA LockKept ==
  ASSUME TypeInv, LockInv, NEW t \in Threads, lock' = lock,
         pc'[t] \notin {"match", "reap", "post"},
         pc'[t] = "erase" => lock[ObjOf[arg'[t]]] = t,
         \A v \in Threads : v # t => /\ pc'[v] = pc[v] /\ op'[v] = op[v]
                                    /\ arg'[v] = arg[v] /\ cur'[v] = cur[v],
         \A v \in Threads : v # t /\ cur[v] # NoObs /\ lock[ObjectOf(cur[v])] = v
                               => reg'[cur[v]] = reg[cur[v]]
  PROVE  LockInv'
<1>1. ASSUME NEW v \in Threads, v # t, pc[v] \in {"match", "reap"} \/ (pc[v] = "post" /\ cur[v] # NoObs)
      PROVE  ObjectOf(cur[v])' = ObjectOf(cur[v]) /\ lock[ObjectOf(cur[v])] = v
  <2>1. lock[ObjectOf(cur[v])] = v BY <1>1 DEF LockInv
  <2>2. cur[v] # NoObs BY <1>1, PortAssumption DEF TypeInv, CurHeld
  <2>3. QED BY <1>1, <2>1, <2>2 DEF ObjectOf
<1>2. QED BY <1>1 DEF LockInv

\* A call that ends keeps CloseInv.
LEMMA CloseKept ==
  ASSUME CloseInv, NEW t \in Threads, op'[t] = "none", pc'[t] = "user",
         \A v \in Threads : v # t => op'[v] = op[v] /\ pc'[v] = pc[v],
         UNCHANGED <<porth, zero, observers>>, Queued' = Queued
  PROVE  CloseInv'
BY DEF CloseInv

-----------------------------------------------------------------------------
(* The invariant is inductive.  Steps that touch no observer first.        *)

USE PortAssumption
USE DEF IInv, ObserverInv, TypeInv, CurHeld, TypeOK, ObjectTypes, PortTypes, HeapTypes,
    ThreadTypes, PCs, Ops, Goto, tableVars, objectVars, portVars, semaVars, callVars,
    histVars

\* Where a thread has an observer or the port's lock.
Busy == {"add", "match", "post", "reap", "remove", "erase", "drain", "cancel_queued"}
Quiet ==
  /\ UNCHANGED <<lock, watchers, observers, owned, packets, reg, cur, plock>>
  /\ \A t \in Threads : \/ pc'[t] = pc[t] /\ op'[t] = op[t] /\ arg'[t] = arg[t]
                        \/ pc[t] \notin Busy /\ pc'[t] \notin Busy

\* A quiet step leaves alone what the invariant says of observers.
LEMMA InvQuiet ==
  ASSUME IInv, Quiet, ControlInv', CloseInv', ThreadTypes' PROVE ObserverInv'
<1> USE DEF Quiet, Busy
<1>1. Queued' = Queued /\ (Distinct(packets') <=> Distinct(packets))
  BY DEF Queued
<1>2. LockInv' BY DEF LockInv, ObjectOf
<1>3. PortLockInv' BY DEF PortLockInv
<1>4. QueueInv' BY <1>1 DEF QueueInv, Live
<1>5. WatchInv' BY DEF WatchInv, Live, ObjectOf
<1>6. HeldInv' BY DEF HeldInv, Live
<1>7. DestroyerInv' BY DEF DestroyerInv, Live
<1>8. QED BY <1>2, <1>3, <1>4, <1>5, <1>6, <1>7

\* zx_port_cancel without a source.
LEMMA InvCancelBadHandle ==
  ASSUME IInv, TypeInv', NEW t \in Threads, NEW h \in Handles, CancelBadHandle(t, h)
  PROVE ObserverInv'
<1>1. Quiet BY DEF Quiet, Busy, CancelBadHandle, Return
<1>2. Queued' = Queued BY <1>1 DEF Quiet, Queued
<1>3. ControlInv' BY DEF ControlInv, CancelBadHandle, Return
<1>4. CloseInv' BY <1>2 DEF CloseInv, CancelBadHandle, Return
<1>5. QED BY <1>1, <1>3, <1>4, InvQuiet

\* zx_port_cancel takes the handle table's lock.
LEMMA InvCancelStart ==
  ASSUME IInv, TypeInv', NEW t \in Threads, NEW h \in Handles, NEW k \in Keys, CancelStart(t, h, k)
  PROVE ObserverInv'
<1>1. Quiet BY DEF Quiet, Busy, CancelStart
<1>2. Queued' = Queued BY <1>1 DEF Quiet, Queued
<1>3. ControlInv' BY DEF ControlInv, CancelStart
<1>4. CloseInv' BY <1>2 DEF CloseInv, CancelStart
<1>5. QED BY <1>1, <1>3, <1>4, InvQuiet

\* zx_port_queue is refused.
LEMMA InvQueueUserFails ==
  ASSUME IInv, TypeInv', NEW t \in Threads, QueueUserFails(t)
  PROVE ObserverInv'
<1>1. Quiet BY DEF Quiet, Busy, QueueUserFails, Return
<1>2. Queued' = Queued BY <1>1 DEF Quiet, Queued
<1>3. ControlInv' BY DEF ControlInv, QueueUserFails, Return
<1>4. CloseInv' BY <1>2 DEF CloseInv, QueueUserFails, Return
<1>5. QED BY <1>1, <1>3, <1>4, InvQuiet

\* Dequeue waits on the semaphore.
LEMMA InvSemaWait ==
  ASSUME IInv, TypeInv', NEW t \in Threads, SemaWait(t)
  PROVE ObserverInv'
<1>1. Quiet BY DEF Quiet, Busy, SemaWait
<1>2. Queued' = Queued BY <1>1 DEF Quiet, Queued
<1>3. ControlInv' BY DEF ControlInv, SemaWait
<1>4. CloseInv' BY <1>2 DEF CloseInv, SemaWait
<1>5. QED BY <1>1, <1>3, <1>4, InvQuiet

\* Dequeue looks at the interrupt queue.
LEMMA InvDequeueInterrupt ==
  ASSUME IInv, TypeInv', NEW t \in Threads, DequeueInterrupt(t)
  PROVE ObserverInv'
<1>1. Quiet BY DEF Quiet, Busy, DequeueInterrupt, Return
<1>2. Queued' = Queued BY <1>1 DEF Quiet, Queued
<1>3. ControlInv' BY DEF ControlInv, DequeueInterrupt, Return
<1>4. CloseInv'
  <2>1. CASE interrupts # <<>>
    <3>1. \A v \in Threads : v # t => op'[v] = op[v] /\ pc'[v] = pc[v]
      BY <2>1 DEF DequeueInterrupt, Return
    <3>2. op'[t] = "none" /\ pc'[t] = "user" BY <2>1 DEF DequeueInterrupt, Return
    <3>3. UNCHANGED <<porth, zero, observers>> BY DEF DequeueInterrupt
    <3>4. QED BY <1>2, <3>1, <3>2, <3>3, CloseKept
  <2>2. CASE interrupts = <<>> BY <1>2 DEF CloseInv, DequeueInterrupt, Return
  <2>3. QED BY <2>1, <2>2
<1>5. QED BY <1>1, <1>3, <1>4, InvQuiet

\* Dequeue finds nothing.
LEMMA InvDequeueSpurious ==
  ASSUME IInv, TypeInv', NEW t \in Threads, DequeueSpurious(t)
  PROVE ObserverInv'
<1>1. Quiet BY DEF Quiet, Busy, DequeueSpurious
<1>2. Queued' = Queued BY <1>1 DEF Quiet, Queued
<1>3. ControlInv' BY DEF ControlInv, DequeueSpurious
<1>4. CloseInv' BY <1>2 DEF CloseInv, DequeueSpurious
<1>5. QED BY <1>1, <1>3, <1>4, InvQuiet

\* An object's handle leaves the table.
LEMMA InvCloseHandle ==
  ASSUME IInv, TypeInv', NEW t \in Threads, NEW h \in Handles, CloseHandle(t, h)
  PROVE ObserverInv'
<1>1. Quiet BY DEF Quiet, Busy, CloseHandle, Begin
<1>2. Queued' = Queued BY <1>1 DEF Quiet, Queued
<1>3. ControlInv' BY DEF ControlInv, CloseHandle, Begin
<1>4. CloseInv' BY <1>2 DEF CloseInv, CloseHandle, Begin
<1>5. QED BY <1>1, <1>3, <1>4, InvQuiet

\* A syscall looks up the port.
LEMMA InvLookup ==
  ASSUME IInv, TypeInv', NEW t \in Threads, NEW c \in {"cancel", "queue", "wait"}, Lookup(t, c)
  PROVE ObserverInv'
<1>1. Quiet BY DEF Quiet, Busy, Lookup, Begin
<1>2. ControlInv' BY DEF ControlInv, Lookup, Begin
<1>3. CloseInv' BY DEF CloseInv, Lookup, Begin
<1>4. QED BY <1>1, <1>2, <1>3, InvQuiet

\* The port's handle leaves the table.
LEMMA InvClosePort ==
  ASSUME IInv, TypeInv', NEW t \in Threads, ClosePort(t)
  PROVE ObserverInv'
<1>1. Quiet BY DEF Quiet, Busy, ClosePort, Begin
<1>2. ControlInv' BY DEF ControlInv, ClosePort, Begin
<1>3. CloseInv' BY DEF CloseInv, ClosePort, Begin, TableReaders
<1>4. QED BY <1>1, <1>2, <1>3, InvQuiet

\* zx_port_wait times out.
LEMMA InvWaitEnds ==
  ASSUME IInv, TypeInv', NEW t \in Threads, WaitEnds(t)
  PROVE ObserverInv'
<1>1. Quiet BY DEF Quiet, Busy, WaitEnds, Return
<1>2. Queued' = Queued BY <1>1 DEF Quiet, Queued
<1>3. ControlInv' BY DEF ControlInv, WaitEnds, Return
<1>4. CloseInv' BY <1>2 DEF CloseInv, WaitEnds, Return
<1>5. QED BY <1>1, <1>3, <1>4, InvQuiet

\* An interrupt queues its packet.
LEMMA InvQueueInterruptPacket ==
  ASSUME IInv, TypeInv', NEW i \in Interrupts, QueueInterruptPacket(i)
  PROVE ObserverInv'
<1>1. Quiet BY DEF Quiet, QueueInterruptPacket
<1>2. Queued' = Queued BY <1>1 DEF Quiet, Queued
<1>3. ControlInv' BY DEF ControlInv, QueueInterruptPacket
<1>4. CloseInv' BY <1>2 DEF CloseInv, QueueInterruptPacket
<1>5. QED BY <1>1, <1>3, <1>4, InvQuiet

\* An interrupt posts the semaphore.
LEMMA InvPostInterrupt ==
  ASSUME IInv, TypeInv', NEW i \in Interrupts, PostInterrupt(i)
  PROVE ObserverInv'
<1>1. Quiet BY DEF Quiet, Busy, PostInterrupt, SemaPost, Blocked
<1>2. Queued' = Queued BY <1>1 DEF Quiet, Queued
<1>3. ControlInv' BY DEF ControlInv, PostInterrupt, SemaPost, Blocked
<1>4. CloseInv' BY <1>2 DEF CloseInv, PostInterrupt, SemaPost
<1>5. QED BY <1>1, <1>3, <1>4, InvQuiet

\* An interrupt withdraws its packet.
LEMMA InvRemoveInterruptPacket ==
  ASSUME IInv, TypeInv', NEW i \in Interrupts, RemoveInterruptPacket(i)
  PROVE ObserverInv'
<1>1. Quiet BY DEF Quiet, RemoveInterruptPacket
<1>2. Queued' = Queued BY <1>1 DEF Quiet, Queued
<1>3. ControlInv' BY DEF ControlInv, RemoveInterruptPacket
<1>4. CloseInv' BY <1>2 DEF CloseInv, RemoveInterruptPacket
<1>5. QED BY <1>1, <1>3, <1>4, InvQuiet

-----------------------------------------------------------------------------
(* Steps that handle observers, packets or their locks.                    *)

\* AddObserver takes the object's lock and matches at once.
LEMMA InvAddMatch ==
  ASSUME IInv, NEW t \in Threads, AddMatch(t)
  PROVE  ObserverInv'
<1>1. Queued' = Queued /\ (Distinct(packets') <=> Distinct(packets))
  BY DEF AddMatch, Queued
<1>2. ControlInv' BY DEF ControlInv, AddMatch
<1>3. LockInv'
  <2>1. ObjectOf(cur[t]) \in Objects BY ObjectExists DEF AddMatch, HeldInv
  <2>2. QED
    BY <2>1 DEF LockInv, AddMatch, ObjectOf
<1>4. PortLockInv' BY DEF PortLockInv, AddMatch
<1>5. CloseInv' BY <1>1 DEF CloseInv, AddMatch
<1>6. QueueInv' BY <1>1 DEF QueueInv, AddMatch, Live
<1>7. WatchInv'
  BY DEF WatchInv, AddMatch, Live, ObjectOf
<1>8. HeldInv'
  BY DEF HeldInv, AddMatch, Live
<1>9. DestroyerInv'
  BY DEF DestroyerInv, AddMatch, Live
<1>10. QED BY <1>2, <1>3, <1>4, <1>5, <1>6, <1>7, <1>8, <1>9

\* AddObserver puts the observer on the object's list.
LEMMA InvAddObserver ==
  ASSUME IInv, NEW t \in Threads, AddObserver(t)
  PROVE  ObserverInv'
<1>1. Queued' = Queued /\ (Distinct(packets') <=> Distinct(packets))
  BY DEF AddObserver, Queued
<1>2. ControlInv' BY DEF ControlInv, AddObserver, Return
<1>3. LockInv'
  BY DEF LockInv, AddObserver, Return, ObjectOf
<1>4. PortLockInv' BY DEF PortLockInv, AddObserver, Return
<1>5. CloseInv' BY <1>1 DEF CloseInv, AddObserver, Return
<1>6. QueueInv'
  BY <1>1 DEF QueueInv, AddObserver, Live
<1>7. WatchInv'
  BY DEF WatchInv, HeldInv, AddObserver, Live, ObjectOf
<1>8. HeldInv'
  BY DEF HeldInv, AddObserver, Return, Live
<1>9. DestroyerInv'
  BY DEF DestroyerInv, AddObserver, Return, Live
<1>10. QED BY <1>2, <1>3, <1>4, <1>5, <1>6, <1>7, <1>8, <1>9

\* OnMatch queues the observer's packet.
LEMMA InvQueueSignal ==
  ASSUME IInv, NEW t \in Threads, QueueSignal(t)
  PROVE  ObserverInv'
<1>1. Distinct(packets') /\ Queued' = IF zero THEN Queued ELSE Queued \cup {cur[t]}
  <2>1. CASE zero \/ cur[t] \in Queued
    <3>1. packets' = packets BY <2>1 DEF QueueSignal
    <3>2. QED BY <2>1, <3>1 DEF Queued, QueueInv
  <2>2. CASE ~(zero \/ cur[t] \in Queued)
    <3>1. packets' = Append(packets, cur[t]) /\ cur[t] \in Observers \cup UserPackets
      BY <2>2 DEF QueueSignal
    <3>2. packets \in Seq(Observers \cup UserPackets) /\ Distinct(packets)
      BY DEF QueueInv, ListTypes
    <3>3. Queued = Elems(packets) /\ Queued' = Elems(packets') BY DEF Queued, Elems
    <3>4. QED BY <2>2, <3>1, <3>2, <3>3, AppendList
  <2>3. QED BY <2>1, <2>2
<1>2. ControlInv' BY DEF ControlInv, QueueSignal
<1>3. LockInv'
  BY DEF LockInv, ControlInv, QueueSignal, ObjectOf
<1>4. PortLockInv' BY DEF PortLockInv, QueueSignal
<1>5. CloseInv' BY <1>1 DEF CloseInv, QueueSignal
<1>6. QueueInv' BY <1>1 DEF QueueInv, HeldInv, QueueSignal, Live
<1>7. WatchInv'
  BY DEF WatchInv, QueueSignal, Live, ObjectOf
<1>8. HeldInv'
  BY DEF HeldInv, QueueSignal, Live
<1>9. DestroyerInv'
  BY DEF DestroyerInv, QueueSignal, Live
<1>10. QED BY <1>2, <1>3, <1>4, <1>5, <1>6, <1>7, <1>8, <1>9

\* OnMatch posts the semaphore.
LEMMA InvPostSignal ==
  ASSUME IInv, NEW t \in Threads, PostSignal(t)
  PROVE  ObserverInv'
<1>1. Queued' = Queued /\ (Distinct(packets') <=> Distinct(packets))
  BY DEF PostSignal, Queued
<1>2. ControlInv' BY DEF ControlInv, PostSignal, SemaPost, Blocked
<1>3. LockInv'
  BY DEF LockInv, ControlInv, PostSignal, SemaPost, ObjectOf
<1>4. PortLockInv' BY DEF PortLockInv, PostSignal, SemaPost, Blocked
<1>5. CloseInv'
  BY <1>1 DEF CloseInv, PostSignal, SemaPost
<1>6. QueueInv'
  BY <1>1 DEF QueueInv, PostSignal, Live
<1>7. WatchInv'
  BY DEF WatchInv, PostSignal, Live, ObjectOf
<1>8. HeldInv'
  BY DEF HeldInv, PostSignal, SemaPost, Live
<1>9. DestroyerInv'
  <2>1. \A v \in Threads : pc'[v] = "remove" <=> pc[v] = "remove"
    BY DEF PostSignal, SemaPost, Blocked
  <2>2. UNCHANGED <<observers, owned, cur>> /\ Live' = Live BY DEF PostSignal, Live
  <2>3. QED BY <2>1, <2>2 DEF DestroyerInv
<1>10. QED BY <1>2, <1>3, <1>4, <1>5, <1>6, <1>7, <1>8, <1>9

\* MaybeReap decides the observer's fate.
LEMMA InvMaybeReap ==
  ASSUME IInv, NEW t \in Threads, MaybeReap(t)
  PROVE  ObserverInv'
<1>1. Queued' = Queued /\ (Distinct(packets') <=> Distinct(packets))
  BY DEF MaybeReap, Queued
<1>2. ControlInv' BY DEF ControlInv, MaybeReap, Return
<1>3. LockInv'
  <2>1. CASE op[t] = "wait_async"
    <3>1. \A x \in Live : ObjectOf(x) \in Objects BY ObjectExists
    <3>2. \A d \in Objects : lock'[d] = IF lock[d] = t THEN NoThread ELSE lock[d]
      BY <2>1 DEF MaybeReap
    <3>3. \A v \in Threads : v # t =>
            pc'[v] = pc[v] /\ cur'[v] = cur[v] /\ arg'[v] = arg[v] /\ op'[v] = op[v]
      BY DEF MaybeReap, Return
    <3>4. pc'[t] = "user" BY <2>1 DEF MaybeReap, Return
    <3>5. ASSUME NEW v \in Threads, v # t, cur[v] # NoObs, lock[ObjectOf(cur[v])] = v
          PROVE  lock'[ObjectOf(cur[v])] = v /\ reg'[cur[v]] = reg[cur[v]]
      <4>1. cur[v] \in Live /\ cur[v] \in Observers /\ cur[t] # cur[v]
        BY <3>5 DEF HeldInv, LockInv, MaybeReap
      <4>2. QED BY <3>1, <3>5, <4>1 DEF MaybeReap, Destroy
    <3>6. QED BY <3>2, <3>3, <3>4, <3>5 DEF LockInv, ControlInv, ObjectOf
  <2>2. CASE op[t] # "wait_async"
    <3>1. lock' = lock /\ arg' = arg /\ op' = op BY <2>2 DEF MaybeReap
    <3>2. pc'[t] = IF op[t] = "signal" THEN "update" ELSE "erase" BY <2>2 DEF MaybeReap
    <3>3. pc'[t] = "erase" => lock[ObjOf[arg[t]]] = t
      BY <2>2, <3>2 DEF LockInv, ControlInv, MaybeReap
    <3>4. \A v \in Threads : v # t => pc'[v] = pc[v] /\ cur'[v] = cur[v]
      BY <2>2 DEF MaybeReap
    <3>5. ASSUME NEW v \in Threads, v # t, cur[v] # NoObs, lock[ObjectOf(cur[v])] = v
          PROVE  reg'[cur[v]] = reg[cur[v]]
      <4>1. cur[v] \in Observers /\ cur[t] # cur[v] BY <3>5 DEF LockInv, MaybeReap
      <4>2. QED BY <4>1 DEF MaybeReap, Destroy
    <3>6. QED BY <3>1, <3>2, <3>3, <3>4, <3>5, LockKept
  <2>3. QED BY <2>1, <2>2
<1>4. PortLockInv' BY DEF PortLockInv, MaybeReap, Return
<1>5. CloseInv'
  BY <1>1 DEF CloseInv, MaybeReap, Return, Unlinked
<1>6. QueueInv'
  BY <1>1 DEF QueueInv, MaybeReap, Destroy, Live
<1>7. WatchInv'
  BY DEF WatchInv, HeldInv, MaybeReap, Destroy, Live, ObjectOf
<1>8. HeldInv'
  BY DEF HeldInv, ControlInv, LockInv, DestroyerInv, MaybeReap, Return, Destroy, Unlinked,
     Unlinks, Live
<1>9. DestroyerInv'
  BY DEF DestroyerInv, MaybeReap, Return, Destroy, Unlinked, Unlinks, Live
<1>10. QED BY <1>2, <1>3, <1>4, <1>5, <1>6, <1>7, <1>8, <1>9

\* UpdateState ends.
LEMMA InvNotifyDone ==
  ASSUME IInv, NEW t \in Threads, NEW d \in Objects, NotifyDone(t, d)
  PROVE  ObserverInv'
<1>1. Queued' = Queued /\ (Distinct(packets') <=> Distinct(packets))
  BY DEF NotifyDone, Queued
<1>2. ControlInv' BY DEF ControlInv, NotifyDone, Return
<1>3. LockInv'
  BY DEF LockInv, NotifyDone, Return, ObjectOf
<1>4. PortLockInv' BY DEF PortLockInv, NotifyDone, Return
<1>5. CloseInv' BY <1>1 DEF CloseInv, NotifyDone, Return
<1>6. QueueInv'
  BY <1>1 DEF QueueInv, NotifyDone, Live
<1>7. WatchInv'
  BY DEF WatchInv, NotifyDone, Live, ObjectOf
<1>8. HeldInv'
  BY DEF HeldInv, NotifyDone, Return, Live
<1>9. DestroyerInv'
  BY DEF DestroyerInv, NotifyDone, Return, Live
<1>10. QED BY <1>2, <1>3, <1>4, <1>5, <1>6, <1>7, <1>8, <1>9

\* UpdateStateLocked erases an observer and calls OnMatch.
LEMMA InvNotifyNext ==
  ASSUME IInv, NEW t \in Threads, NEW d \in Objects, NEW o \in Observers, NotifyNext(t, d, o)
  PROVE  ObserverInv'
<1>1. Queued' = Queued /\ (Distinct(packets') <=> Distinct(packets))
  BY DEF NotifyNext, Queued
<1>2. ControlInv' BY DEF ControlInv, NotifyNext
<1>3. LockInv'
  BY DEF LockInv, WatchInv, NotifyNext, ToNotify, ObjectOf
<1>4. PortLockInv' BY DEF PortLockInv, NotifyNext
<1>5. CloseInv' BY <1>1 DEF CloseInv, NotifyNext
<1>6. QueueInv'
  BY <1>1 DEF QueueInv, NotifyNext, Live
<1>7. WatchInv'
  BY DEF WatchInv, NotifyNext, Live, ObjectOf
<1>8. HeldInv'
  BY DEF HeldInv, WatchInv, NotifyNext, ToNotify, Live
<1>9. DestroyerInv'
  BY DEF DestroyerInv, NotifyNext, Live
<1>10. QED BY <1>2, <1>3, <1>4, <1>5, <1>6, <1>7, <1>8, <1>9

\* Cancel or CancelByKey takes the object's lock.
LEMMA InvCancelLock ==
  ASSUME IInv, NEW t \in Threads, CancelLock(t)
  PROVE  ObserverInv'
<1>1. Queued' = Queued /\ (Distinct(packets') <=> Distinct(packets))
  BY DEF CancelLock, Queued
<1>2. ControlInv' BY DEF ControlInv, CancelLock
<1>3. LockInv'
  BY DEF LockInv, ControlInv, CancelLock, ObjectOf
<1>4. PortLockInv' BY DEF PortLockInv, CancelLock
<1>5. CloseInv' BY <1>1 DEF CloseInv, CancelLock
<1>6. QueueInv' BY <1>1 DEF QueueInv, CancelLock, Live
<1>7. WatchInv'
  BY DEF WatchInv, CancelLock, Live, ObjectOf
<1>8. HeldInv'
  BY DEF HeldInv, CancelLock, Live
<1>9. DestroyerInv'
  BY DEF DestroyerInv, CancelLock, Live
<1>10. QED BY <1>2, <1>3, <1>4, <1>5, <1>6, <1>7, <1>8, <1>9

\* An object's handle is closed.
LEMMA InvCloseDone ==
  ASSUME IInv, NEW t \in Threads, CloseDone(t)
  PROVE  ObserverInv'
<1>1. Queued' = Queued /\ (Distinct(packets') <=> Distinct(packets))
  BY DEF CloseDone, Queued
<1>2. ControlInv' BY DEF ControlInv, CloseDone, Return
<1>3. LockInv'
  BY DEF LockInv, CloseDone, Return, ObjectOf
<1>4. PortLockInv' BY DEF PortLockInv, CloseDone, Return
<1>5. CloseInv' BY <1>1 DEF CloseInv, CloseDone, Return
<1>6. QueueInv'
  BY <1>1 DEF QueueInv, CloseDone, Live
<1>7. WatchInv'
  BY DEF WatchInv, CloseDone, Live, ObjectOf
<1>8. HeldInv'
  BY DEF HeldInv, CloseDone, Return, Live
<1>9. DestroyerInv'
  BY DEF DestroyerInv, CloseDone, Return, Live
<1>10. QED BY <1>2, <1>3, <1>4, <1>5, <1>6, <1>7, <1>8, <1>9

\* CancelByKey ends.
LEMMA InvCancelByKeyDone ==
  ASSUME IInv, NEW t \in Threads, CancelByKeyDone(t)
  PROVE  ObserverInv'
<1>1. Queued' = Queued /\ (Distinct(packets') <=> Distinct(packets))
  BY DEF CancelByKeyDone, Queued
<1>2. ControlInv' BY DEF ControlInv, CancelByKeyDone
<1>3. LockInv'
  BY DEF LockInv, CancelByKeyDone, ObjectOf
<1>4. PortLockInv' BY DEF PortLockInv, CancelByKeyDone
<1>5. CloseInv' BY <1>1 DEF CloseInv, CancelByKeyDone
<1>6. QueueInv'
  BY <1>1 DEF QueueInv, CancelByKeyDone, Live
<1>7. WatchInv'
  BY DEF WatchInv, CancelByKeyDone, Live, ObjectOf
<1>8. HeldInv'
  BY DEF HeldInv, CancelByKeyDone, Live
<1>9. DestroyerInv'
  BY DEF DestroyerInv, CancelByKeyDone, Live
<1>10. QED BY <1>2, <1>3, <1>4, <1>5, <1>6, <1>7, <1>8, <1>9

\* CancelQueued ends.
LEMMA InvCancelQueuedDone ==
  ASSUME IInv, NEW t \in Threads, CancelQueuedDone(t)
  PROVE  ObserverInv'
<1>1. Queued' = Queued /\ (Distinct(packets') <=> Distinct(packets))
  BY DEF CancelQueuedDone, Queued
<1>2. ControlInv' BY DEF ControlInv, CancelQueuedDone, Return
<1>3. LockInv'
  BY DEF LockInv, CancelQueuedDone, Return, ObjectOf
<1>4. PortLockInv' BY DEF PortLockInv, CancelQueuedDone, Return
<1>5. CloseInv' BY <1>1 DEF CloseInv, CancelQueuedDone, Return
<1>6. QueueInv'
  BY <1>1 DEF QueueInv, CancelQueuedDone, Live
<1>7. WatchInv'
  BY DEF WatchInv, CancelQueuedDone, Live, ObjectOf
<1>8. HeldInv'
  BY DEF HeldInv, CancelQueuedDone, Return, Live
<1>9. DestroyerInv'
  BY DEF DestroyerInv, CancelQueuedDone, Return, Live
<1>10. QED BY <1>2, <1>3, <1>4, <1>5, <1>6, <1>7, <1>8, <1>9

\* CancelQueued erases a packet and its observer.
LEMMA InvCancelPacket ==
  ASSUME IInv, NEW t \in Threads, NEW i \in DOMAIN packets, CancelPacket(t, i)
  PROVE  ObserverInv'
<1>1. Queued' = Queued \ {packets[i]} /\ Distinct(packets') /\ packets[i] \in Queued
  <2>1. packets' = Without(packets, i) BY DEF CancelPacket
  <2>2. packets \in Seq(Observers \cup UserPackets) /\ Distinct(packets)
    BY DEF QueueInv, ListTypes
  <2>3. Queued = Elems(packets) /\ Queued' = Elems(packets') BY DEF Queued, Elems
  <2>4. packets[i] \in Queued BY DEF Queued
  <2>5. Distinct(Without(packets, i)) /\ Elems(Without(packets, i)) = Elems(packets) \ {packets[i]}
    BY <2>2, EraseList
  <2>6. QED BY <2>1, <2>3, <2>4, <2>5
<1>2. ControlInv' BY DEF ControlInv, CancelPacket
<1>3. LockInv'
  BY DEF LockInv, HeldInv, CancelPacket, Destroy, Reset, ObjectOf
<1>4. PortLockInv' BY DEF PortLockInv, CancelPacket
<1>5. CloseInv'
  BY <1>1 DEF CloseInv, CancelPacket
<1>6. QueueInv'
  BY <1>1 DEF QueueInv, CancelPacket, Destroy, Reset, Live
<1>7. WatchInv'
  BY DEF WatchInv, CancelPacket, Destroy, Reset, Live, ObjectOf
<1>8. HeldInv'
  BY DEF HeldInv, CancelPacket, Destroy, Reset, Live
<1>9. DestroyerInv'
  BY DEF DestroyerInv, CancelPacket, Destroy, Reset, Live
<1>10. QED BY <1>2, <1>3, <1>4, <1>5, <1>6, <1>7, <1>8, <1>9

\* Cancel erases an observer and calls OnCancel.
LEMMA InvCancelNext ==
  ASSUME IInv, NEW t \in Threads, NEW o \in Observers, CancelNext(t, o)
  PROVE  ObserverInv'
<1>1. Queued' = Queued /\ (Distinct(packets') <=> Distinct(packets))
  BY DEF CancelNext, Queued
<1>2. ControlInv' BY DEF ControlInv, CancelNext
<1>3. LockInv'
  BY DEF LockInv, ControlInv, WatchInv, CancelNext, ToErase, ObjectOf
<1>4. PortLockInv' BY DEF PortLockInv, CancelNext
<1>5. CloseInv' BY <1>1 DEF CloseInv, CancelNext
<1>6. QueueInv'
  BY <1>1 DEF QueueInv, CancelNext, Live
<1>7. WatchInv'
  BY DEF WatchInv, CancelNext, Live, ObjectOf
<1>8. HeldInv'
  BY DEF HeldInv, ControlInv, WatchInv, CancelNext, ToErase, Live
<1>9. DestroyerInv'
  BY DEF DestroyerInv, CancelNext, Live
<1>10. QED BY <1>2, <1>3, <1>4, <1>5, <1>6, <1>7, <1>8, <1>9

\* zx_port_queue posts the semaphore.
LEMMA InvPostUser ==
  ASSUME IInv, NEW t \in Threads, PostUser(t)
  PROVE  ObserverInv'
<1>1. Queued' = Queued /\ (Distinct(packets') <=> Distinct(packets))
  BY DEF PostUser, Queued
<1>2. ControlInv' BY DEF ControlInv, PostUser, SemaPost, Blocked
<1>3. LockInv'
  BY DEF LockInv, PostUser, SemaPost, ObjectOf
<1>4. PortLockInv' BY DEF PortLockInv, PostUser, SemaPost, Blocked
<1>5. CloseInv'
  BY <1>1 DEF CloseInv, PostUser, SemaPost, Blocked
<1>6. QueueInv'
  BY <1>1 DEF QueueInv, PostUser, Live
<1>7. WatchInv'
  BY DEF WatchInv, PostUser, Live, ObjectOf
<1>8. HeldInv'
  BY DEF HeldInv, PostUser, SemaPost, Live
<1>9. DestroyerInv'
  <2>1. CASE Blocked = {}
    BY DEF DestroyerInv, PostUser, SemaPost, Blocked, Live
  <2>2. CASE Blocked # {}
    BY DEF DestroyerInv, PostUser, SemaPost, Blocked, Live
  <2>3. QED BY <2>1, <2>2
<1>10. QED BY <1>2, <1>3, <1>4, <1>5, <1>6, <1>7, <1>8, <1>9

\* zx_port_queue queues a packet.
LEMMA InvQueueUser ==
  ASSUME IInv, NEW t \in Threads, NEW u \in UserPackets, QueueUser(t, u)
  PROVE  ObserverInv'
<1>1. Queued' = Queued \cup {u} /\ Distinct(packets')
  <2>1. packets' = Append(packets, u) /\ u \notin Queued BY DEF QueueUser
  <2>2. packets \in Seq(Observers \cup UserPackets) /\ Distinct(packets)
    BY DEF QueueInv, ListTypes
  <2>3. Queued = Elems(packets) /\ Queued' = Elems(packets') BY DEF Queued, Elems
  <2>4. QED BY <2>1, <2>2, <2>3, AppendList
<1>2. ControlInv' BY DEF ControlInv, QueueUser
<1>3. LockInv'
  BY DEF LockInv, ControlInv, QueueUser, ObjectOf
<1>4. PortLockInv' BY DEF PortLockInv, QueueUser
<1>5. CloseInv' BY DEF CloseInv, QueueUser
<1>6. QueueInv' BY <1>1 DEF QueueInv, QueueUser, Live
<1>7. WatchInv'
  BY DEF WatchInv, QueueUser, Live, ObjectOf
<1>8. HeldInv'
  BY DEF HeldInv, ControlInv, QueueUser, Live
<1>9. DestroyerInv'
  BY DEF DestroyerInv, QueueUser, Live
<1>10. QED BY <1>2, <1>3, <1>4, <1>5, <1>6, <1>7, <1>8, <1>9

\* Dequeue takes a packet and its observer.
LEMMA InvDequeuePacket ==
  ASSUME IInv, NEW t \in Threads, DequeuePacket(t)
  PROVE  ObserverInv'
<1>1. Queued' = Queued \ {Head(packets)} /\ Distinct(packets') /\ Head(packets) \in Queued
  <2>1. packets' = Tail(packets) /\ packets # <<>> BY DEF DequeuePacket
  <2>2. packets \in Seq(Observers \cup UserPackets) /\ Distinct(packets)
    BY DEF QueueInv, ListTypes
  <2>3. Queued = Elems(packets) /\ Queued' = Elems(packets') BY DEF Queued, Elems
  <2>4. QED BY <2>1, <2>2, <2>3, TailList
<1>2. ControlInv' BY DEF ControlInv, DequeuePacket, Return
<1>3. LockInv'
  <2>1. lock' = lock /\ pc'[t] \in {"user", "drain", "relock"} BY DEF DequeuePacket, Return
  <2>2. \A v \in Threads : v # t => /\ pc'[v] = pc[v] /\ op'[v] = op[v]
                                   /\ arg'[v] = arg[v] /\ cur'[v] = cur[v]
    BY DEF DequeuePacket, Return
  <2>3. \A v \in Threads : cur[v] # NoObs => reg'[cur[v]] = reg[cur[v]]
    BY DEF HeldInv, DequeuePacket, Destroy, Reset
  <2>4. QED BY <2>1, <2>2, <2>3, LockKept
<1>4. PortLockInv' BY DEF PortLockInv, DequeuePacket, Return
<1>5. CloseInv'
  BY <1>1 DEF CloseInv, DequeuePacket, Return
<1>6. QueueInv'
  BY <1>1 DEF QueueInv, DequeuePacket, Destroy, Reset, Live
<1>7. WatchInv'
  BY DEF WatchInv, DequeuePacket, Destroy, Reset, Live, ObjectOf
<1>8. HeldInv'
  BY DEF HeldInv, DequeuePacket, Return, Destroy, Reset, Live
<1>9. DestroyerInv'
  BY DEF DestroyerInv, DequeuePacket, Return, Destroy, Reset, Live
<1>10. QED BY <1>2, <1>3, <1>4, <1>5, <1>6, <1>7, <1>8, <1>9

\* on_zero_handles begins.
LEMMA InvZeroHandles ==
  ASSUME IInv, NEW t \in Threads, ZeroHandles(t)
  PROVE  ObserverInv'
<1>1. Queued' = Queued /\ (Distinct(packets') <=> Distinct(packets))
  BY DEF ZeroHandles, Queued
<1>2. ControlInv' BY DEF ControlInv, ZeroHandles
<1>3. LockInv'
  BY DEF LockInv, ZeroHandles, ObjectOf
<1>4. PortLockInv' BY DEF PortLockInv, ZeroHandles
<1>5. CloseInv' BY DEF CloseInv, ControlInv, ZeroHandles
<1>6. QueueInv' BY <1>1 DEF QueueInv, ZeroHandles, Live
<1>7. WatchInv'
  BY DEF WatchInv, ZeroHandles, Live, ObjectOf
<1>8. HeldInv'
  BY DEF HeldInv, ZeroHandles, Live
<1>9. DestroyerInv'
  BY DEF DestroyerInv, ZeroHandles, Live
<1>10. QED BY <1>2, <1>3, <1>4, <1>5, <1>6, <1>7, <1>8, <1>9

\* on_zero_handles drops a packet.
LEMMA InvDrainPacket ==
  ASSUME IInv, NEW t \in Threads, DrainPacket(t)
  PROVE  ObserverInv'
<1>1. Queued' = Queued \ {Head(packets)} /\ Distinct(packets') /\ Head(packets) \in Queued
  <2>1. packets' = Tail(packets) /\ packets # <<>> BY DEF DrainPacket
  <2>2. packets \in Seq(Observers \cup UserPackets) /\ Distinct(packets)
    BY DEF QueueInv, ListTypes
  <2>3. Queued = Elems(packets) /\ Queued' = Elems(packets') BY DEF Queued, Elems
  <2>4. QED BY <2>1, <2>2, <2>3, TailList
<1>2. ControlInv' BY DEF ControlInv, DrainPacket
<1>3. LockInv'
  <2>1. lock' = lock /\ pc'[t] \in {"user", "drain", "relock"} BY DEF DrainPacket
  <2>2. \A v \in Threads : v # t => /\ pc'[v] = pc[v] /\ op'[v] = op[v]
                                   /\ arg'[v] = arg[v] /\ cur'[v] = cur[v]
    BY DEF DrainPacket
  <2>3. \A v \in Threads : cur[v] # NoObs => reg'[cur[v]] = reg[cur[v]]
    BY DEF HeldInv, DrainPacket, Destroy, Reset
  <2>4. QED BY <2>1, <2>2, <2>3, LockKept
<1>4. PortLockInv' BY DEF PortLockInv, DrainPacket
<1>5. CloseInv'
  BY <1>1 DEF CloseInv, DrainPacket, Uncount
<1>6. QueueInv'
  BY <1>1 DEF QueueInv, DrainPacket, Destroy, Reset, Live
<1>7. WatchInv'
  BY DEF WatchInv, DrainPacket, Destroy, Reset, Live, ObjectOf
<1>8. HeldInv'
  BY DEF HeldInv, DrainPacket, Destroy, Reset, Live
<1>9. DestroyerInv'
  BY DEF DestroyerInv, DrainPacket, Destroy, Reset, Live
<1>10. QED BY <1>2, <1>3, <1>4, <1>5, <1>6, <1>7, <1>8, <1>9

\* on_zero_handles removes an observer from its object and deletes it.
LEMMA InvRemoveObserver ==
  ASSUME IInv, NEW t \in Threads, RemoveObserver(t)
  PROVE  ObserverInv'
<1>1. Queued' = Queued /\ (Distinct(packets') <=> Distinct(packets))
  BY DEF RemoveObserver, Queued
<1>2. ControlInv' BY DEF ControlInv, RemoveObserver
<1>3. LockInv'
  <2>1. lock' = lock /\ pc'[t] = "relock" BY DEF RemoveObserver
  <2>2. \A v \in Threads : v # t => /\ pc'[v] = pc[v] /\ op'[v] = op[v]
                                   /\ arg'[v] = arg[v] /\ cur'[v] = cur[v]
    BY DEF RemoveObserver
  <2>3. \A v \in Threads : cur[v] # NoObs /\ lock[ObjectOf(cur[v])] = v
                             => reg'[cur[v]] = reg[cur[v]]
    BY DEF RemoveObserver, LockFree, Destroy
  <2>4. QED BY <2>1, <2>2, <2>3, LockKept
<1>4. PortLockInv' BY DEF PortLockInv, RemoveObserver
<1>5. CloseInv'
  BY <1>1 DEF CloseInv, RemoveObserver
<1>6. QueueInv'
  BY <1>1 DEF QueueInv, CloseInv, RemoveObserver
<1>7. WatchInv'
  BY DEF WatchInv, RemoveObserver, Destroy, Live, ObjectOf
<1>8. HeldInv'
  BY DEF HeldInv, ControlInv, LockInv, CloseInv, RemoveObserver, Destroy, LockFree, Live
<1>9. DestroyerInv'
  BY DEF DestroyerInv, CloseInv, QueueInv, RemoveObserver, Destroy, Live
<1>10. QED BY <1>2, <1>3, <1>4, <1>5, <1>6, <1>7, <1>8, <1>9

\* on_zero_handles goes on after CallUnlocked.
LEMMA InvRelock ==
  ASSUME IInv, NEW t \in Threads, Relock(t)
  PROVE  ObserverInv'
<1>1. Queued' = Queued /\ (Distinct(packets') <=> Distinct(packets))
  BY DEF Relock, Queued
<1>2. ControlInv' BY DEF ControlInv, Relock
<1>3. LockInv'
  BY DEF LockInv, Relock, ObjectOf
<1>4. PortLockInv' BY DEF PortLockInv, Relock
<1>5. CloseInv' BY <1>1 DEF CloseInv, Relock
<1>6. QueueInv' BY <1>1 DEF QueueInv, Relock, Live
<1>7. WatchInv'
  BY DEF WatchInv, Relock, Live, ObjectOf
<1>8. HeldInv'
  BY DEF HeldInv, Relock, Live
<1>9. DestroyerInv'
  BY DEF DestroyerInv, Relock, Live
<1>10. QED BY <1>2, <1>3, <1>4, <1>5, <1>6, <1>7, <1>8, <1>9

\* on_zero_handles ends.
LEMMA InvZeroDone ==
  ASSUME IInv, NEW t \in Threads, ZeroDone(t)
  PROVE  ObserverInv'
<1>1. Queued' = Queued /\ (Distinct(packets') <=> Distinct(packets))
  BY DEF ZeroDone, Queued
<1>2. Queued = {} BY DEF ZeroDone, Queued
<1>3. ControlInv' BY DEF ControlInv, ZeroDone, Return
<1>4. LockInv'
  BY DEF LockInv, ZeroDone, Return, ObjectOf
<1>5. PortLockInv' BY DEF PortLockInv, ZeroDone, Return
<1>6. CloseInv' BY <1>1, <1>2 DEF CloseInv, ControlInv, ZeroDone, Return
<1>7. QueueInv'
  BY <1>1 DEF QueueInv, ZeroDone, Live
<1>8. WatchInv'
  BY DEF WatchInv, ZeroDone, Live, ObjectOf
<1>9. HeldInv'
  BY DEF HeldInv, ZeroDone, Return, Live
<1>10. DestroyerInv'
  BY DEF DestroyerInv, ZeroDone, Return, Live
<1>11. QED BY <1>3, <1>4, <1>5, <1>6, <1>7, <1>8, <1>9, <1>10

\* on_zero_handles unlinks an observer.
LEMMA InvUnlinkObserver ==
  ASSUME IInv, NEW t \in Threads, NEW o \in Observers, UnlinkObserver(t, o)
  PROVE  ObserverInv'
<1>1. Queued' = Queued /\ (Distinct(packets') <=> Distinct(packets))
  BY DEF UnlinkObserver, Queued
<1>2. Queued = {} BY DEF UnlinkObserver, Queued
<1>3. ControlInv' BY DEF ControlInv, UnlinkObserver
<1>4. LockInv'
  BY DEF LockInv, UnlinkObserver, ObjectOf
<1>5. PortLockInv' BY DEF PortLockInv, UnlinkObserver, Dropped
<1>6. CloseInv'
  BY <1>1, <1>2 DEF CloseInv, UnlinkObserver
<1>7. QueueInv'
  BY <1>1 DEF QueueInv, UnlinkObserver, Live
<1>8. WatchInv'
  BY DEF WatchInv, UnlinkObserver, Live, ObjectOf
<1>9. HeldInv'
  BY DEF HeldInv, ControlInv, CloseInv, DestroyerInv, UnlinkObserver, Live
<1>10. DestroyerInv'
  BY DEF DestroyerInv, UnlinkObserver, Live
<1>11. QED BY <1>3, <1>4, <1>5, <1>6, <1>7, <1>8, <1>9, <1>10

\* zx_object_wait_async makes an observer.
LEMMA InvWaitAsync ==
  ASSUME IInv, NEW t \in Threads, NEW o \in Observers, NEW r \in Registration, WaitAsync(t, o, r)
  PROVE  ObserverInv'
<1>1. Queued' = Queued /\ (Distinct(packets') <=> Distinct(packets))
  BY DEF WaitAsync, Queued
<1>2. Live' = Live \cup {o} /\ o \notin Live
  <2>1. r # Freed BY DEF Registration
  <2>2. QED BY <2>1 DEF WaitAsync, Live
<1>3. ControlInv' BY DEF ControlInv, WaitAsync, Begin
<1>4. LockInv'
  <2>1. lock' = lock /\ arg' = arg /\ pc'[t] = "add" /\ \A x \in Live : reg'[x] = reg[x]
    BY <1>2 DEF WaitAsync, Begin
  <2>2. \A v \in Threads : v # t => pc'[v] = pc[v] /\ cur'[v] = cur[v] /\ op'[v] = op[v]
    BY DEF WaitAsync, Begin
  <2>3. \A v \in Threads : pc[v] \in {"match", "reap"} => cur[v] \in Live BY DEF HeldInv
  <2>4. \A v \in Threads : pc[v] = "post" /\ cur[v] # NoObs => cur[v] \in Live
    BY DEF HeldInv
  <2>5. QED BY <2>1, <2>2, <2>3, <2>4 DEF LockInv, ObjectOf
<1>5. PortLockInv' BY DEF PortLockInv, WaitAsync, Begin
<1>6. CloseInv' BY DEF CloseInv, WaitAsync, Begin
<1>7. QueueInv'
  BY <1>1, <1>2 DEF QueueInv, WaitAsync
<1>8. WatchInv'
  BY <1>2 DEF WatchInv, WaitAsync, ObjectOf
<1>9. HeldInv'
  BY <1>2 DEF HeldInv, WatchInv, QueueInv, WaitAsync, Begin
<1>10. DestroyerInv'
  BY <1>2 DEF DestroyerInv, CloseInv, WaitAsync, Begin
<1>11. QED BY <1>3, <1>4, <1>5, <1>6, <1>7, <1>8, <1>9, <1>10

\* A signal change begins.
LEMMA InvSignal ==
  ASSUME IInv, NEW t \in Threads, NEW d \in Objects, NEW new \in SUBSET Sigs, Signal(t, d, new)
  PROVE  ObserverInv'
<1>1. Queued' = Queued /\ (Distinct(packets') <=> Distinct(packets))
  BY DEF Signal, Queued
<1>2. ControlInv' BY DEF ControlInv, Signal, Begin
<1>3. LockInv'
  BY DEF LockInv, Signal, Begin, ObjectOf
<1>4. PortLockInv' BY DEF PortLockInv, Signal, Begin
<1>5. CloseInv' BY <1>1 DEF CloseInv, Signal, Begin
<1>6. QueueInv'
  BY <1>1 DEF QueueInv, Signal, Live
<1>7. WatchInv'
  BY DEF WatchInv, Signal, Live, ObjectOf
<1>8. HeldInv'
  BY DEF HeldInv, Signal, Begin, Live
<1>9. DestroyerInv'
  BY DEF DestroyerInv, Signal, Begin, Live
<1>10. QED BY <1>2, <1>3, <1>4, <1>5, <1>6, <1>7, <1>8, <1>9

\* A step that changes nothing.
LEMMA InvStutter == ASSUME IInv, TypeInv', UNCHANGED vars PROVE ObserverInv'
<1> USE DEF vars
<1>1. Quiet /\ Queued' = Queued BY DEF Quiet, Queued
<1>2. ControlInv' /\ CloseInv' BY <1>1 DEF ControlInv, CloseInv
<1>3. QED BY <1>1, <1>2, InvQuiet

HIDE PortAssumption
HIDE DEF IInv, ObserverInv, TypeInv, CurHeld, TypeOK, ObjectTypes, PortTypes, HeapTypes,
    ThreadTypes, PCs, Ops, Goto, tableVars, objectVars, portVars, semaVars, callVars,
    histVars

\* Every step keeps the invariant.
LEMMA InvNext == IInv /\ [Next]_vars => IInv'
<1> SUFFICES ASSUME IInv, [Next]_vars PROVE IInv' OBVIOUS
<1>1. TypeInv' BY TypeNext DEF IInv
<1>2. ObserverInv'
  BY <1>1, InvAddMatch, InvAddObserver, InvQueueSignal, InvPostSignal, InvMaybeReap,
      InvNotifyDone, InvNotifyNext, InvCancelBadHandle, InvCancelStart, InvCancelLock,
      InvCloseDone, InvCancelByKeyDone, InvCancelQueuedDone, InvCancelPacket,
      InvCancelNext, InvQueueUserFails, InvPostUser, InvQueueUser, InvSemaWait,
      InvDequeueInterrupt, InvDequeuePacket, InvDequeueSpurious, InvZeroHandles,
      InvDrainPacket, InvRemoveObserver, InvRelock, InvZeroDone, InvUnlinkObserver,
      InvWaitAsync, InvSignal, InvCloseHandle, InvLookup, InvClosePort, InvWaitEnds,
      InvQueueInterruptPacket, InvPostInterrupt, InvRemoveInterruptPacket, InvStutter DEF
      Next, KernelStep, UserStep
<1>3. QED BY <1>1, <1>2 DEF IInv

\* The inductive invariant: the control, locking, queue and pointer facts from
\* which the safety of an observer's life follows.
THEOREM Invariant == Spec => []IInv
  BY InvInit, InvNext, PTL DEF Spec

\* No list, packet queue or running OnMatch, OnCancel or on_zero_handles holds
\* a pointer to a deleted observer.
THEOREM ObserversAreValid == Spec => []NoDanglingObserver
<1>1. ASSUME IInv PROVE NoDanglingObserver
  <2>1. UNION {watchers[d] : d \in Objects} \subseteq Live
    BY <1>1, Zenon DEF IInv, ObserverInv, WatchInv
  <2>2. observers \cup owned \subseteq Live BY <1>1 DEF IInv, ObserverInv, DestroyerInv
  <2>3. Queued \cap Observers \subseteq Live BY <1>1 DEF IInv, ObserverInv, QueueInv
  <2>4. \A t \in Threads : cur[t] # NoObs => cur[t] \in Live
    BY <1>1 DEF IInv, ObserverInv, HeldInv
  <2>5. (UNION {watchers[d] : d \in Objects}) \cup observers \cup owned \subseteq Live
    BY <2>1, <2>2, Zenon
  <2>6. QED BY <2>3, <2>4, <2>5, Zenon DEF NoDanglingObserver
<1>2. QED BY Invariant, <1>1, PTL

\* MaybeReap's promise: exactly one party will delete each live observer.
THEOREM ObserversHaveOneDestroyer == Spec => []ExactlyOneDestroyer
<1>1. IInv => ExactlyOneDestroyer
  BY DEF IInv, ObserverInv, ControlInv, CloseInv, QueueInv, HeldInv, DestroyerInv,
     ExactlyOneDestroyer, Closers
<1>2. QED BY Invariant, <1>1, PTL

\* Once on_zero_handles has returned, no observer and no packet is left.
THEOREM ClosedPortsAreEmpty == Spec => []ClosedPortIsEmpty
<1>1. ASSUME IInv PROVE ClosedPortIsEmpty
  <2>1. SUFFICES ASSUME porth = "freed" PROVE Live = {} /\ packets = <<>>
    BY DEF ClosedPortIsEmpty
  <2>2. Queued = {} /\ observers = {} /\ owned = {}
    BY <1>1, <2>1 DEF IInv, ObserverInv, CloseInv, QueueInv
  <2>3. \A t \in Threads : pc[t] # "remove"
    BY <1>1, <2>1 DEF IInv, ObserverInv, ControlInv, CloseInv
  <2>4. Live = {} BY <1>1, <2>2, <2>3 DEF IInv, ObserverInv, DestroyerInv
  <2>5. packets = <<>>
    <3>1. packets \in Seq(Observers \cup UserPackets)
      BY <1>1 DEF IInv, TypeInv, TypeOK, ListTypes
    <3>2. Queued = Elems(packets) BY DEF Queued, Elems
    <3>3. packets # <<>> => Head(packets) \in Elems(packets) BY <3>1, TailList
    <3>4. QED BY <2>2, <3>2, <3>3
  <2>6. QED BY <2>4, <2>5
<1>2. QED BY Invariant, <1>1, PTL

(***************************************************************************)
(* What the port delivers: no signal is missed, no packet sleeps while a   *)
(* thread waits for one, and a canceled wait stays silent.                 *)
(***************************************************************************)

-----------------------------------------------------------------------------
(* Facts about single steps.                                               *)

\* The registration of an observer does not change while it lives.
LEMMA RegKept ==
  ASSUME [Next]_vars PROVE \A o \in Live : o \in Live' => reg'[o] = reg[o]
<1> DEFINE Kept == \A o \in Live : o \in Live' => reg'[o] = reg[o]
<1> USE DEF Live, tableVars, objectVars, portVars, semaVars, callVars, histVars
<1>1. CASE reg' = reg BY <1>1
<1>2. ASSUME NEW S, Destroy(S) PROVE Kept BY <1>2 DEF Destroy
<1>3. ASSUME NEW t \in Threads, NEW o \in Observers, NEW r \in Registration, WaitAsync(t, o, r)
      PROVE  Kept
  BY <1>3 DEF WaitAsync
<1>4. CASE UNCHANGED vars BY <1>1, <1>4 DEF vars
<1>5. ASSUME NEW t \in Threads, KernelStep(t) PROVE Kept
  <2>1. ASSUME NEW i \in DOMAIN packets, CancelPacket(t, i) PROVE Kept
    BY <1>2, <2>1 DEF CancelPacket
  <2>2. CASE MaybeReap(t) BY <1>2, <2>2 DEF MaybeReap
  <2>3. CASE DequeuePacket(t) \/ DrainPacket(t) BY <1>2, <2>3 DEF DequeuePacket, DrainPacket
  <2>4. CASE RemoveObserver(t) BY <1>2, <2>4 DEF RemoveObserver
  <2>5. QED
    BY <1>1, <1>5, <2>1, <2>2, <2>3, <2>4
    DEF KernelStep, AddMatch, AddObserver, QueueSignal, PostSignal, NotifyDone, NotifyNext,
        CancelBadHandle, CancelStart, CancelLock, CloseDone, CancelByKeyDone, CancelQueuedDone,
        CancelNext, QueueUserFails, PostUser, QueueUser, SemaWait, DequeueInterrupt,
        DequeueSpurious, ZeroHandles, Relock, ZeroDone, UnlinkObserver
<1>6. ASSUME NEW t \in Threads, UserStep(t) \/ WaitEnds(t) PROVE Kept
  BY <1>1, <1>3, <1>6 DEF UserStep, WaitEnds, Signal, CloseHandle, Lookup, ClosePort
<1>7. ASSUME NEW i \in Interrupts,
             QueueInterruptPacket(i) \/ PostInterrupt(i) \/ RemoveInterruptPacket(i)
      PROVE  Kept
  BY <1>1, <1>7 DEF QueueInterruptPacket, PostInterrupt, RemoveInterruptPacket
<1>8. QED BY <1>4, <1>5, <1>6, <1>7 DEF Next

\* What sema_.Post() does to the threads: the poster moves on, and a blocked
\* thread may wake up.
LEMMA PostMoves ==
  ASSUME IInv, NEW P \in [Threads -> PCs], SemaPost(P), NEW v \in Threads
  PROVE  \/ pc'[v] = P[v]
         \/ pc[v] = "blocked" /\ pc'[v] = "dequeue_interrupt"
  BY DEF SemaPost, Blocked

-----------------------------------------------------------------------------
(* Level-triggered waits.                                                  *)

\* Where a thread has the lock of a watched object; it has one such lock.
Holding(t) == \/ pc[t] \in {"match", "reap", "update", "erase"}
              \/ pc[t] = "post" /\ cur[t] # NoObs

HoldsInv ==
  \A d \in Objects : lock[d] # NoThread =>
    /\ Holding(lock[d])
    /\ \A e \in Objects : lock[e] = lock[d] => e = d

\* Every step keeps the locks of the objects where they belong.
LEMMA HoldsNext == ASSUME IInv, HoldsInv, [Next]_vars PROVE HoldsInv'
<1> USE PortAssumption
<1> USE DEF IInv, ObserverInv, TypeInv, CurHeld, TypeOK, ObjectTypes, ThreadTypes, Holding,
      HoldsInv, ControlInv, LockInv, Goto, Return, Begin,
      tableVars, objectVars, portVars, semaVars, callVars, histVars
<1>1. ASSUME lock' = lock, \A u \in Threads : Holding(u) => Holding(u)' PROVE HoldsInv'
  BY <1>1
<1>2. ASSUME NEW t \in Threads, AddMatch(t) \/ CancelLock(t) PROVE HoldsInv'
  BY <1>2 DEF AddMatch, CancelLock
<1>3. ASSUME NEW t \in Threads, NEW d \in Objects, NEW new \in SUBSET Sigs, Signal(t, d, new)
      PROVE  HoldsInv'
  BY <1>3 DEF Signal
<1>4. ASSUME NEW t \in Threads, NEW d \in Objects, NotifyDone(t, d) PROVE HoldsInv'
  BY <1>4 DEF NotifyDone
<1>5. ASSUME NEW t \in Threads, CloseDone(t) \/ CancelByKeyDone(t) PROVE HoldsInv'
  BY <1>5 DEF CloseDone, CancelByKeyDone
<1>6. ASSUME NEW t \in Threads, MaybeReap(t) PROVE HoldsInv'
  BY <1>6 DEF MaybeReap
<1>7. ASSUME NEW t \in Threads, PostSignal(t) \/ PostUser(t) PROVE HoldsInv'
  <2>1. PICK l \in {"reap", "user"} : SemaPost([pc EXCEPT ![t] = l])
                                      /\ (l = "user" => cur[t] = NoObs)
    BY <1>7 DEF PostSignal, PostUser
  <2>2. \A v \in Threads : \/ pc'[v] = [pc EXCEPT ![t] = l][v]
                           \/ pc[v] = "blocked" /\ pc'[v] = "dequeue_interrupt"
    BY <2>1, PostMoves DEF PCs
  <2>3. lock' = lock /\ cur' = cur /\ pc[t] = "post" BY <1>7 DEF PostSignal, PostUser
  <2>4. \A u \in Threads : Holding(u) => Holding(u)' BY <2>1, <2>2, <2>3
  <2>5. QED BY <1>1, <2>3, <2>4
<1>8. ASSUME NEW i \in Interrupts,
             QueueInterruptPacket(i) \/ PostInterrupt(i) \/ RemoveInterruptPacket(i)
      PROVE  HoldsInv'
  <2>1. lock' = lock /\ cur' = cur
    BY <1>8 DEF QueueInterruptPacket, PostInterrupt, RemoveInterruptPacket
  <2>2. \A u \in Threads : Holding(u) => Holding(u)'
    BY <1>8, PostMoves, <2>1 DEF QueueInterruptPacket, PostInterrupt, RemoveInterruptPacket
  <2>3. QED BY <1>1, <2>1, <2>2
<1>9. CASE UNCHANGED vars BY <1>9 DEF vars
<1>10. ASSUME NEW t \in Threads, KernelStep(t) PROVE HoldsInv'
  <2>1. CASE \/ AddObserver(t) \/ QueueSignal(t) \/ QueueUserFails(t) \/ SemaWait(t)
             \/ DequeueInterrupt(t) \/ DequeuePacket(t) \/ DequeueSpurious(t)
    BY <1>1, <2>1 DEF AddObserver, QueueSignal, QueueUserFails, SemaWait, DequeueInterrupt,
       DequeuePacket, DequeueSpurious
  <2>2. CASE \/ ZeroHandles(t) \/ DrainPacket(t) \/ RemoveObserver(t) \/ Relock(t)
             \/ ZeroDone(t) \/ CancelQueuedDone(t)
             \/ \E o \in Observers : UnlinkObserver(t, o) \/ CancelNext(t, o)
    BY <1>1, <2>2 DEF ZeroHandles, DrainPacket, RemoveObserver, Relock, ZeroDone,
       CancelQueuedDone, UnlinkObserver, CancelNext
  <2>3. CASE \/ \E i \in DOMAIN packets : CancelPacket(t, i)
             \/ \E u \in UserPackets : QueueUser(t, u)
             \/ \E d \in Objects, o \in Observers : NotifyNext(t, d, o)
             \/ \E h \in Handles : CancelBadHandle(t, h) \/ \E k \in Keys : CancelStart(t, h, k)
    BY <1>1, <2>3 DEF CancelPacket, QueueUser, NotifyNext, CancelBadHandle, CancelStart
  <2> HIDE DEF HoldsInv
  <2>4. QED BY <1>2, <1>4, <1>5, <1>6, <1>7, <1>10, <2>1, <2>2, <2>3 DEF KernelStep
<1>11. ASSUME NEW t \in Threads, UserStep(t) \/ WaitEnds(t) PROVE HoldsInv'
  BY <1>1, <1>3, <1>11 DEF UserStep, WaitEnds, WaitAsync, CloseHandle, Lookup, ClosePort
<1>12. QED BY <1>8, <1>9, <1>10, <1>11 DEF Next

\* A signal change has the object's lock and has not yet come to its end.
Notifying(d) == lock[d] # NoThread /\ op[lock[d]] = "signal"

LevelInv ==
  \A d \in Objects : \A o \in watchers[d] :
    \/ reg[o].edge
    \/ reg[o].trigger \cap signals[d] = {}
    \/ Notifying(d)

\* A step that starts no signal change, ends none and adds no observer to an
\* object keeps LevelInv: the observers still there are the same.
LEMMA LevelFrame ==
  ASSUME IInv, IInv', [Next]_vars, LevelInv, signals' = signals,
         \A d \in Objects : watchers'[d] \subseteq watchers[d],
         \A d \in Objects : Notifying(d) => Notifying(d)'
  PROVE  LevelInv'
<1>1. \A d \in Objects : \A o \in watchers'[d] : o \in Live /\ o \in Live'
  BY DEF IInv, ObserverInv, WatchInv
<1>2. \A d \in Objects : \A o \in watchers'[d] : reg'[o] = reg[o]
  BY <1>1, RegKept
<1>3. QED BY <1>2 DEF LevelInv

\* Every step keeps LevelInv.
LEMMA LevelNext ==
  ASSUME IInv, IInv', HoldsInv, LevelInv, [Next]_vars PROVE LevelInv'
<1> DEFINE Fewer == \A d \in Objects : watchers'[d] \subseteq watchers[d]
           Going == \A d \in Objects : Notifying(d) => Notifying(d)'
<1> USE PortAssumption
<1> USE DEF IInv, ObserverInv, TypeInv, CurHeld, TypeOK, ObjectTypes, ThreadTypes, Notifying,
      HoldsInv, Holding, ControlInv, LockInv, Goto, Return, Begin,
      tableVars, objectVars, portVars, semaVars, callVars, histVars
<1>1. ASSUME signals' = signals, Fewer, Going PROVE LevelInv'
  BY <1>1, LevelFrame
<1>2. ASSUME NEW t \in Threads, AddMatch(t) \/ CancelLock(t) PROVE LevelInv'
  <2>1. signals' = signals /\ Fewer BY <1>2 DEF AddMatch, CancelLock
  <2>2. Going BY <1>2 DEF AddMatch, CancelLock
  <2>3. QED BY <1>1, <2>1, <2>2
<1>3. ASSUME NEW t \in Threads, NEW d \in Objects, NEW new \in SUBSET Sigs, Signal(t, d, new)
      PROVE  LevelInv'
  <2>1. /\ Notifying(d)' /\ reg' = reg /\ watchers' = watchers
        /\ \A e \in Objects \ {d} : signals'[e] = signals[e] /\ (Notifying(e) => Notifying(e)')
    BY <1>3 DEF Signal
  <2>2. QED BY <2>1 DEF LevelInv
<1>4. ASSUME NEW t \in Threads, NEW d \in Objects, NotifyDone(t, d) PROVE LevelInv'
  <2>1. /\ reg' = reg /\ watchers' = watchers /\ signals' = signals /\ ToNotify(d) = {}
        /\ \A e \in Objects \ {d} : Notifying(e) => Notifying(e)'
    BY <1>4 DEF NotifyDone
  <2>2. \A o \in watchers[d] : reg[o].trigger \cap signals[d] = {} BY <2>1 DEF ToNotify
  <2>3. QED BY <2>1, <2>2 DEF LevelInv
<1>5. ASSUME NEW t \in Threads, CloseDone(t) \/ CancelByKeyDone(t) PROVE LevelInv'
  <2>1. signals' = signals /\ Fewer BY <1>5 DEF CloseDone, CancelByKeyDone
  <2>2. Going BY <1>5 DEF CloseDone, CancelByKeyDone
  <2>3. QED BY <1>1, <2>1, <2>2
<1>6. ASSUME NEW t \in Threads, MaybeReap(t) PROVE LevelInv'
  <2>1. signals' = signals /\ Fewer BY <1>6 DEF MaybeReap
  <2>2. Going BY <1>6 DEF MaybeReap
  <2>3. QED BY <1>1, <2>1, <2>2
<1>7. ASSUME NEW t \in Threads, AddObserver(t) PROVE LevelInv'
  <2>1. PICK o \in Live : o = cur[t]
    BY <1>7 DEF AddObserver, HeldInv
  <2>2. PICK d \in Objects : d = ObjectOf(o)
    BY <2>1, ObjectExists
  <2>3. /\ reg' = reg /\ signals' = signals /\ ~MatchesNow(o)
        /\ watchers' = [watchers EXCEPT ![d] = @ \cup {o}]
    BY <1>7, <2>1, <2>2 DEF AddObserver
  <2>4. reg[o].edge \/ reg[o].trigger \cap signals[d] = {}
    BY <2>2, <2>3 DEF MatchesNow
  <2>5. Going BY <1>7 DEF AddObserver
  <2>6. \A e \in Objects : \A x \in watchers'[e] : x \in watchers[e] \/ (x = o /\ e = d)
    BY <2>3
  <2>7. QED BY <2>3, <2>4, <2>5, <2>6 DEF LevelInv
<1>8. ASSUME NEW t \in Threads, RemoveObserver(t) PROVE LevelInv'
  <2>1. signals' = signals /\ Fewer BY <1>8 DEF RemoveObserver
  <2>2. Going BY <1>8 DEF RemoveObserver
  <2>3. QED BY <1>1, <2>1, <2>2
<1>9. ASSUME NEW t \in Threads, NEW o \in Observers,
             CancelNext(t, o) \/ \E d \in Objects : NotifyNext(t, d, o)
      PROVE  LevelInv'
  <2>1. signals' = signals /\ Fewer BY <1>9 DEF CancelNext, NotifyNext
  <2>2. Going BY <1>9 DEF CancelNext, NotifyNext
  <2>3. QED BY <1>1, <2>1, <2>2
<1>10. ASSUME watchers' = watchers, signals' = signals, lock' = lock,
              \A u \in Threads : op[u] = "signal" => op'[u] = "signal"
       PROVE  LevelInv'
  BY <1>1, <1>10
<1>11. ASSUME NEW t \in Threads, KernelStep(t) PROVE LevelInv'
  <2>1. CASE \/ QueueSignal(t) \/ QueueUserFails(t) \/ SemaWait(t) \/ PostSignal(t) \/ PostUser(t)
             \/ DequeueInterrupt(t) \/ DequeuePacket(t) \/ DequeueSpurious(t)
    BY <1>10, <2>1 DEF QueueSignal, QueueUserFails, SemaWait, PostSignal, PostUser,
       DequeueInterrupt, DequeuePacket, DequeueSpurious
  <2>2. CASE \/ ZeroHandles(t) \/ DrainPacket(t) \/ Relock(t) \/ ZeroDone(t)
             \/ CancelQueuedDone(t) \/ \E o \in Observers : UnlinkObserver(t, o)
    BY <1>10, <2>2 DEF ZeroHandles, DrainPacket, Relock, ZeroDone, CancelQueuedDone,
       UnlinkObserver
  <2>3. CASE \/ \E i \in DOMAIN packets : CancelPacket(t, i)
             \/ \E u \in UserPackets : QueueUser(t, u)
             \/ \E h \in Handles : CancelBadHandle(t, h) \/ \E k \in Keys : CancelStart(t, h, k)
    BY <1>10, <2>3 DEF CancelPacket, QueueUser, CancelBadHandle, CancelStart
  <2>4. QED
    BY <1>2, <1>4, <1>5, <1>6, <1>7, <1>8, <1>9, <1>11, <2>1, <2>2, <2>3 DEF KernelStep
<1>12. ASSUME NEW t \in Threads, UserStep(t) \/ WaitEnds(t) PROVE LevelInv'
  BY <1>3, <1>10, <1>12 DEF UserStep, WaitEnds, WaitAsync, CloseHandle, Lookup, ClosePort
<1>13. ASSUME NEW i \in Interrupts,
             QueueInterruptPacket(i) \/ PostInterrupt(i) \/ RemoveInterruptPacket(i)
       PROVE  LevelInv'
  BY <1>10, <1>13 DEF QueueInterruptPacket, PostInterrupt, RemoveInterruptPacket
<1>14. CASE UNCHANGED vars BY <1>10, <1>14 DEF vars
<1>15. QED BY <1>11, <1>12, <1>13, <1>14 DEF Next

\* AddObserver, which looks at the signals and joins the list under one lock,
\* and UpdateStateLocked, which changes them and walks the list under it: a
\* level-triggered wait is never pending on an object that has its signal.
THEOREM LevelsAreNeverMissed == Spec => []LevelNeverMissed
<1>1. Init => HoldsInv /\ LevelInv BY DEF Init, HoldsInv, LevelInv
<1>2. LevelInv => LevelNeverMissed BY DEF LevelInv, LevelNeverMissed, Notifying
<1>3. IInv /\ IInv' /\ HoldsInv /\ LevelInv /\ [Next]_vars => HoldsInv' /\ LevelInv'
  BY HoldsNext, LevelNext
<1>4. QED BY Invariant, <1>1, <1>2, <1>3, PTL DEF Spec

-----------------------------------------------------------------------------
(* Cancellation.                                                           *)

\* No running zx_object_wait_async has the observer.
NotAdding(o) == \A u \in Threads : op[u] = "wait_async" => cur[u] # o

\* Nothing can queue the observer's packet any more.
Silent(o) == /\ \A d \in Objects : o \notin watchers[d]
             /\ \A u \in Threads : pc[u] = "match" => cur[u] # o

\* While zx_port_cancel runs, the waits it has to stop are the ones it selects;
\* when it comes to the packet queue they are off their object's list.
StopInv ==
  \A t \in Threads : \A o \in stopping[t] :
    /\ op[t] = "cancel" /\ pc[t] \in {"lock", "erase", "reap", "cancel_queued"}
    /\ o \in Live => reg[o].handle = arg[t] /\ reg[o].key = key[t]
    /\ NotAdding(o)
    /\ pc[t] = "cancel_queued" => Silent(o)

CanceledInv == \A o \in canceled : o \notin Queued /\ Silent(o) /\ NotAdding(o)

CancelInv == StopInv /\ CanceledInv

\* A step that begins no wait_async gives no thread there another observer.
LEMMA NotAddingKept ==
  ASSUME NEW o \in Observers, NotAdding(o),
         \A u \in Threads : op'[u] = "wait_async" =>
           op[u] = "wait_async" /\ cur'[u] \in {cur[u], NoObs}
  PROVE  NotAdding(o)'
  BY PortAssumption DEF NotAdding

\* A step that puts nobody but the observer of a wait_async on a list, or in
\* OnMatch from elsewhere than a list, keeps an observer silent.
LEMMA SilentKept ==
  ASSUME NEW o \in Observers, Silent(o), NotAdding(o),
         \A d \in Objects : \A x \in watchers'[d] :
           x \in watchers[d] \/ \E u \in Threads : op[u] = "wait_async" /\ cur[u] = x,
         \A u \in Threads : pc'[u] = "match" =>
           \/ pc[u] = "match" /\ cur'[u] = cur[u]
           \/ op[u] = "wait_async" /\ cur'[u] = cur[u]
           \/ \E d \in Objects : cur'[u] \in watchers[d]
  PROVE  Silent(o)'
  BY DEF Silent, NotAdding

\* Every step of Port puts an observer on a list or in OnMatch that way.
LEMMA ListSteps ==
  ASSUME IInv, [Next]_vars
  PROVE  /\ \A d \in Objects : \A x \in watchers'[d] :
              x \in watchers[d] \/ \E u \in Threads : op[u] = "wait_async" /\ cur[u] = x
         /\ \A u \in Threads : pc'[u] = "match" =>
              \/ pc[u] = "match" /\ cur'[u] = cur[u]
              \/ op[u] = "wait_async" /\ cur'[u] = cur[u]
              \/ \E d \in Objects : cur'[u] \in watchers[d]
<1> DEFINE Lists == \A d \in Objects : \A x \in watchers'[d] :
                      x \in watchers[d] \/ \E u \in Threads : op[u] = "wait_async" /\ cur[u] = x
           Match == \A u \in Threads : pc'[u] = "match" =>
                      \/ pc[u] = "match" /\ cur'[u] = cur[u]
                      \/ op[u] = "wait_async" /\ cur'[u] = cur[u]
                      \/ \E d \in Objects : cur'[u] \in watchers[d]
<1> SUFFICES Lists /\ Match OBVIOUS
<1> USE PortAssumption
<1> USE DEF IInv, ObserverInv, TypeInv, TypeOK, ObjectTypes, ThreadTypes, PCs, ControlInv,
      Goto, Return, Begin, tableVars, objectVars, portVars, semaVars, callVars, histVars
<1>1. ASSUME NEW t \in Threads, AddObserver(t) PROVE Lists /\ Match
  BY <1>1 DEF AddObserver
<1>2. ASSUME NEW t \in Threads, AddMatch(t) PROVE Lists /\ Match
  BY <1>2 DEF AddMatch
<1>3. ASSUME NEW t \in Threads, NEW d \in Objects, NEW o \in Observers, NotifyNext(t, d, o)
      PROVE  Lists /\ Match
  BY <1>3 DEF NotifyNext, ToNotify
<1>4. ASSUME NEW t \in Threads, RemoveObserver(t) \/ \E o \in Observers : CancelNext(t, o)
      PROVE  Lists /\ Match
  BY <1>4 DEF RemoveObserver, CancelNext
<1>5. ASSUME watchers' = watchers,
             \A u \in Threads : pc'[u] = "match" => pc[u] = "match" /\ cur'[u] = cur[u]
      PROVE  Lists /\ Match
  BY <1>5
<1>6. ASSUME NEW t \in Threads, PostSignal(t) \/ PostUser(t) PROVE Lists /\ Match
  BY <1>5, <1>6 DEF PostSignal, PostUser, SemaPost, Blocked
<1>7. ASSUME NEW i \in Interrupts,
             QueueInterruptPacket(i) \/ PostInterrupt(i) \/ RemoveInterruptPacket(i)
      PROVE  Lists /\ Match
  BY <1>5, <1>7 DEF QueueInterruptPacket, PostInterrupt, RemoveInterruptPacket, SemaPost, Blocked
<1>8. CASE UNCHANGED vars BY <1>5, <1>8 DEF vars
<1>9. ASSUME NEW t \in Threads, KernelStep(t) PROVE Lists /\ Match
  <2>1. CASE \/ QueueSignal(t) \/ QueueUserFails(t) \/ SemaWait(t) \/ MaybeReap(t)
             \/ DequeueInterrupt(t) \/ DequeuePacket(t) \/ DequeueSpurious(t)
    BY <1>5, <2>1 DEF QueueSignal, QueueUserFails, SemaWait, MaybeReap, DequeueInterrupt,
       DequeuePacket, DequeueSpurious
  <2>2. CASE \/ ZeroHandles(t) \/ DrainPacket(t) \/ Relock(t) \/ ZeroDone(t)
             \/ CancelQueuedDone(t) \/ CancelByKeyDone(t) \/ CloseDone(t) \/ CancelLock(t)
             \/ \E o \in Observers : UnlinkObserver(t, o)
    BY <1>5, <2>2 DEF ZeroHandles, DrainPacket, Relock, ZeroDone, CancelQueuedDone,
       CancelByKeyDone, CloseDone, CancelLock, UnlinkObserver
  <2>3. CASE \/ \E i \in DOMAIN packets : CancelPacket(t, i)
             \/ \E u \in UserPackets : QueueUser(t, u)
             \/ \E d \in Objects : NotifyDone(t, d)
             \/ \E h \in Handles : CancelBadHandle(t, h) \/ \E k \in Keys : CancelStart(t, h, k)
    BY <1>5, <2>3 DEF CancelPacket, QueueUser, NotifyDone, CancelBadHandle, CancelStart
  <2> HIDE DEF Lists, Match
  <2>4. QED BY <1>1, <1>2, <1>3, <1>4, <1>6, <1>9, <2>1, <2>2, <2>3 DEF KernelStep
<1>10. ASSUME NEW t \in Threads, UserStep(t) \/ WaitEnds(t) PROVE Lists /\ Match
  <2>1. watchers' = watchers
    BY <1>10 DEF UserStep, WaitEnds, WaitAsync, Signal, CloseHandle, Lookup, ClosePort
  <2>2. \A u \in Threads : pc'[u] = "match" => pc[u] = "match" /\ cur'[u] = cur[u]
    BY <1>10 DEF UserStep, WaitEnds, WaitAsync, Signal, CloseHandle, Lookup, ClosePort
  <2>3. QED BY <1>5, <2>1, <2>2
<1> HIDE DEF Lists, Match
<1>11. QED BY <1>7, <1>8, <1>9, <1>10 DEF Next

\* An observer's packet is queued by a thread in OnMatch only.
LEMMA QueueSteps ==
  ASSUME IInv, [Next]_vars, NEW o \in Observers, o \in Queued',
         \A u \in Threads : pc[u] = "match" => cur[u] # o
  PROVE  o \in Queued
<1> USE DEF tableVars, objectVars, portVars, semaVars, callVars, histVars
<1>0. /\ packets \in Seq(Observers \cup UserPackets) /\ Distinct(packets)
      /\ Queued = Elems(packets) /\ Queued' = Elems(packets')
  BY DEF IInv, TypeInv, TypeOK, ListTypes, ObserverInv, QueueInv, Queued, Elems
<1>1. CASE packets' = packets BY <1>0, <1>1
<1>2. CASE packets # <<>> /\ packets' = Tail(packets) BY <1>0, <1>2, TailList
<1>3. ASSUME NEW t \in Threads, NEW i \in DOMAIN packets, CancelPacket(t, i) PROVE o \in Queued
  BY <1>0, <1>3, EraseList DEF CancelPacket
<1>4. ASSUME NEW t \in Threads, QueueSignal(t) PROVE o \in Queued
  <2>1. CASE packets' = Append(packets, cur[t])
    <3>1. cur[t] \in Observers /\ cur[t] # o
      BY <1>4 DEF QueueSignal, IInv, TypeInv, CurHeld
    <3>2. QED BY <1>0, <2>1, <3>1, AppendList
  <2>2. QED BY <1>1, <1>4, <2>1 DEF QueueSignal
<1>5. ASSUME NEW t \in Threads, NEW u \in UserPackets, QueueUser(t, u) PROVE o \in Queued
  <2>1. o # u BY PortAssumption
  <2>2. packets' = Append(packets, u) BY <1>5 DEF QueueUser
  <2>3. QED BY <1>0, <2>1, <2>2, AppendList
<1>6. ASSUME NEW t \in Threads, KernelStep(t) PROVE o \in Queued
  <2>1. CASE DequeuePacket(t) \/ DrainPacket(t) BY <1>2, <2>1 DEF DequeuePacket, DrainPacket
  <2>2. QED
    BY <1>1, <1>3, <1>4, <1>5, <1>6, <2>1
    DEF KernelStep, AddMatch, AddObserver, PostSignal, MaybeReap, NotifyDone, NotifyNext,
        CancelBadHandle, CancelStart, CancelLock, CloseDone, CancelByKeyDone, CancelQueuedDone,
        CancelNext, QueueUserFails, PostUser, SemaWait, DequeueInterrupt, DequeueSpurious,
        ZeroHandles, RemoveObserver, Relock, ZeroDone, UnlinkObserver
<1>7. ASSUME NEW t \in Threads, UserStep(t) \/ WaitEnds(t) PROVE o \in Queued
  BY <1>1, <1>7 DEF UserStep, WaitEnds, WaitAsync, Signal, CloseHandle, Lookup, ClosePort
<1>8. ASSUME NEW i \in Interrupts,
             QueueInterruptPacket(i) \/ PostInterrupt(i) \/ RemoveInterruptPacket(i)
      PROVE  o \in Queued
  BY <1>1, <1>8 DEF QueueInterruptPacket, PostInterrupt, RemoveInterruptPacket
<1>9. CASE UNCHANGED vars BY <1>1, <1>9 DEF vars
<1>10. QED BY <1>6, <1>7, <1>8, <1>9 DEF Next

\* The places of a zx_port_cancel that has waits to stop.
Stops(t) == op[t] = "cancel" /\ pc[t] \in {"lock", "erase", "reap", "cancel_queued"}

\* A canceled wait stays so, if it is not one that a wait_async begins.
LEMMA CanceledKept ==
  ASSUME IInv, [Next]_vars, NEW o \in canceled, o \notin Queued, Silent(o), NotAdding(o)
  PROVE  o \notin Queued' /\ Silent(o)'
<1>1. o \in Observers BY DEF IInv, TypeInv, TypeOK, HeapTypes
<1>2. Silent(o)' BY <1>1, ListSteps, SilentKept
<1>3. \A u \in Threads : pc[u] = "match" => cur[u] # o BY DEF Silent
<1>4. QED BY <1>1, <1>2, <1>3, QueueSteps

\* The steps that neither begin a wait_async nor move a zx_port_cancel on.
LEMMA CancelFrame ==
  ASSUME IInv, [Next]_vars, CancelInv, UNCHANGED <<stopping, canceled>>, Live' \subseteq Live,
         \A u \in Threads : op'[u] = "wait_async" =>
           op[u] = "wait_async" /\ cur'[u] \in {cur[u], NoObs},
         \A t \in Threads : Stops(t) =>
           /\ Stops(t)' /\ arg'[t] = arg[t] /\ key'[t] = key[t]
           /\ pc'[t] = "cancel_queued" => pc[t] = "cancel_queued"
  PROVE  CancelInv'
<1>1. CanceledInv'
  <2>1. ASSUME NEW o \in canceled PROVE o \notin Queued' /\ Silent(o)' /\ NotAdding(o)'
    <3>1. o \in Observers BY DEF IInv, TypeInv, TypeOK, HeapTypes
    <3>2. o \notin Queued /\ Silent(o) /\ NotAdding(o) BY DEF CancelInv, CanceledInv
    <3>3. QED BY <3>1, <3>2, CanceledKept, NotAddingKept
  <2>2. QED BY <2>1 DEF CanceledInv
<1>2. ASSUME NEW t \in Threads, NEW o \in stopping'[t]
      PROVE  /\ Stops(t)'
             /\ o \in Live' => reg'[o].handle = arg'[t] /\ reg'[o].key = key'[t]
             /\ NotAdding(o)'
             /\ pc'[t] = "cancel_queued" => Silent(o)'
  <2>1. o \in stopping[t] /\ o \in Observers BY DEF IInv, TypeInv, TypeOK, HeapTypes
  <2>2. /\ Stops(t) /\ NotAdding(o) /\ (pc[t] = "cancel_queued" => Silent(o))
        /\ o \in Live => reg[o].handle = arg[t] /\ reg[o].key = key[t]
    BY <2>1 DEF CancelInv, StopInv, Stops
  <2>3. o \in Live' => o \in Live /\ reg'[o] = reg[o] BY RegKept
  <2>4. NotAdding(o)' BY <2>1, <2>2, NotAddingKept
  <2>5. pc'[t] = "cancel_queued" => Silent(o)' BY <2>1, <2>2, ListSteps, SilentKept
  <2>6. QED BY <2>2, <2>3, <2>4, <2>5
<1>3. StopInv' BY <1>2 DEF StopInv, Stops
<1>4. QED BY <1>1, <1>3 DEF CancelInv

\* A wait_async begins with an observer that no earlier zx_port_cancel is about.
LEMMA CancelWaitAsync ==
  ASSUME IInv, [Next]_vars, CancelInv, NEW t \in Threads, NEW o \in Observers,
         NEW r \in Registration, WaitAsync(t, o, r)
  PROVE  CancelInv'
<1> USE DEF Begin, Goto, tableVars, objectVars, portVars, semaVars
<1>1. /\ stopping' = [u \in Threads |-> stopping[u] \ {o}] /\ canceled' = canceled \ {o}
      /\ cur' = [cur EXCEPT ![t] = o] /\ pc[t] = "user" /\ UNCHANGED <<arg, key>>
      /\ op' = [op EXCEPT ![t] = "wait_async"] /\ pc' = [pc EXCEPT ![t] = "add"]
      /\ reg' = [reg EXCEPT ![o] = r]
  BY DEF WaitAsync
<1>2. ASSUME NEW x \in Observers \ {o}, NotAdding(x) PROVE NotAdding(x)'
  BY <1>1, <1>2 DEF NotAdding, IInv, TypeInv, TypeOK, ThreadTypes
<1>3. CanceledInv'
  <2>1. ASSUME NEW x \in canceled \ {o} PROVE x \notin Queued' /\ Silent(x)' /\ NotAdding(x)'
    <3>1. x \in Observers BY DEF IInv, TypeInv, TypeOK, HeapTypes
    <3>2. x \notin Queued /\ Silent(x) /\ NotAdding(x) BY DEF CancelInv, CanceledInv
    <3>3. QED BY <1>2, <3>1, <3>2, CanceledKept
  <2>2. QED BY <1>1, <2>1 DEF CanceledInv
<1>4. ASSUME NEW v \in Threads, NEW x \in stopping'[v]
      PROVE  /\ Stops(v)'
             /\ x \in Live' => reg'[x].handle = arg'[v] /\ reg'[x].key = key'[v]
             /\ NotAdding(x)'
             /\ pc'[v] = "cancel_queued" => Silent(x)'
  <2>1. x \in stopping[v] /\ x \in Observers \ {o}
    BY <1>1 DEF IInv, TypeInv, TypeOK, HeapTypes
  <2>2. /\ Stops(v) /\ NotAdding(x) /\ (pc[v] = "cancel_queued" => Silent(x))
        /\ x \in Live => reg[x].handle = arg[v] /\ reg[x].key = key[v]
    BY <2>1 DEF CancelInv, StopInv, Stops
  <2>3. x \in Live' => x \in Live /\ reg'[x] = reg[x]
    BY <1>1, <2>1 DEF Live, IInv, TypeInv, TypeOK, HeapTypes
  <2>4. v # t BY <1>1, <2>2 DEF Stops
  <2>5. op'[v] = op[v] /\ pc'[v] = pc[v]
    BY <1>1, <2>4 DEF IInv, TypeInv, TypeOK, ThreadTypes
  <2>6. NotAdding(x)' BY <1>2, <2>1, <2>2
  <2>7. pc'[v] = "cancel_queued" => Silent(x)'
    BY <2>1, <2>2, <2>5, ListSteps, SilentKept
  <2>8. QED BY <1>1, <2>2, <2>3, <2>5, <2>6, <2>7 DEF Stops
<1>5. StopInv' BY <1>4 DEF StopInv, Stops
<1>6. QED BY <1>3, <1>5 DEF CancelInv

\* zx_port_cancel begins: it has to stop the waits that are set up.
LEMMA CancelBegins ==
  ASSUME IInv, [Next]_vars, CancelInv, NEW t \in Threads, NEW h \in Handles, NEW k \in Keys,
         CancelStart(t, h, k)
  PROVE  CancelInv'
<1> USE DEF Goto, tableVars, objectVars, portVars, semaVars
<1>1. /\ pc[t] = "cancel" /\ UNCHANGED <<reg, op, cur, canceled, watchers, packets>>
      /\ arg' = [arg EXCEPT ![t] = h] /\ key' = [key EXCEPT ![t] = k]
      /\ pc' = [pc EXCEPT ![t] = "lock"]
      /\ \A u \in Threads \ {t} : stopping'[u] = stopping[u]
      /\ stopping'[t] = {o \in Live : /\ reg[o].handle = h /\ reg[o].key = k
                                      /\ \A u \in Threads : ~(op[u] = "wait_async" /\ cur[u] = o)}
  BY DEF CancelStart, IInv, TypeInv, TypeOK, HeapTypes
<1>2. op[t] = "cancel" BY <1>1 DEF IInv, ObserverInv, ControlInv
<1>3. \A o : (NotAdding(o) => NotAdding(o)') /\ (Silent(o) => Silent(o)')
  BY <1>1 DEF NotAdding, Silent, IInv, TypeInv, TypeOK, ThreadTypes
<1>4. Queued' = Queued /\ Live' = Live BY <1>1 DEF Queued, Live
<1>5. CanceledInv' BY <1>1, <1>3, <1>4 DEF CancelInv, CanceledInv
<1>6. /\ pc'[t] = "lock" /\ arg'[t] = h /\ key'[t] = k
      /\ \A u \in Threads \ {t} : pc'[u] = pc[u] /\ arg'[u] = arg[u] /\ key'[u] = key[u]
  BY <1>1 DEF IInv, TypeInv, TypeOK, ThreadTypes
<1>7. \A o \in stopping'[t] : NotAdding(o)' BY <1>1 DEF NotAdding
<1>8. StopInv'
  <2>1. \A o \in stopping'[t] : o \in Live' => reg'[o].handle = arg'[t] /\ reg'[o].key = key'[t]
    BY <1>1, <1>4, <1>6
  <2>2. QED BY <1>1, <1>2, <1>3, <1>4, <1>6, <1>7, <2>1 DEF CancelInv, StopInv
<1>9. QED BY <1>5, <1>8 DEF CancelInv

\* CancelByKey has taken its observers off the object's list, and no OnMatch runs
\* for them: it would have the lock.
LEMMA CancelErased ==
  ASSUME IInv, [Next]_vars, CancelInv, NEW t \in Threads, CancelByKeyDone(t)
  PROVE  CancelInv'
<1> USE DEF Goto, tableVars, objectVars, portVars, semaVars, callVars, histVars
<1>1. /\ pc[t] = "erase" /\ ToErase(t) = {} /\ pc' = [pc EXCEPT ![t] = "cancel_queued"]
      /\ UNCHANGED <<reg, op, arg, key, cur, stopping, canceled, watchers, packets>>
  BY DEF CancelByKeyDone
<1>2. ASSUME NEW o \in stopping[t] PROVE Silent(o)
  <2>1. o \in Live => reg[o].handle = arg[t] /\ reg[o].key = key[t]
    BY DEF CancelInv, StopInv
  <2>2. o \in Live => Selected(t, o) /\ ObjectOf(o) = ObjOf[arg[t]]
    BY <2>1 DEF Selected, ObjectOf
  <2>3. ASSUME NEW d \in Objects, o \in watchers[d] PROVE FALSE
    <3>1. o \in Live /\ ObjectOf(o) = d BY <2>3 DEF IInv, ObserverInv, WatchInv
    <3>2. o \in ToErase(t) BY <2>2, <2>3, <3>1 DEF ToErase
    <3>3. QED BY <1>1, <3>2
  <2>4. ASSUME NEW u \in Threads, pc[u] = "match", cur[u] = o PROVE FALSE
    <3>1. cur[u] \in Observers BY <2>4 DEF IInv, TypeInv, CurHeld
    <3>2. o \in Live /\ lock[ObjectOf(o)] = u
      BY <2>4, <3>1, PortAssumption DEF IInv, ObserverInv, HeldInv, LockInv
    <3>3. lock[ObjOf[arg[t]]] = t BY <1>1 DEF IInv, ObserverInv, LockInv
    <3>4. u = t BY <2>2, <3>2, <3>3
    <3>5. QED BY <1>1, <2>4, <3>4
  <2>5. QED BY <2>3, <2>4 DEF Silent
<1>3. \A o : (NotAdding(o) => NotAdding(o)') /\ (Silent(o) => Silent(o)')
  BY <1>1 DEF NotAdding, Silent, IInv, TypeInv, TypeOK, ThreadTypes
<1>4. Queued' = Queued /\ Live' = Live BY <1>1 DEF Queued, Live
<1>5. CanceledInv' BY <1>1, <1>3, <1>4 DEF CancelInv, CanceledInv
<1>6. pc'[t] = "cancel_queued" /\ \A u \in Threads \ {t} : pc'[u] = pc[u]
  BY <1>1 DEF IInv, TypeInv, TypeOK, ThreadTypes
<1>7. StopInv' BY <1>1, <1>2, <1>3, <1>4, <1>6 DEF CancelInv, StopInv
<1>8. QED BY <1>5, <1>7 DEF CancelInv

\* CancelQueued has taken their packets off the queue.
LEMMA CancelReturns ==
  ASSUME IInv, [Next]_vars, CancelInv, NEW t \in Threads, CancelQueuedDone(t)
  PROVE  CancelInv'
<1> USE DEF Goto, Return, tableVars, objectVars, portVars, semaVars, callVars, histVars
<1>1. /\ pc[t] = "cancel_queued" /\ ToCancel(t) = {} /\ pc' = [pc EXCEPT ![t] = "user"]
      /\ op' = [op EXCEPT ![t] = "none"]
      /\ arg' = [arg EXCEPT ![t] = NoHandle] /\ key' = [key EXCEPT ![t] = AnyKey]
      /\ canceled' = canceled \cup stopping[t] /\ stopping' = [stopping EXCEPT ![t] = {}]
      /\ UNCHANGED <<reg, cur, watchers, packets>>
  BY DEF CancelQueuedDone
<1>2. ASSUME NEW o \in stopping[t] PROVE o \notin Queued
  <2>1. SUFFICES ASSUME o \in Queued PROVE FALSE OBVIOUS
  <2>2. o \in Observers BY DEF IInv, TypeInv, TypeOK, HeapTypes
  <2>3. o \in Live BY <2>1, <2>2 DEF IInv, ObserverInv, QueueInv
  <2>4. Selected(t, o) BY <2>3 DEF CancelInv, StopInv, Selected
  <2>5. PICK i \in DOMAIN packets : packets[i] = o BY <2>1 DEF Queued
  <2>6. i \in ToCancel(t) BY <2>2, <2>4, <2>5 DEF ToCancel, Removes
  <2>7. QED BY <1>1, <2>6
<1>3. \A o : (NotAdding(o) => NotAdding(o)') /\ (Silent(o) => Silent(o)')
  BY <1>1 DEF NotAdding, Silent, IInv, TypeInv, TypeOK, ThreadTypes
<1>4. Queued' = Queued /\ Live' = Live BY <1>1 DEF Queued, Live
<1>5. \A o \in stopping[t] : Silent(o) /\ NotAdding(o) BY <1>1 DEF CancelInv, StopInv
<1>6. CanceledInv' BY <1>1, <1>2, <1>3, <1>4, <1>5 DEF CancelInv, CanceledInv
<1>7. /\ stopping'[t] = {}
      /\ \A u \in Threads \ {t} : /\ pc'[u] = pc[u] /\ op'[u] = op[u] /\ arg'[u] = arg[u]
                                  /\ key'[u] = key[u] /\ stopping'[u] = stopping[u]
  BY <1>1 DEF IInv, TypeInv, TypeOK, ThreadTypes, HeapTypes
<1>8. StopInv' BY <1>1, <1>3, <1>4, <1>7 DEF CancelInv, StopInv
<1>9. QED BY <1>6, <1>8 DEF CancelInv

\* Every step keeps CancelInv.
LEMMA CancelSteps == ASSUME IInv, CancelInv, [Next]_vars PROVE CancelInv'
<1> DEFINE Adds == \A u \in Threads : op'[u] = "wait_async" =>
                     op[u] = "wait_async" /\ cur'[u] \in {cur[u], NoObs}
           Goes == \A t \in Threads : Stops(t) =>
                     /\ Stops(t)' /\ arg'[t] = arg[t] /\ key'[t] = key[t]
                     /\ pc'[t] = "cancel_queued" => pc[t] = "cancel_queued"
           Still == UNCHANGED <<stopping, canceled>> /\ Adds /\ Goes
<1>1. ASSUME Still, Live' \subseteq Live PROVE CancelInv'
  BY <1>1, CancelFrame
<1>2. \A S : Destroy(S) => Live' \subseteq Live BY DEF Destroy, Live
<1>3. reg' = reg => Live' \subseteq Live BY DEF Live
<1> USE PortAssumption
<1> USE DEF TypeInv, TypeOK, ThreadTypes, ObserverInv, ControlInv, Stops, Goto, Return, Begin,
      tableVars, objectVars, portVars, semaVars, callVars, histVars
<1>4. ASSUME NEW t \in Threads, KernelStep(t) PROVE CancelInv'
  <2>1. CASE \/ QueueSignal(t) \/ QueueUserFails(t) \/ SemaWait(t) \/ DequeueInterrupt(t)
             \/ DequeueSpurious(t) \/ AddMatch(t) \/ AddObserver(t)
    <3>1. reg' = reg
      BY <2>1 DEF QueueSignal, QueueUserFails, SemaWait, DequeueInterrupt, DequeueSpurious,
         AddMatch, AddObserver
    <3>2. Still
      BY <2>1 DEF IInv, QueueSignal, QueueUserFails, SemaWait, DequeueInterrupt, DequeueSpurious,
         AddMatch, AddObserver
    <3>3. QED BY <1>1, <1>3, <3>1, <3>2
  <2>2. CASE \/ ZeroHandles(t) \/ Relock(t) \/ ZeroDone(t) \/ CloseDone(t) \/ CancelLock(t)
             \/ \E o \in Observers : UnlinkObserver(t, o) \/ CancelNext(t, o)
    <3>1. reg' = reg
      BY <2>2 DEF ZeroHandles, Relock, ZeroDone, CloseDone, CancelLock, UnlinkObserver, CancelNext
    <3>2. Still
      BY <2>2 DEF IInv, ZeroHandles, Relock, ZeroDone, CloseDone, CancelLock, UnlinkObserver,
         CancelNext
    <3>3. QED BY <1>1, <1>3, <3>1, <3>2
  <2>3. CASE \/ \E u \in UserPackets : QueueUser(t, u)
             \/ \E d \in Objects : NotifyDone(t, d) \/ \E o \in Observers : NotifyNext(t, d, o)
             \/ \E h \in Handles : CancelBadHandle(t, h)
    <3>1. reg' = reg BY <2>3 DEF QueueUser, NotifyDone, NotifyNext, CancelBadHandle
    <3>2. Still BY <2>3 DEF IInv, QueueUser, NotifyDone, NotifyNext, CancelBadHandle
    <3>3. QED BY <1>1, <1>3, <3>1, <3>2
  <2>4. CASE MaybeReap(t)
    <3>1. Live' \subseteq Live BY <1>2, <2>4 DEF MaybeReap
    <3>2. Still BY <2>4 DEF IInv, MaybeReap
    <3>3. QED BY <1>1, <3>1, <3>2
  <2>5. CASE DequeuePacket(t) \/ DrainPacket(t) \/ RemoveObserver(t)
             \/ \E i \in DOMAIN packets : CancelPacket(t, i)
    <3>1. Live' \subseteq Live
      BY <1>2, <2>5 DEF DequeuePacket, DrainPacket, RemoveObserver, CancelPacket
    <3>2. Still BY <2>5 DEF IInv, DequeuePacket, DrainPacket, RemoveObserver, CancelPacket
    <3>3. QED BY <1>1, <3>1, <3>2
  <2>6. CASE PostSignal(t) \/ PostUser(t)
    <3>1. reg' = reg BY <2>6 DEF PostSignal, PostUser
    <3>2. Still BY <2>6 DEF IInv, PostSignal, PostUser, SemaPost, Blocked
    <3>3. QED BY <1>1, <1>3, <3>1, <3>2
  <2>7. QED
    BY <1>4, <2>1, <2>2, <2>3, <2>4, <2>5, <2>6, CancelBegins, CancelErased, CancelReturns
    DEF KernelStep
<1>5. ASSUME NEW t \in Threads, UserStep(t) \/ WaitEnds(t) PROVE CancelInv'
  <2>1. CASE \/ \E d \in Objects, new \in SUBSET Sigs : Signal(t, d, new)
             \/ \E h \in Handles : CloseHandle(t, h)
             \/ \E c \in {"cancel", "queue", "wait"} : Lookup(t, c)
             \/ ClosePort(t) \/ WaitEnds(t)
    <3>1. reg' = reg BY <2>1 DEF Signal, CloseHandle, Lookup, ClosePort, WaitEnds
    <3>2. Still BY <2>1 DEF IInv, Signal, CloseHandle, Lookup, ClosePort, WaitEnds
    <3>3. QED BY <1>1, <1>3, <3>1, <3>2
  <2>2. QED BY <1>5, <2>1, CancelWaitAsync DEF UserStep
<1>6. ASSUME NEW i \in Interrupts,
             QueueInterruptPacket(i) \/ PostInterrupt(i) \/ RemoveInterruptPacket(i)
      PROVE  CancelInv'
  <2>1. reg' = reg BY <1>6 DEF QueueInterruptPacket, PostInterrupt, RemoveInterruptPacket
  <2>2. Still
    BY <1>6 DEF IInv, QueueInterruptPacket, PostInterrupt, RemoveInterruptPacket, SemaPost, Blocked
  <2>3. QED BY <1>1, <1>3, <2>1, <2>2
<1>7. CASE UNCHANGED vars BY <1>1, <1>3, <1>7 DEF vars
<1>8. QED BY <1>4, <1>5, <1>6, <1>7 DEF Next

\* Once zx_port_cancel has returned, no packet of a wait that it was to stop is
\* or comes on the queue, whatever signal changes, closes and other cancels ran
\* meanwhile; CancelByKey and CancelQueued take different locks, one after the
\* other.
THEOREM CanceledWaitsAreSilent == Spec => []CanceledStaysSilent
<1>1. Init => CancelInv BY DEF Init, CancelInv, StopInv, CanceledInv
<1>2. CancelInv => CanceledStaysSilent BY DEF CancelInv, CanceledInv, CanceledStaysSilent
<1>3. IInv /\ CancelInv /\ [Next]_vars => CancelInv' BY CancelSteps
<1>4. QED BY Invariant, <1>1, <1>2, <1>3, PTL DEF Spec

-----------------------------------------------------------------------------
(* The limit on user packets.                                              *)

Ephemeral == Queued \cap UserPackets
CountInv == IsFiniteSet(Ephemeral) /\ EphemeralCount

\* A packet leaves the queue and is no longer counted.
LEMMA CountDown ==
  ASSUME CountInv, NEW p \in Queued, Queued' = Queued \ {p}, num' = Uncount(p)
  PROVE  CountInv'
<1>1. Ephemeral' = Ephemeral \ {p} BY DEF Ephemeral
<1>2. p \in Ephemeral <=> p \in UserPackets BY DEF Ephemeral
<1>3. /\ IsFiniteSet(Ephemeral \ {p})
      /\ Cardinality(Ephemeral \ {p}) = IF p \in Ephemeral THEN Cardinality(Ephemeral) - 1
                                                           ELSE Cardinality(Ephemeral)
  BY FS_RemoveElement DEF CountInv
<1>4. num = Cardinality(Ephemeral) /\ num \in Nat /\ num <= MaxPackets + 1
  BY FS_CardinalityType DEF CountInv, EphemeralCount, Ephemeral
<1>5. num' = Cardinality(Ephemeral') BY <1>1, <1>2, <1>3, <1>4 DEF Uncount
<1>6. num' <= MaxPackets + 1 BY <1>4, PortAssumption DEF Uncount
<1>7. QED BY <1>1, <1>3, <1>5, <1>6 DEF CountInv, EphemeralCount, Ephemeral

\* Every step keeps the count.
LEMMA CountSteps == ASSUME IInv, CountInv, [Next]_vars PROVE CountInv'
<1> USE DEF tableVars, objectVars, portVars, semaVars, callVars, histVars
<1>0. /\ packets \in Seq(Observers \cup UserPackets) /\ Distinct(packets)
      /\ Queued = Elems(packets) /\ Queued' = Elems(packets')
  BY DEF IInv, TypeInv, TypeOK, ListTypes, ObserverInv, QueueInv, Queued, Elems
<1>1. ASSUME packets' = packets, num' = num PROVE CountInv'
  BY <1>0, <1>1 DEF CountInv, EphemeralCount, Ephemeral
<1>2. ASSUME NEW t \in Threads, DequeuePacket(t) \/ DrainPacket(t) PROVE CountInv'
  <2>1. packets # <<>> /\ packets' = Tail(packets) /\ num' = Uncount(Head(packets))
    BY <1>2 DEF DequeuePacket, DrainPacket
  <2>2. Head(packets) \in Queued /\ Queued' = Queued \ {Head(packets)}
    BY <1>0, <2>1, TailList
  <2>3. QED BY <2>1, <2>2, CountDown
<1>3. ASSUME NEW t \in Threads, NEW i \in DOMAIN packets, CancelPacket(t, i) PROVE CountInv'
  <2>1. packets' = Without(packets, i) /\ num' = Uncount(packets[i]) BY <1>3 DEF CancelPacket
  <2>2. packets[i] \in Queued /\ Queued' = Queued \ {packets[i]}
    BY <1>0, <2>1, EraseList DEF Queued
  <2>3. QED BY <2>1, <2>2, CountDown
<1>4. ASSUME NEW t \in Threads, QueueSignal(t) PROVE CountInv'
  <2>1. num' = num BY <1>4 DEF QueueSignal
  <2>2. CASE packets' = Append(packets, cur[t])
    <3>1. cur[t] \in Observers /\ cur[t] \notin UserPackets
      BY <1>4, PortAssumption DEF QueueSignal, IInv, TypeInv, CurHeld
    <3>2. Queued' = Queued \cup {cur[t]} BY <1>0, <2>2, <3>1, AppendList
    <3>3. Ephemeral' = Ephemeral BY <3>1, <3>2 DEF Ephemeral
    <3>4. QED BY <2>1, <3>3 DEF CountInv, EphemeralCount, Ephemeral
  <2>3. QED BY <1>1, <1>4, <2>1, <2>2 DEF QueueSignal
<1>5. ASSUME NEW t \in Threads, NEW u \in UserPackets, QueueUser(t, u) PROVE CountInv'
  <2>1. packets' = Append(packets, u) /\ num' = num + 1 /\ ~Full /\ u \notin Queued
    BY <1>5 DEF QueueUser
  <2>2. Queued' = Queued \cup {u} BY <1>0, <2>1, AppendList
  <2>3. Ephemeral' = Ephemeral \cup {u} /\ u \notin Ephemeral BY <2>1, <2>2 DEF Ephemeral
  <2>4. /\ IsFiniteSet(Ephemeral \cup {u})
        /\ Cardinality(Ephemeral \cup {u}) = Cardinality(Ephemeral) + 1
    BY <2>3, FS_AddElement DEF CountInv
  <2>5. num = Cardinality(Ephemeral) /\ num \in Nat
    BY FS_CardinalityType DEF CountInv, EphemeralCount, Ephemeral
  <2>6. num' <= MaxPackets + 1 BY <2>1, <2>5, PortAssumption DEF Full
  <2>7. QED BY <2>1, <2>3, <2>4, <2>5, <2>6 DEF CountInv, EphemeralCount, Ephemeral
<1>6. ASSUME NEW t \in Threads, KernelStep(t) PROVE CountInv'
  BY <1>1, <1>2, <1>3, <1>4, <1>5, <1>6
  DEF KernelStep, AddMatch, AddObserver, PostSignal, MaybeReap, NotifyDone, NotifyNext,
      CancelBadHandle, CancelStart, CancelLock, CloseDone, CancelByKeyDone, CancelQueuedDone,
      CancelNext, QueueUserFails, PostUser, SemaWait, DequeueInterrupt, DequeueSpurious,
      ZeroHandles, RemoveObserver, Relock, ZeroDone, UnlinkObserver
<1>7. ASSUME NEW t \in Threads, UserStep(t) \/ WaitEnds(t) PROVE CountInv'
  BY <1>1, <1>7 DEF UserStep, WaitEnds, WaitAsync, Signal, CloseHandle, Lookup, ClosePort
<1>8. ASSUME NEW i \in Interrupts,
             QueueInterruptPacket(i) \/ PostInterrupt(i) \/ RemoveInterruptPacket(i)
      PROVE  CountInv'
  BY <1>1, <1>8 DEF QueueInterruptPacket, PostInterrupt, RemoveInterruptPacket
<1>9. CASE UNCHANGED vars BY <1>1, <1>9 DEF vars
<1>10. QED BY <1>6, <1>7, <1>8, <1>9 DEF Next

\* num_ephemeral_packets_ is exactly the number of user packets queued, through
\* every queue, dequeue, cancel and close, and the test num > kMaxAllocated lets
\* one packet more than the limit in, never two.
THEOREM EphemeralsAreCounted == Spec => []EphemeralCount
<1>1. Init => CountInv
  <2> SUFFICES ASSUME Init PROVE CountInv OBVIOUS
  <2>1. Ephemeral = {} /\ num = 0 BY DEF Init, Ephemeral, Queued
  <2>2. QED BY <2>1, FS_EmptySet, PortAssumption DEF CountInv, EphemeralCount, Ephemeral
<1>2. CountInv => EphemeralCount BY DEF CountInv
<1>3. IInv /\ CountInv /\ [Next]_vars => CountInv' BY CountSteps
<1>4. QED BY Invariant, <1>1, <1>2, <1>3, PTL DEF Spec

-----------------------------------------------------------------------------
(* Counts and packets.                                                     *)

\* The lengths of the lists, for push_back, pop_front and erase.
LEMMA ListLengths ==
  ASSUME NEW S, NEW q \in Seq(S)
  PROVE  /\ Len(q) \in Nat /\ (q = <<>> <=> Len(q) = 0)
         /\ \A x \in S : Len(Append(q, x)) = Len(q) + 1
         /\ q # <<>> => Len(Tail(q)) = Len(q) - 1
         /\ \A n \in DOMAIN q : Len(Without(q, n)) = Len(q) - 1
<1>1. /\ Len(q) \in Nat /\ (q = <<>> <=> Len(q) = 0)
      /\ \A x \in S : Len(Append(q, x)) = Len(q) + 1
      /\ q # <<>> => Len(Tail(q)) = Len(q) - 1
  OBVIOUS
<1>2. ASSUME NEW n \in DOMAIN q PROVE Len(Without(q, n)) = Len(q) - 1
  <2> DEFINE a == SubSeq(q, 1, n - 1)
             b == SubSeq(q, n + 1, Len(q))
  <2>1. n \in 1 .. Len(q) /\ Len(q) \in Nat OBVIOUS
  <2>2. a \in Seq(S) /\ Len(a) = n - 1 BY <2>1
  <2>3. b \in Seq(S) /\ Len(b) = Len(q) - n BY <2>1
  <2>4. Without(q, n) = a \o b BY DEF Without
  <2> HIDE DEF a, b
  <2>5. Len(a \o b) = Len(a) + Len(b) BY <2>2, <2>3, ConcatProperties
  <2>6. QED BY <2>1, <2>2, <2>3, <2>4, <2>5
<1>3. QED BY <1>1, <1>2

\* A set that gains or loses one member.
LEMMA CountOne ==
  ASSUME NEW A, NEW B, NEW x, IsFiniteSet(A), \A y : y # x => (y \in A <=> y \in B)
  PROVE  /\ IsFiniteSet(B) /\ Cardinality(A) \in Nat /\ Cardinality(B) \in Nat
         /\ x \in A /\ x \notin B => Cardinality(B) = Cardinality(A) - 1
         /\ x \notin A /\ x \in B => Cardinality(B) = Cardinality(A) + 1
         /\ (x \in A <=> x \in B) => Cardinality(B) = Cardinality(A)
<1>1. CASE x \in B
  <2>1. B = A \cup {x} BY <1>1
  <2>2. /\ IsFiniteSet(A \cup {x})
        /\ Cardinality(A \cup {x}) = IF x \in A THEN Cardinality(A) ELSE Cardinality(A) + 1
    BY FS_AddElement
  <2>3. /\ IsFiniteSet(B)
        /\ Cardinality(B) = IF x \in A THEN Cardinality(A) ELSE Cardinality(A) + 1
    BY <2>1, <2>2, Zenon
  <2>4. QED BY <1>1, <2>3, FS_CardinalityType
<1>2. CASE x \notin B
  <2>1. B = A \ {x} BY <1>2
  <2>2. /\ IsFiniteSet(A \ {x})
        /\ Cardinality(A \ {x}) = IF x \in A THEN Cardinality(A) - 1 ELSE Cardinality(A)
    BY FS_RemoveElement
  <2>3. /\ IsFiniteSet(B)
        /\ Cardinality(B) = IF x \in A THEN Cardinality(A) - 1 ELSE Cardinality(A)
    BY <2>1, <2>2, Zenon
  <2>4. QED BY <1>2, <2>3, FS_CardinalityType
<1>3. QED BY <1>1, <1>2

\* EnoughCounts, with finitely many threads about to use a count, and none
\* asleep while there is one.
WakeInv ==
  /\ IsFiniteSet(InFlight) /\ IsFiniteSet(NotYetLooked) /\ IsFiniteSet(posting)
  /\ EnoughCounts
  /\ Blocked # {} => sema = 0

\* The threads that P places in S.
At(P, S) == {t \in Threads : P[t] \in S}
Flying  == {"post", "dequeue_interrupt", "dequeue"}
Looking == {"post", "dequeue_interrupt"}

\* Post makes one count, for a thread that sleeps or for the next one to come.
LEMMA PostCounts ==
  ASSUME IInv, WakeInv, NEW P \in [Threads -> PCs], SemaPost(P),
         IsFiniteSet(At(P, Flying)), IsFiniteSet(At(P, Looking)),
         \A t \in Threads : P[t] = "blocked" <=> pc[t] = "blocked"
  PROVE  /\ IsFiniteSet(InFlight') /\ IsFiniteSet(NotYetLooked')
         /\ sema' + Cardinality(InFlight') = sema + Cardinality(At(P, Flying)) + 1
         /\ sema' + Cardinality(NotYetLooked') = sema + Cardinality(At(P, Looking)) + 1
         /\ Blocked' # {} => sema' = 0
<1> DEFINE Goal == /\ IsFiniteSet(InFlight') /\ IsFiniteSet(NotYetLooked')
                   /\ sema' + Cardinality(InFlight') = sema + Cardinality(At(P, Flying)) + 1
                   /\ sema' + Cardinality(NotYetLooked') = sema + Cardinality(At(P, Looking)) + 1
                   /\ Blocked' # {} => sema' = 0
<1>1. sema \in Nat BY DEF IInv, TypeInv, TypeOK, HeapTypes
<1>2. Cardinality(At(P, Flying)) \in Nat /\ Cardinality(At(P, Looking)) \in Nat
  BY FS_CardinalityType
<1>3. CASE Blocked = {} /\ sema' = sema + 1 /\ pc' = P
  <2>1. Blocked' = {} BY <1>3 DEF Blocked
  <2>2. InFlight' = At(P, Flying) /\ NotYetLooked' = At(P, Looking)
    BY <1>3 DEF InFlight, NotYetLooked, At, Flying, Looking
  <2>3. QED BY <1>1, <1>2, <1>3, <2>1, <2>2
<1>4. ASSUME NEW w \in Blocked, pc' = [P EXCEPT ![w] = "dequeue_interrupt"], sema' = sema
      PROVE  Goal
  <2>1. w \in Threads /\ P[w] = "blocked" BY DEF Blocked
  <2>2. pc'[w] = "dequeue_interrupt" /\ \A u \in Threads \ {w} : pc'[u] = P[u]
    BY <1>4, <2>1
  <2>3. /\ w \in InFlight' /\ w \notin At(P, Flying)
        /\ \A y : y # w => (y \in At(P, Flying) <=> y \in InFlight')
    BY <2>1, <2>2 DEF InFlight, At, Flying
  <2>4. /\ w \in NotYetLooked' /\ w \notin At(P, Looking)
        /\ \A y : y # w => (y \in At(P, Looking) <=> y \in NotYetLooked')
    BY <2>1, <2>2 DEF NotYetLooked, At, Looking
  <2>5. IsFiniteSet(InFlight') /\ Cardinality(InFlight') = Cardinality(At(P, Flying)) + 1
    BY <2>3, CountOne
  <2>6. IsFiniteSet(NotYetLooked') /\ Cardinality(NotYetLooked') = Cardinality(At(P, Looking)) + 1
    BY <2>4, CountOne
  <2>7. sema = 0 BY <1>4 DEF WakeInv
  <2>8. QED BY <1>1, <1>2, <1>4, <2>5, <2>6, <2>7
<1>5. QED BY <1>3, <1>4 DEF SemaPost

\* Whether a thread that moves takes part in EnoughCounts.
LEMMA ThreadMoves ==
  ASSUME WakeInv, NEW t \in Threads, \A u \in Threads \ {t} : pc'[u] = pc[u]
  PROVE  /\ IsFiniteSet(InFlight') /\ IsFiniteSet(NotYetLooked')
         /\ Cardinality(InFlight) \in Nat /\ Cardinality(NotYetLooked) \in Nat
         /\ Cardinality(NotYetLooked) <= Cardinality(InFlight)
         /\ pc[t] \in Flying /\ pc'[t] \notin Flying
              => Cardinality(InFlight') = Cardinality(InFlight) - 1
         /\ pc[t] \notin Flying /\ pc'[t] \in Flying
              => Cardinality(InFlight') = Cardinality(InFlight) + 1
         /\ pc[t] \in Flying /\ pc'[t] \in Flying
              => Cardinality(InFlight') = Cardinality(InFlight)
         /\ pc[t] \in Looking /\ pc'[t] \notin Looking
              => Cardinality(NotYetLooked') = Cardinality(NotYetLooked) - 1
         /\ pc[t] \notin Looking /\ pc'[t] \in Looking
              => Cardinality(NotYetLooked') = Cardinality(NotYetLooked) + 1
         /\ pc[t] \notin Looking /\ pc'[t] \notin Looking
              => Cardinality(NotYetLooked') = Cardinality(NotYetLooked)
<1>1. \A y : y # t => (y \in InFlight <=> y \in InFlight') BY DEF InFlight
<1>2. \A y : y # t => (y \in NotYetLooked <=> y \in NotYetLooked') BY DEF NotYetLooked
<1>3. /\ t \in InFlight <=> pc[t] \in Flying
      /\ t \in InFlight' <=> pc'[t] \in Flying
  BY DEF InFlight, Flying
<1>4. /\ t \in NotYetLooked <=> pc[t] \in Looking
      /\ t \in NotYetLooked' <=> pc'[t] \in Looking
  BY DEF NotYetLooked, Looking
<1>5. IsFiniteSet(InFlight) /\ IsFiniteSet(NotYetLooked) BY DEF WakeInv
<1>6. NotYetLooked \subseteq InFlight BY DEF NotYetLooked, InFlight
<1>7. Cardinality(NotYetLooked) <= Cardinality(InFlight) BY <1>5, <1>6, FS_Subset
<1>8. /\ IsFiniteSet(InFlight') /\ Cardinality(InFlight) \in Nat
      /\ t \in InFlight /\ t \notin InFlight' => Cardinality(InFlight') = Cardinality(InFlight) - 1
      /\ t \notin InFlight /\ t \in InFlight' => Cardinality(InFlight') = Cardinality(InFlight) + 1
      /\ (t \in InFlight <=> t \in InFlight') => Cardinality(InFlight') = Cardinality(InFlight)
  BY <1>1, <1>5, CountOne
<1>9. /\ IsFiniteSet(NotYetLooked') /\ Cardinality(NotYetLooked) \in Nat
      /\ t \in NotYetLooked /\ t \notin NotYetLooked'
           => Cardinality(NotYetLooked') = Cardinality(NotYetLooked) - 1
      /\ t \notin NotYetLooked /\ t \in NotYetLooked'
           => Cardinality(NotYetLooked') = Cardinality(NotYetLooked) + 1
      /\ (t \in NotYetLooked <=> t \in NotYetLooked')
           => Cardinality(NotYetLooked') = Cardinality(NotYetLooked)
  BY <1>2, <1>5, CountOne
<1>10. QED BY <1>3, <1>4, <1>7, <1>8, <1>9

\* The steps in which nobody gains or uses a count and no packet arrives.
LEMMA WakeFrame ==
  ASSUME WakeInv, IInv, IInv', UNCHANGED <<sema, posting>>,
         Len(packets') <= Len(packets), Len(interrupts') <= Len(interrupts),
         \A u \in Threads : \/ pc'[u] = pc[u]
                            \/ pc[u] \notin Flying /\ pc'[u] \notin Flying \cup {"blocked"}
  PROVE  WakeInv'
<1>1. InFlight' = InFlight /\ NotYetLooked' = NotYetLooked /\ Blocked' \subseteq Blocked
  BY DEF InFlight, NotYetLooked, Blocked, Flying
<1>2. /\ packets \in Seq(Observers \cup UserPackets) /\ interrupts \in Seq(Interrupts)
      /\ packets' \in Seq(Observers \cup UserPackets) /\ interrupts' \in Seq(Interrupts)
      /\ sema \in Nat
  BY DEF IInv, TypeInv, TypeOK, ListTypes, HeapTypes
<1>3. /\ Len(packets) \in Nat /\ Len(interrupts) \in Nat
      /\ Len(packets') \in Nat /\ Len(interrupts') \in Nat
  BY <1>2, ListLengths
<1>4. /\ Cardinality(InFlight) \in Nat /\ Cardinality(NotYetLooked) \in Nat
      /\ Cardinality(posting) \in Nat
  BY FS_CardinalityType DEF WakeInv
<1>5. EnoughCounts' BY <1>1, <1>2, <1>3, <1>4 DEF WakeInv, EnoughCounts
<1>6. QED BY <1>1, <1>5 DEF WakeInv

\* Every step keeps WakeInv.
LEMMA WakeSteps == ASSUME IInv, IInv', WakeInv, [Next]_vars PROVE WakeInv'
<1> DEFINE InF == Cardinality(InFlight)
           Nyl == Cardinality(NotYetLooked)
           Pst == Cardinality(posting)
           LP == Len(packets)
           LI == Len(interrupts)
<1> USE DEF Goto, Return, Begin, tableVars, objectVars, portVars, semaVars, callVars, histVars
<1>1. /\ packets \in Seq(Observers \cup UserPackets) /\ interrupts \in Seq(Interrupts)
      /\ sema \in Nat /\ pc \in [Threads -> PCs]
  BY DEF IInv, TypeInv, TypeOK, ListTypes, HeapTypes, ThreadTypes
<1>2. LP \in Nat /\ LI \in Nat BY <1>1, ListLengths
<1>3. InF \in Nat /\ Nyl \in Nat /\ Pst \in Nat BY FS_CardinalityType DEF WakeInv
<1>4. LP + LI <= sema + InF + Pst /\ LI <= sema + Nyl + Pst BY DEF WakeInv, EnoughCounts
<1>5. \A t \in Threads : pc[t] = "blocked" => sema = 0 BY DEF WakeInv, Blocked
<1>6. ASSUME NEW t \in Threads, QueueSignal(t) \/ \E u \in UserPackets : QueueUser(t, u)
      PROVE  WakeInv'
  <2>1. CASE packets' = packets
    <3>1. /\ UNCHANGED <<sema, posting, interrupts>>
          /\ pc[t] \in {"match", "queue"}
          /\ \A u \in Threads \ {t} : pc'[u] = pc[u]
      BY <1>1, <1>6 DEF QueueSignal, QueueUser
    <3>2. pc'[t] = "reap"
      BY <1>1, <1>6, <2>1, ListLengths DEF QueueSignal, QueueUser, IInv, TypeInv, CurHeld
    <3>3. QED BY <1>2, <2>1, <3>1, <3>2, WakeFrame DEF Flying
  <2>2. CASE packets' # packets
    <3>1. /\ UNCHANGED <<sema, posting, interrupts>> /\ pc[t] \in {"match", "queue"}
          /\ pc'[t] = "post" /\ \A u \in Threads \ {t} : pc'[u] = pc[u]
      BY <1>1, <1>6, <2>2 DEF QueueSignal, QueueUser
    <3>2. PICK p \in Observers \cup UserPackets : packets' = Append(packets, p)
      BY <1>6, <2>2 DEF QueueSignal, QueueUser, IInv, TypeInv, CurHeld
    <3>3. Len(packets') = LP + 1 BY <1>1, <3>2, ListLengths
    <3>4. pc[t] \notin Flying /\ pc'[t] \in Flying /\ pc[t] \notin Looking /\ pc'[t] \in Looking
      BY <3>1 DEF Flying, Looking
    <3>5. /\ IsFiniteSet(InFlight') /\ IsFiniteSet(NotYetLooked')
          /\ Cardinality(InFlight') = InF + 1 /\ Cardinality(NotYetLooked') = Nyl + 1
      BY <3>1, <3>4, ThreadMoves
    <3>6. EnoughCounts'
      <4>1. sema' = sema /\ posting' = posting /\ Len(interrupts') = LI BY <3>1
      <4>2. Len(packets') + Len(interrupts')
              <= sema' + Cardinality(InFlight') + Cardinality(posting')
        BY <1>1, <1>2, <1>3, <1>4, <3>3, <3>5, <4>1
      <4>3. Len(interrupts') <= sema' + Cardinality(NotYetLooked') + Cardinality(posting')
        BY <1>1, <1>2, <1>3, <1>4, <3>5, <4>1
      <4>4. QED BY <4>2, <4>3 DEF EnoughCounts
    <3>7. Blocked' # {} => sema' = 0 BY <1>5, <3>1 DEF Blocked
    <3>8. QED BY <3>1, <3>5, <3>6, <3>7 DEF WakeInv
  <2>3. QED BY <2>1, <2>2
<1>7. ASSUME NEW t \in Threads, PostSignal(t) \/ PostUser(t) PROVE WakeInv'
  <2>1. /\ pc[t] = "post" /\ UNCHANGED <<packets, interrupts, posting>>
        /\ \E l \in {"reap", "user"} : SemaPost([pc EXCEPT ![t] = l])
    BY <1>7 DEF PostSignal, PostUser
  <2>2. PICK l \in {"reap", "user"} : SemaPost([pc EXCEPT ![t] = l]) BY <2>1
  <2>3. PICK P \in [Threads -> PCs] : P = [pc EXCEPT ![t] = l] BY <1>1 DEF PCs
  <2>4. P[t] = l /\ \A u \in Threads \ {t} : P[u] = pc[u] BY <1>1, <2>3
  <2>5. /\ t \in InFlight /\ t \notin At(P, Flying)
        /\ \A y : y # t => (y \in InFlight <=> y \in At(P, Flying))
    BY <2>1, <2>4 DEF InFlight, At, Flying
  <2>6. /\ t \in NotYetLooked /\ t \notin At(P, Looking)
        /\ \A y : y # t => (y \in NotYetLooked <=> y \in At(P, Looking))
    BY <2>1, <2>4 DEF NotYetLooked, At, Looking
  <2>7. IsFiniteSet(InFlight) /\ IsFiniteSet(NotYetLooked) BY DEF WakeInv
  <2>8. IsFiniteSet(At(P, Flying)) /\ Cardinality(At(P, Flying)) = InF - 1
    BY <2>5, <2>7, CountOne
  <2>9. IsFiniteSet(At(P, Looking)) /\ Cardinality(At(P, Looking)) = Nyl - 1
    BY <2>6, <2>7, CountOne
  <2>10. \A u \in Threads : P[u] = "blocked" <=> pc[u] = "blocked" BY <2>1, <2>4
  <2>11. SemaPost(P) BY <2>2, <2>3
  <2>12. /\ IsFiniteSet(InFlight') /\ IsFiniteSet(NotYetLooked')
         /\ sema' + Cardinality(InFlight') = sema + Cardinality(At(P, Flying)) + 1
         /\ sema' + Cardinality(NotYetLooked') = sema + Cardinality(At(P, Looking)) + 1
         /\ Blocked' # {} => sema' = 0
    BY <2>8, <2>9, <2>10, <2>11, PostCounts
  <2>13. EnoughCounts'
    BY <1>1, <1>2, <1>3, <1>4, <2>1, <2>8, <2>9, <2>12 DEF EnoughCounts
  <2>14. QED BY <2>1, <2>12, <2>13 DEF WakeInv
<1>8. ASSUME NEW i \in Interrupts, PostInterrupt(i) PROVE WakeInv'
  <2>1. /\ i \in posting /\ posting' = posting \ {i} /\ UNCHANGED <<packets, interrupts>>
        /\ SemaPost(pc)
    BY <1>8 DEF PostInterrupt
  <2>2. InFlight = At(pc, Flying) /\ NotYetLooked = At(pc, Looking)
    BY DEF InFlight, NotYetLooked, At, Flying, Looking
  <2>3. IsFiniteSet(At(pc, Flying)) /\ IsFiniteSet(At(pc, Looking))
    BY <2>2 DEF WakeInv
  <2>4. IsFiniteSet(posting') /\ Cardinality(posting') = Pst - 1
    BY <2>1, FS_RemoveElement DEF WakeInv
  <2>5. /\ IsFiniteSet(InFlight') /\ IsFiniteSet(NotYetLooked')
        /\ sema' + Cardinality(InFlight') = sema + Cardinality(At(pc, Flying)) + 1
        /\ sema' + Cardinality(NotYetLooked') = sema + Cardinality(At(pc, Looking)) + 1
        /\ Blocked' # {} => sema' = 0
    BY <1>1, <2>1, <2>3, PostCounts
  <2>6. EnoughCounts'
    BY <1>1, <1>2, <1>3, <1>4, <2>1, <2>2, <2>4, <2>5 DEF EnoughCounts
  <2>7. QED BY <2>4, <2>5, <2>6 DEF WakeInv
<1>9. ASSUME NEW i \in Interrupts, QueueInterruptPacket(i) PROVE WakeInv'
  <2>1. /\ i \notin posting /\ posting' = posting \cup {i}
        /\ interrupts' = Append(interrupts, i) /\ UNCHANGED <<packets, sema, pc>>
    BY <1>9 DEF QueueInterruptPacket
  <2>2. IsFiniteSet(posting') /\ Cardinality(posting') = Pst + 1
    BY <2>1, FS_AddElement DEF WakeInv
  <2>3. Len(interrupts') = LI + 1 BY <1>1, <2>1, ListLengths
  <2>4. InFlight' = InFlight /\ NotYetLooked' = NotYetLooked /\ Blocked' = Blocked
    BY <2>1 DEF InFlight, NotYetLooked, Blocked
  <2>5. EnoughCounts' BY <1>1, <1>2, <1>3, <1>4, <2>1, <2>2, <2>3, <2>4 DEF EnoughCounts
  <2>6. QED BY <2>1, <2>2, <2>4, <2>5 DEF WakeInv
<1>10. ASSUME NEW i \in Interrupts, RemoveInterruptPacket(i) PROVE WakeInv'
  <2>1. PICK n \in DOMAIN interrupts : interrupts' = Without(interrupts, n)
    BY <1>10 DEF RemoveInterruptPacket
  <2>2. Len(interrupts') = LI - 1 BY <1>1, <2>1, ListLengths
  <2>3. UNCHANGED <<packets, sema, posting, pc>> BY <1>10 DEF RemoveInterruptPacket
  <2>4. QED BY <1>2, <2>2, <2>3, WakeFrame
<1>11. ASSUME NEW t \in Threads, SemaWait(t) PROVE WakeInv'
  <2>1. /\ pc[t] = "wait" /\ UNCHANGED <<packets, interrupts, posting>>
        /\ \/ sema > 0 /\ sema' = sema - 1 /\ pc'[t] = "dequeue_interrupt"
           \/ ~(sema > 0) /\ sema' = sema /\ pc'[t] = "blocked"
        /\ \A u \in Threads \ {t} : pc'[u] = pc[u]
    BY <1>1, <1>11 DEF SemaWait, CountAvailable
  <2>2. CASE sema > 0
    <3>1. pc[t] \notin Flying /\ pc'[t] \in Flying /\ pc[t] \notin Looking /\ pc'[t] \in Looking
      BY <2>1, <2>2 DEF Flying, Looking
    <3>2. /\ IsFiniteSet(InFlight') /\ IsFiniteSet(NotYetLooked')
          /\ Cardinality(InFlight') = InF + 1 /\ Cardinality(NotYetLooked') = Nyl + 1
      BY <2>1, <3>1, ThreadMoves
    <3>3. EnoughCounts' BY <1>1, <1>2, <1>3, <1>4, <2>1, <2>2, <3>2 DEF EnoughCounts
    <3>4. Blocked' = {} BY <1>1, <1>5, <2>1, <2>2 DEF Blocked
    <3>5. QED BY <2>1, <3>2, <3>3, <3>4 DEF WakeInv
  <2>3. CASE ~(sema > 0)
    <3>1. sema' = 0 /\ sema = 0 BY <1>1, <2>1, <2>3
    <3>2. InFlight' = InFlight /\ NotYetLooked' = NotYetLooked
      BY <2>1, <2>3 DEF InFlight, NotYetLooked
    <3>3. EnoughCounts' BY <2>1, <3>1, <3>2 DEF WakeInv, EnoughCounts
    <3>4. QED BY <2>1, <3>1, <3>2, <3>3 DEF WakeInv
  <2>4. QED BY <2>2, <2>3
<1>12. ASSUME NEW t \in Threads, DequeueInterrupt(t) PROVE WakeInv'
  <2>1. /\ pc[t] = "dequeue_interrupt" /\ UNCHANGED <<packets, sema, posting>>
        /\ \/ interrupts # <<>> /\ interrupts' = Tail(interrupts) /\ pc'[t] = "user"
           \/ interrupts = <<>> /\ interrupts' = interrupts /\ pc'[t] = "dequeue"
        /\ \A u \in Threads \ {t} : pc'[u] = pc[u]
    BY <1>1, <1>12 DEF DequeueInterrupt
  <2>2. Blocked' # {} => sema' = 0 BY <1>5, <2>1 DEF Blocked
  <2>3. pc[t] \in Flying /\ pc[t] \in Looking /\ pc'[t] \notin Looking
    BY <2>1 DEF Flying, Looking
  <2>4. /\ IsFiniteSet(InFlight') /\ IsFiniteSet(NotYetLooked')
        /\ Cardinality(NotYetLooked') = Nyl - 1 /\ Cardinality(NotYetLooked') \in Nat
    BY <2>1, <2>3, ThreadMoves, FS_CardinalityType
  <2>5. CASE interrupts # <<>>
    <3>1. Len(interrupts') = LI - 1 BY <1>1, <2>1, <2>5, ListLengths
    <3>2. pc'[t] \notin Flying BY <2>1, <2>5 DEF Flying
    <3>3. Cardinality(InFlight') = InF - 1 BY <2>1, <2>3, <3>2, ThreadMoves
    <3>4. EnoughCounts'
      <4>1. sema' = sema /\ posting' = posting /\ Len(packets') = LP BY <2>1
      <4>2. Len(packets') + Len(interrupts')
              <= sema' + Cardinality(InFlight') + Cardinality(posting')
        BY <1>1, <1>2, <1>3, <1>4, <3>1, <3>3, <4>1
      <4>3. Len(interrupts') <= sema' + Cardinality(NotYetLooked') + Cardinality(posting')
        BY <1>1, <1>2, <1>3, <1>4, <2>4, <3>1, <4>1
      <4>4. QED BY <4>2, <4>3 DEF EnoughCounts
    <3>5. QED BY <2>1, <2>2, <2>4, <3>4 DEF WakeInv
  <2>6. CASE interrupts = <<>>
    <3>1. Len(interrupts') = 0 /\ LI = 0 BY <1>1, <2>1, <2>6, ListLengths
    <3>2. pc'[t] \in Flying BY <2>1, <2>6 DEF Flying
    <3>3. Cardinality(InFlight') = InF BY <2>1, <2>3, <3>2, ThreadMoves
    <3>4. EnoughCounts'
      <4>1. sema' = sema /\ posting' = posting /\ Len(packets') = LP BY <2>1
      <4>2. Len(packets') + Len(interrupts')
              <= sema' + Cardinality(InFlight') + Cardinality(posting')
        BY <1>1, <1>2, <1>3, <1>4, <3>1, <3>3, <4>1
      <4>3. Len(interrupts') <= sema' + Cardinality(NotYetLooked') + Cardinality(posting')
        BY <1>1, <1>3, <2>4, <3>1, <4>1
      <4>4. QED BY <4>2, <4>3 DEF EnoughCounts
    <3>5. QED BY <2>1, <2>2, <2>4, <3>4 DEF WakeInv
  <2>7. QED BY <2>5, <2>6
<1>13. ASSUME NEW t \in Threads, DequeuePacket(t) \/ DequeueSpurious(t) PROVE WakeInv'
  <2>1. /\ pc[t] = "dequeue" /\ UNCHANGED <<interrupts, sema, posting>>
        /\ \/ packets # <<>> /\ packets' = Tail(packets)
           \/ packets = <<>> /\ packets' = packets
        /\ pc'[t] \in {"user", "wait"} /\ \A u \in Threads \ {t} : pc'[u] = pc[u]
    BY <1>1, <1>13 DEF DequeuePacket, DequeueSpurious
  <2>2. Blocked' # {} => sema' = 0 BY <1>5, <2>1 DEF Blocked
  <2>3. pc[t] \in Flying /\ pc'[t] \notin Flying /\ pc[t] \notin Looking /\ pc'[t] \notin Looking
    BY <2>1 DEF Flying, Looking
  <2>4. /\ IsFiniteSet(InFlight') /\ IsFiniteSet(NotYetLooked')
        /\ Cardinality(InFlight') = InF - 1 /\ Cardinality(NotYetLooked') = Nyl
    BY <2>1, <2>3, ThreadMoves
  <2>5. Nyl <= InF - 1
    <3>1. NotYetLooked' \subseteq InFlight' BY DEF NotYetLooked, InFlight
    <3>2. Cardinality(NotYetLooked') <= Cardinality(InFlight') BY <2>4, <3>1, FS_Subset
    <3>3. QED BY <2>4, <3>2
  <2>6. \/ LP > 0 /\ Len(packets') = LP - 1
        \/ LP = 0 /\ Len(packets') = 0
    BY <1>1, <1>2, <2>1, ListLengths
  <2>7. EnoughCounts'
    BY <1>1, <1>2, <1>3, <1>4, <2>1, <2>4, <2>5, <2>6 DEF EnoughCounts
  <2>8. QED BY <2>1, <2>2, <2>4, <2>7 DEF WakeInv
<1>14. ASSUME NEW t \in Threads, DrainPacket(t) \/ \E i \in DOMAIN packets : CancelPacket(t, i)
       PROVE  WakeInv'
  <2>1. /\ UNCHANGED <<interrupts, sema, posting>>
        /\ \A u \in Threads : pc'[u] = pc[u] \/ (pc[u] = "drain" /\ pc'[u] = "relock")
    BY <1>1, <1>14 DEF DrainPacket, CancelPacket
  <2>2. Len(packets') = LP - 1
    <3>1. \/ packets # <<>> /\ packets' = Tail(packets)
          \/ \E i \in DOMAIN packets : packets' = Without(packets, i)
      BY <1>14 DEF DrainPacket, CancelPacket
    <3>2. QED BY <1>1, <3>1, ListLengths
  <2>3. QED BY <1>2, <2>1, <2>2, WakeFrame DEF Flying
<1>15. ASSUME UNCHANGED <<sema, posting, packets, interrupts>>,
              \A u \in Threads : \/ pc'[u] = pc[u]
                                 \/ pc[u] \notin Flying /\ pc'[u] \notin Flying \cup {"blocked"}
       PROVE  WakeInv'
  BY <1>2, <1>15, WakeFrame
<1>16. ASSUME NEW t \in Threads, KernelStep(t) PROVE WakeInv'
  <2>1. CASE \/ AddMatch(t) \/ AddObserver(t) \/ MaybeReap(t) \/ CancelLock(t) \/ CloseDone(t)
             \/ CancelByKeyDone(t) \/ CancelQueuedDone(t) \/ QueueUserFails(t)
    BY <1>1, <1>15, <2>1 DEF Flying, AddMatch, AddObserver, MaybeReap, CancelLock, CloseDone,
       CancelByKeyDone, CancelQueuedDone, QueueUserFails
  <2>2. CASE \/ ZeroHandles(t) \/ RemoveObserver(t) \/ Relock(t) \/ ZeroDone(t)
             \/ \E o \in Observers : UnlinkObserver(t, o) \/ CancelNext(t, o)
    BY <1>1, <1>15, <2>2 DEF Flying, ZeroHandles, RemoveObserver, Relock, ZeroDone,
       UnlinkObserver, CancelNext
  <2>3. CASE \/ \E d \in Objects : NotifyDone(t, d) \/ \E o \in Observers : NotifyNext(t, d, o)
             \/ \E h \in Handles : CancelBadHandle(t, h) \/ \E k \in Keys : CancelStart(t, h, k)
    BY <1>1, <1>15, <2>3 DEF Flying, NotifyDone, NotifyNext, CancelBadHandle, CancelStart
  <2>4. QED
    BY <1>6, <1>7, <1>11, <1>12, <1>13, <1>14, <1>16, <2>1, <2>2, <2>3 DEF KernelStep
<1>17. ASSUME NEW t \in Threads, UserStep(t) \/ WaitEnds(t) PROVE WakeInv'
  BY <1>1, <1>15, <1>17
  DEF Flying, UserStep, WaitEnds, WaitAsync, Signal, CloseHandle, Lookup, ClosePort
<1>18. CASE UNCHANGED vars BY <1>15, <1>18 DEF vars
<1>19. QED BY <1>8, <1>9, <1>10, <1>16, <1>17, <1>18 DEF Next

\* Post is called outside the port's lock, zx_port_wait looks at two queues one
\* after the other, and cancels leave counts without packets behind: still no
\* thread sleeps in zx_port_wait while a packet is queued and nobody is on the
\* way to wake it or to take the packet.
THEOREM WakeupsAreNotLost == Spec => []NoLostWakeup
<1>1. Init => WakeInv
  <2> SUFFICES ASSUME Init PROVE WakeInv OBVIOUS
  <2>1. InFlight = {} /\ NotYetLooked = {} /\ posting = {} /\ Blocked = {}
    BY DEF Init, InFlight, NotYetLooked, Blocked
  <2>2. Len(packets) = 0 /\ Len(interrupts) = 0 /\ sema = 0 BY DEF Init
  <2>3. QED BY <2>1, <2>2, FS_EmptySet DEF WakeInv, EnoughCounts
<1>2. IInv /\ WakeInv => NoLostWakeup
  <2> SUFFICES ASSUME IInv, WakeInv, Blocked # {}, packets # <<>> \/ interrupts # <<>>,
                      InFlight = {}, posting = {}
               PROVE  FALSE
    BY DEF NoLostWakeup
  <2>1. packets \in Seq(Observers \cup UserPackets) /\ interrupts \in Seq(Interrupts)
    BY DEF IInv, TypeInv, TypeOK, ListTypes
  <2>2. Len(packets) \in Nat /\ Len(interrupts) \in Nat /\ Len(packets) + Len(interrupts) > 0
    BY <2>1, ListLengths
  <2>3. Cardinality(InFlight) = 0 /\ Cardinality(posting) = 0 BY FS_EmptySet
  <2>4. sema = 0 BY DEF WakeInv
  <2>5. QED BY <2>2, <2>3, <2>4 DEF WakeInv, EnoughCounts
<1>3. IInv /\ IInv' /\ WakeInv /\ [Next]_vars => WakeInv' BY WakeSteps
<1>4. QED BY Invariant, <1>1, <1>2, <1>3, PTL DEF Spec
=============================================================================
