--------------------------- MODULE ChannelProofs ---------------------------
(***************************************************************************)
(* Proofs about Channel, for any processes, threads, txid width and bounds.*)
(***************************************************************************)
EXTENDS Channel, TLAPS

-----------------------------------------------------------------------------
(* Type correctness.                                                       *)

\* The remainder of the txid arithmetic stays below the modulus.
LEMMA ModRange ==
  ASSUME NEW a \in Nat, NEW b \in Nat \ {0} PROVE a % b \in 0 .. b - 1
  OBVIOUS

\* A txid that Call allocates, and the counter it leaves in txid_, fit the
\* uint32_t.
LEMMA TxidRange ==
  ASSUME TypeOK, NEW e \in Endpoints, NEW n \in 1 .. HalfTxid
  PROVE  NextTxid(e, n) \in Txids /\ Bump(e, n) \in Txids
<1>1. HalfTxid \in Nat \ {0} BY ChannelAssumption
<1>2. 2 * HalfTxid \in Nat \ {0} BY <1>1
<1>3. txid[e] + n \in Nat BY <1>1 DEF TypeOK, Txids
<1>4. (txid[e] + n) % HalfTxid \in 0 .. HalfTxid - 1 BY <1>1, <1>3, ModRange
<1>5. (txid[e] + n) % (2 * HalfTxid) \in 0 .. 2 * HalfTxid - 1 BY <1>2, <1>3, ModRange
<1>6. QED BY <1>1, <1>4, <1>5 DEF Txids, NextTxid, Bump

\* The messages that users and calls write are well formed.
LEMMA NewMessage ==
  ASSUME TypeOK, NEW x \in Txids PROVE [id |-> written + 1, txid |-> x] \in Message
  BY DEF TypeOK, Message

\* The ids of a queue of messages are numbers.
LEMMA IdsType == ASSUME NEW q \in Seq(Message) PROVE Ids(q) \subseteq Nat
<1>1. \A i \in DOMAIN q : q[i] \in Message OBVIOUS
<1>2. \A m \in Message : m.id \in Nat BY DEF Message
<1>3. QED BY <1>1, <1>2 DEF Ids

\* What a read takes off a queue, and what it leaves.
LEMMA QueueHead ==
  ASSUME NEW q \in Seq(Message), q # <<>>
  PROVE  Tail(q) \in Seq(Message) /\ Head(q) \in Message /\ Head(q).id \in Nat
<1>1. Tail(q) \in Seq(Message) /\ Head(q) \in Message OBVIOUS
<1>2. QED BY <1>1 DEF Message

\* Every endpoint named by a thread that runs inside a syscall exists.
InSyscall == {"read", "write", "signal", "begin", "call", "wait", "end"}
RefHeld == \A t \in Threads : pc[t] \in InSyscall => ep[t] \in Endpoints

TypeInv == TypeOK /\ RefHeld

\* A new channel is well typed.
LEMMA TypeInit == Init => TypeInv
  BY ChannelAssumption DEF Init, TypeInv, TypeOK, RefHeld, InSyscall, Endpoints, Txids,
     Signals, Statuses, PCs, Message

\* A step by a thread or by its surroundings keeps the types.
LEMMA TypeNext == TypeInv /\ [Next]_vars => TypeInv'
<1> SUFFICES ASSUME TypeInv, [Next]_vars PROVE TypeInv' OBVIOUS
<1> USE ChannelAssumption
<1> USE DEF TypeInv, TypeOK, RefHeld, InSyscall, Endpoints, Signals, Statuses, PCs,
      Other, epVars, waitVars, taskVars, histVars
<1>1. CASE UNCHANGED vars BY <1>1 DEF vars
<1>2. ASSUME NEW e \in Endpoints, RemoveHandle(e) PROVE TypeInv'
  BY <1>2 DEF RemoveHandle
<1>3. ASSUME NEW e \in Endpoints, NEW p \in Procs, AddHandle(e, p) PROVE TypeInv'
  BY <1>3 DEF AddHandle, SetOwner
<1>4. ASSUME NEW e \in Endpoints, OnZeroHandles(e) PROVE TypeInv'
  BY <1>4 DEF OnZeroHandles, UpdateState, CanceledHere, CanceledAtPeer
<1>5. ASSUME NEW e \in Endpoints, Destroy(e) PROVE TypeInv'
  <2>1. Ids(messages[e]) \subseteq Nat BY IdsType
  <2>2. <<>> \in Seq(Message) OBVIOUS
  <2>3. QED BY <1>5, <2>1, <2>2 DEF Destroy
<1>6. ASSUME NEW t \in Threads, NEW e \in Endpoints, NEW op \in Ops, Lookup(t, e, op)
      PROVE TypeInv'
  BY <1>6 DEF Lookup, Ops
<1>7. ASSUME NEW t \in Threads,
             WaitTimesOut(t) \/ WaitInterrupted(t) \/ CallFinishFails(t) \/ SyscallFails(t)
      PROVE TypeInv'
  <2>1. CASE WaitTimesOut(t) BY <2>1 DEF WaitTimesOut
  <2>2. CASE WaitInterrupted(t) BY <2>2 DEF WaitInterrupted
  <2>3. CASE CallFinishFails(t) BY <2>3 DEF CallFinishFails
  <2>4. CASE SyscallFails(t) BY <2>4 DEF SyscallFails, Return
  <2>5. QED BY <1>7, <2>1, <2>2, <2>3, <2>4
<1>8. ASSUME NEW t \in Threads, Kill(t) \/ ResumeFromException(t) PROVE TypeInv'
  BY <1>8 DEF Kill, ResumeFromException
<1>9. ASSUME NEW t \in Threads, DestroyThread(t) PROVE TypeInv'
  <2>1. slot[t] # NoMsg => slot[t].id \in Nat BY DEF Message
  <2>2. QED BY <1>9, <2>1 DEF DestroyThread
<1>10. ASSUME NEW t \in Threads,
              ReadFails(t) \/ UserSignalFails(t) \/ WriteFails(t) \/ CallBadHandle(t)
       PROVE TypeInv'
  <2>1. Return(t) /\ UNCHANGED <<epVars, waitVars, taskVars, histVars>>
    BY <1>10 DEF ReadFails, UserSignalFails, WriteFails, CallBadHandle
  <2>2. QED BY <2>1 DEF Return
<1>11. ASSUME NEW t \in Threads, NEW fits \in BOOLEAN, NEW mayDiscard \in BOOLEAN,
              NEW copied \in BOOLEAN, ReadMessage(t, fits, mayDiscard, copied)
       PROVE TypeInv'
  <2> DEFINE e == ep[t]
  <2>1. e \in Endpoints /\ messages[e] \in Seq(Message) /\ messages[e] # <<>>
    BY <1>11 DEF ReadMessage
  <2>2. Tail(messages[e]) \in Seq(Message) /\ Head(messages[e]).id \in Nat
    BY <2>1, QueueHead
  <2>3. messages' = [messages EXCEPT ![e] = Tail(messages[e])] \/ messages' = messages
    BY <1>11 DEF ReadMessage, Pops
  <2>4. messages' \in [Endpoints -> Seq(Message)]
    <3>1. CASE messages' = messages BY <3>1
    <3>2. CASE messages' = [messages EXCEPT ![e] = Tail(messages[e])]
      <4> DEFINE q == Tail(messages[e])
      <4> HIDE DEF q
      <4>1. q \in Seq(Message) BY <2>2 DEF q
      <4>2. messages' = [messages EXCEPT ![ep[t]] = q] BY <3>2 DEF q
      <4>3. QED BY <4>1, <4>2, <2>1
    <3>3. QED BY <2>3, <3>1, <3>2
  <2>5. signals' \in [Endpoints -> SUBSET Signals]
    BY <1>11, <2>1 DEF ReadMessage, UpdateState, Pops, EmptyAfterPop
  <2>6. received' \subseteq Nat /\ discarded' \subseteq Nat
    BY <1>11, <2>2 DEF ReadMessage, ReadOut
  <2>7. QED BY <1>11, <2>4, <2>5, <2>6 DEF ReadMessage, Return
<1>12. ASSUME NEW t \in Threads, NEW clear \in SUBSET UserSignals, NEW set \in SUBSET UserSignals,
              UserSignalSelf(t, clear, set) \/ UserSignalPeer(t, clear, set)
       PROVE TypeInv'
  <2>1. CASE UserSignalSelf(t, clear, set)
    BY <2>1 DEF UserSignalSelf, UpdateState, Return
  <2>2. CASE UserSignalPeer(t, clear, set)
    BY <2>2 DEF UserSignalPeer, UpdateState, Return
  <2>3. QED BY <1>12, <2>1, <2>2
<1>13. ASSUME NEW t \in Threads, NEW x \in UserTxids, NEW w \in Threads, WriteToWaiter(t, w, x)
       PROVE TypeInv'
  <2>1. [id |-> written + 1, txid |-> x] \in Message BY NewMessage DEF Txids
  <2>2. QED BY <1>13, <2>1 DEF WriteToWaiter, Deliver, Return
<1>14. ASSUME NEW t \in Threads, NEW x \in UserTxids, WriteToQueue(t, x) PROVE TypeInv'
  <2>1. [id |-> written + 1, txid |-> x] \in Message BY NewMessage DEF Txids
  <2>2. QED BY <1>14, <2>1 DEF WriteToQueue, Enqueue, UpdateState, Return
<1>15. ASSUME NEW t \in Threads, BeginWait(t) \/ BeginWaitKill(t) \/ CallPeerClosed(t)
       PROVE TypeInv'
  <2>1. CASE BeginWait(t) BY <2>1 DEF BeginWait, Unsignaled
  <2>2. CASE BeginWaitKill(t) BY <2>2 DEF BeginWaitKill, Return
  <2>3. CASE CallPeerClosed(t) BY <2>3 DEF CallPeerClosed, Return
  <2>4. QED BY <1>15, <2>1, <2>2, <2>3
<1>16. ASSUME NEW t \in Threads, NEW n \in 1 .. HalfTxid, NEW w \in Threads, CallToWaiter(t, n, w)
       PROVE TypeInv'
  <2>1. ep[t] \in Endpoints BY <1>16 DEF CallToWaiter
  <2>2. NextTxid(ep[t], n) \in Txids /\ Bump(ep[t], n) \in Txids BY <2>1, TxidRange
  <2>3. [id |-> written + 1, txid |-> NextTxid(ep[t], n)] \in Message BY <2>2, NewMessage
  <2>4. QED BY <1>16, <2>2, <2>3 DEF CallToWaiter, Deliver
<1>17. ASSUME NEW t \in Threads, NEW n \in 1 .. HalfTxid, CallToQueue(t, n) PROVE TypeInv'
  <2>1. ep[t] \in Endpoints BY <1>17 DEF CallToQueue
  <2>2. NextTxid(ep[t], n) \in Txids /\ Bump(ep[t], n) \in Txids BY <2>1, TxidRange
  <2>3. [id |-> written + 1, txid |-> NextTxid(ep[t], n)] \in Message BY <2>2, NewMessage
  <2>4. messages' \in [Endpoints -> Seq(Message)]
    <3> DEFINE f == Other(ep[t])
               m == [id |-> written + 1, txid |-> NextTxid(ep[t], n)]
    <3>1. messages' = [messages EXCEPT ![f] = Append(messages[f], m)]
      BY <1>17 DEF CallToQueue, Enqueue
    <3>2. f \in Endpoints BY <2>1 DEF Other
    <3>3. Append(messages[f], m) \in Seq(Message) BY <2>3, <3>2
    <3>4. QED BY <3>1, <3>2, <3>3
  <2>5. QED BY <1>17, <2>2, <2>4 DEF CallToQueue, Enqueue, UpdateState
<1>18. ASSUME NEW t \in Threads, WaitReturns(t) \/ CallFinish(t) \/ Exit(t) PROVE TypeInv'
  <2>1. CASE WaitReturns(t) BY <2>1 DEF WaitReturns
  <2>2. CASE CallFinish(t) BY <2>2 DEF CallFinish
  <2>3. CASE Exit(t) BY <2>3 DEF Exit
  <2>4. QED BY <1>18, <2>1, <2>2, <2>3
<1>19. ASSUME NEW t \in Threads, NEW fits \in BOOLEAN, EndWait(t, fits) PROVE TypeInv'
  <2>1. slot[t] # NoMsg => slot[t].id \in Nat BY DEF Message
  <2>2. QED BY <1>19, <2>1 DEF EndWait, ReadOut, Return
<1> HIDE DEF TypeInv, TypeOK, RefHeld, InSyscall, Endpoints, Signals, Statuses, PCs
<1>20. CASE Environment
  BY <1>20, <1>2, <1>3, <1>4, <1>5, <1>6, <1>7, <1>8, <1>9 DEF Environment
<1>21. ASSUME NEW t \in Threads, ThreadStep(t) PROVE TypeInv'
  BY <1>21, <1>10, <1>11, <1>12, <1>13, <1>14, <1>15, <1>16, <1>17, <1>18, <1>19
  DEF ThreadStep
<1>22. QED BY <1>1, <1>20, <1>21 DEF Next

\* Spec => []TypeOK: every field keeps its type.
THEOREM TypeCorrect == Spec => []TypeOK
<1>1. Spec => []TypeInv BY TypeInit, TypeNext, PTL DEF Spec
<1>2. TypeInv => TypeOK BY DEF TypeInv
<1>3. QED BY <1>1, <1>2, PTL

-----------------------------------------------------------------------------
(* The inductive invariant.                                                *)

\* What holds of a waiter at each place of its thread: a listed waiter is
\* armed for that list and has not been answered; a call that has written its
\* request and has not been answered is listed.
WaiterInv ==
  /\ \A e \in Endpoints : \A t \in waiters[e] :
       /\ chan[t] = e /\ pc[t] \notin {"call", "gone"}
       /\ status[t] = "TIMED_OUT" /\ ~event[t]
  /\ \A t \in Threads : pc[t] \in {"wait", "end"} => ep[t] = chan[t]
  /\ \A t \in Threads : pc[t] \in {"wait", "end", "retry"} =>
       /\ chan[t] \in Endpoints
       /\ status[t] = "TIMED_OUT" => t \in waiters[chan[t]]
       /\ event[t] <=> status[t] # "TIMED_OUT"
  /\ \A t \in Threads : pc[t] = "call" =>
       chan[t] = ep[t] /\ status[t] = "TIMED_OUT" /\ ~event[t]

\* The two peer_ pointers are cleared together, when the first handle closes.
PeerInv ==
  /\ peer[0] = peer[1]
  /\ \A e \in Endpoints : handle[e] = "none" => ~peer[e]
  /\ NoCallLeftBehind

\* owner_ lags behind only while the handle is in no table.
OwnerInv == \A e \in Endpoints : handle[e] \in Procs => owner[e] = handle[e]

SafetyInv ==
  WaiterInv /\ PeerInv /\ OwnerInv /\ UniqueTxids /\ ReplyToItsCall /\ SignalsMatch

IInv == TypeInv /\ SafetyInv

\* A new channel satisfies the invariant.
LEMMA InvInit == Init => IInv
<1>1. Init => TypeInv BY TypeInit
<1>2. Init => SafetyInv
  BY ChannelAssumption DEF Init, SafetyInv, WaiterInv, PeerInv, NoCallLeftBehind, OwnerInv,
     UniqueTxids, ReplyToItsCall, SignalsMatch, Endpoints
<1>3. QED BY <1>1, <1>2 DEF IInv

\* A list that was appended to is not empty.
LEMMA AppendNonEmpty ==
  ASSUME NEW q \in Seq(Message), NEW m
  PROVE  Append(q, m) # <<>>
<1>1. Len(Append(q, m)) = Len(q) + 1 /\ Len(q) \in Nat OBVIOUS
<1>2. QED BY <1>1

\* A queue holds the message written to it.
LEMMA EnqueueNonEmpty ==
  ASSUME messages \in [Endpoints -> Seq(Message)], NEW t, NEW f \in Endpoints, NEW m,
         Enqueue(t, f, m)
  PROVE  messages'[f] # <<>>
<1>1. messages[f] \in Seq(Message) OBVIOUS
<1>2. messages'[f] = Append(messages[f], m) BY DEF Enqueue
<1>3. QED BY <1>1, <1>2, AppendNonEmpty

\* Every step keeps the invariant; closing, reading and queueing, which touch
\* several of its parts, are taken apart.
LEMMA InvNext == IInv /\ TypeInv' /\ [Next]_vars => SafetyInv'
<1> SUFFICES ASSUME IInv, TypeInv', [Next]_vars PROVE SafetyInv' OBVIOUS
<1> USE ChannelAssumption
<1> USE DEF IInv, TypeInv, TypeOK, RefHeld, InSyscall, Endpoints, Statuses, PCs, SafetyInv,
      WaiterInv, PeerInv, NoCallLeftBehind, OwnerInv, UniqueTxids, ReplyToItsCall,
      SignalsMatch, Accepts, AllocTxid, TxidsInUse, epVars, waitVars, taskVars, histVars
<1>1. CASE UNCHANGED vars BY <1>1 DEF vars
<1>2. ASSUME NEW e \in Endpoints, RemoveHandle(e) PROVE SafetyInv'
  BY <1>2 DEF RemoveHandle
<1>3. ASSUME NEW e \in Endpoints, NEW p \in Procs, AddHandle(e, p) PROVE SafetyInv'
  BY <1>3 DEF AddHandle, SetOwner
<1>4. ASSUME NEW e \in Endpoints, OnZeroHandles(e) PROVE SafetyInv'
  <2> DEFINE f == 1 - e
             there == CanceledAtPeer(e)
  <2>1. f \in Endpoints /\ e # f /\ \A x \in Endpoints : x = e \/ x = f OBVIOUS
  <2>2. there = {} \/ there = waiters[f] BY DEF CanceledAtPeer, Other
  <2>3. waiters'[e] = {} /\ waiters'[f] = waiters[f] \ there
    BY <1>4, <2>1 DEF OnZeroHandles, CanceledHere, Other
  <2>4. WaiterInv'
    <3>1. \A u \in Threads : u \in waiters[e] \cup there =>
            status'[u] # "TIMED_OUT" /\ event'[u]
      BY <1>4 DEF OnZeroHandles, CanceledHere
    <3>2. \A u \in Threads : u \notin waiters[e] \cup there =>
            status'[u] = status[u] /\ event'[u] = event[u]
      BY <1>4 DEF OnZeroHandles, CanceledHere
    <3>3. UNCHANGED <<pc, ep, chan>> BY <1>4 DEF OnZeroHandles
    <3>4. \A u \in waiters[e] : chan[u] = e OBVIOUS
    <3>5. \A u \in waiters[f] : chan[u] = f BY <2>1
    <3> HIDE DEF f, there
    <3>6. QED BY <2>1, <2>2, <2>3, <3>1, <3>2, <3>3, <3>4, <3>5
  <2>5. PeerInv'
    <3>1. \A x \in Endpoints : ~peer'[x]
      <4>1. CASE peer[e]
        <5>1. peer' = [x \in Endpoints |-> FALSE] BY <1>4, <4>1 DEF OnZeroHandles
        <5>2. QED BY <5>1
      <4>2. CASE ~peer[e]
        <5>1. peer' = peer BY <1>4, <4>2 DEF OnZeroHandles
        <5>2. QED BY <2>1, <4>2, <5>1
      <4>3. QED BY <4>1, <4>2
    <3>2. waiters'[f] = {} BY <2>1, <2>3 DEF CanceledAtPeer, Other
    <3>3. QED BY <2>1, <2>3, <3>1, <3>2
  <2>6. OwnerInv' BY <1>4 DEF OnZeroHandles
  <2>7. UniqueTxids' BY <1>4, <2>1, <2>3 DEF OnZeroHandles
  <2>8. ReplyToItsCall'
    BY <1>4 DEF OnZeroHandles, CanceledHere, CanceledAtPeer, Other
  <2>9. SignalsMatch' BY <1>4 DEF OnZeroHandles, UpdateState, Other
  <2>10. QED BY <2>4, <2>5, <2>6, <2>7, <2>8, <2>9
<1>5. ASSUME NEW e \in Endpoints, Destroy(e) PROVE SafetyInv'
  BY <1>5 DEF Destroy
<1>6. ASSUME NEW t \in Threads, NEW e \in Endpoints, NEW op \in Ops, Lookup(t, e, op)
      PROVE SafetyInv'
  BY <1>6 DEF Lookup, Ops
<1>7. ASSUME NEW t \in Threads, WaitTimesOut(t) PROVE SafetyInv'
  BY <1>7 DEF WaitTimesOut
<1>8. ASSUME NEW t \in Threads, WaitInterrupted(t) PROVE SafetyInv'
  BY <1>8 DEF WaitInterrupted
<1>9. ASSUME NEW t \in Threads, CallFinishFails(t) \/ SyscallFails(t) PROVE SafetyInv'
  <2>1. CASE CallFinishFails(t) BY <2>1 DEF CallFinishFails
  <2>2. CASE SyscallFails(t) BY <2>2 DEF SyscallFails, Return
  <2>3. QED BY <1>9, <2>1, <2>2
<1>10. ASSUME NEW t \in Threads, Kill(t) PROVE SafetyInv'
  BY <1>10 DEF Kill
<1>11. ASSUME NEW t \in Threads, ResumeFromException(t) PROVE SafetyInv'
  BY <1>11 DEF ResumeFromException
<1>12. ASSUME NEW t \in Threads, DestroyThread(t) PROVE SafetyInv'
  BY <1>12 DEF DestroyThread
<1>13. ASSUME NEW t \in Threads, ReadFails(t) PROVE SafetyInv'
  BY <1>13 DEF ReadFails, Return
<1>14. ASSUME NEW t \in Threads, NEW fits \in BOOLEAN, NEW mayDiscard \in BOOLEAN,
             NEW copied \in BOOLEAN, ReadMessage(t, fits, mayDiscard, copied)
      PROVE SafetyInv'
  <2> DEFINE q == messages[ep[t]]
  <2>1. ep[t] \in Endpoints BY <1>14 DEF ReadMessage
  <2>2. UNCHANGED <<handle, owner, peer, waiters, chan, status, slot, wtxid, event>>
    BY <1>14 DEF ReadMessage
  <2>3. pc' = [pc EXCEPT ![t] = "user"] /\ ep' = [ep EXCEPT ![t] = NoChan]
    BY <1>14 DEF ReadMessage, Return
  <2>4. WaiterInv' /\ PeerInv' /\ OwnerInv' /\ UniqueTxids' /\ ReplyToItsCall'
    BY <1>14, <2>2, <2>3 DEF ReadMessage
  <2>5. SignalsMatch'
    <3>1. CASE ~Pops(fits, mayDiscard) BY <2>1, <2>2, <3>1, <1>14 DEF ReadMessage
    <3>2. CASE Pops(fits, mayDiscard) /\ Tail(q) = <<>>
      <4>1. messages' = [messages EXCEPT ![ep[t]] = Tail(q)] BY <3>2, <1>14 DEF ReadMessage
      <4>2. messages'[ep[t]] = <<>> BY <2>1, <3>2, <4>1
      <4>3. signals' = [signals EXCEPT ![ep[t]] = @ \ {"READABLE"}]
        BY <3>2, <1>14 DEF ReadMessage, EmptyAfterPop, UpdateState
      <4>4. QED BY <2>1, <2>2, <4>1, <4>2, <4>3
    <3>3. CASE Pops(fits, mayDiscard) /\ Tail(q) # <<>>
      <4>1. messages'[ep[t]] # <<>> /\ q # <<>> /\ signals' = signals
        BY <2>1, <3>3, <1>14 DEF ReadMessage, EmptyAfterPop
      <4>2. QED BY <2>1, <2>2, <3>3, <4>1, <1>14 DEF ReadMessage
    <3>4. QED BY <3>1, <3>2, <3>3 DEF Pops
  <2>6. QED BY <2>4, <2>5
<1>15. ASSUME NEW t \in Threads, NEW clear \in SUBSET UserSignals, NEW set \in SUBSET UserSignals,
             UserSignalSelf(t, clear, set)
      PROVE SafetyInv'
  BY <1>15 DEF UserSignalSelf, UpdateState, Return
<1>16. ASSUME NEW t \in Threads, NEW clear \in SUBSET UserSignals, NEW set \in SUBSET UserSignals,
             UserSignalPeer(t, clear, set)
      PROVE SafetyInv'
  BY <1>16 DEF UserSignalPeer, UpdateState, Return, Other
<1>17. ASSUME NEW t \in Threads, UserSignalFails(t) PROVE SafetyInv'
  BY <1>17 DEF UserSignalFails, Return
<1>18. ASSUME NEW t \in Threads, WriteFails(t) PROVE SafetyInv'
  BY <1>18 DEF WriteFails, Return
<1>19. ASSUME NEW t \in Threads, NEW x \in UserTxids, NEW w \in Threads,
             WriteToWaiter(t, w, x)
      PROVE SafetyInv'
  BY <1>19 DEF WriteToWaiter, Matches, Deliver, Return, Other
<1>20. ASSUME NEW t \in Threads, NEW x \in UserTxids, WriteToQueue(t, x)
      PROVE SafetyInv'
  <2> DEFINE f == 1 - ep[t]
  <2>1. ep[t] \in Endpoints /\ f \in Endpoints /\ messages[f] \in Seq(Message)
    BY <1>20 DEF WriteToQueue
  <2>2. messages'[f] # <<>>
    <3>1. Enqueue(t, f, [id |-> written + 1, txid |-> x]) BY <1>20 DEF WriteToQueue, Other
    <3>2. messages \in [Endpoints -> Seq(Message)] OBVIOUS
    <3> HIDE DEF f, IInv, TypeInv, SafetyInv
    <3>3. QED BY <2>1, <3>1, <3>2, EnqueueNonEmpty
  <2>3. SignalsMatch' BY <1>20, <2>1, <2>2 DEF WriteToQueue, Enqueue, UpdateState, Other
  <2>4. WaiterInv' BY <1>20, <2>1 DEF WriteToQueue, Return
  <2>5. PeerInv' /\ OwnerInv' BY <1>20, <2>1 DEF WriteToQueue
  <2>6. UniqueTxids' /\ ReplyToItsCall' BY <1>20, <2>1 DEF WriteToQueue
  <2>7. QED BY <2>3, <2>4, <2>5, <2>6
<1>21. ASSUME NEW t \in Threads, BeginWait(t) PROVE SafetyInv'
  BY <1>21 DEF BeginWait, Unsignaled
<1>22. ASSUME NEW t \in Threads, BeginWaitKill(t) PROVE SafetyInv'
  BY <1>22 DEF BeginWaitKill, Return
<1>23. ASSUME NEW t \in Threads, CallBadHandle(t) PROVE SafetyInv'
  BY <1>23 DEF CallBadHandle, Return
<1>24. ASSUME NEW t \in Threads, CallPeerClosed(t) PROVE SafetyInv'
  BY <1>24 DEF CallPeerClosed, Return
<1>25. ASSUME NEW t \in Threads, NEW n \in 1 .. HalfTxid, NEW w \in Threads,
             CallToWaiter(t, n, w)
      PROVE SafetyInv'
  BY <1>25 DEF CallToWaiter, Matches, Deliver, Other
<1>26. ASSUME NEW t \in Threads, NEW n \in 1 .. HalfTxid, CallToQueue(t, n)
      PROVE SafetyInv'
  <2> DEFINE f == 1 - ep[t]
  <2>1. ep[t] \in Endpoints /\ f \in Endpoints /\ messages[f] \in Seq(Message)
    BY <1>26 DEF CallToQueue
  <2>2. messages'[f] # <<>>
    <3>1. Enqueue(t, f, [id |-> written + 1, txid |-> NextTxid(ep[t], n)])
      BY <1>26 DEF CallToQueue, Other
    <3>2. messages \in [Endpoints -> Seq(Message)] OBVIOUS
    <3> HIDE DEF f, IInv, TypeInv, SafetyInv
    <3>3. QED BY <2>1, <3>1, <3>2, EnqueueNonEmpty
  <2>3. SignalsMatch' BY <1>26, <2>1, <2>2 DEF CallToQueue, Enqueue, UpdateState, Other
  <2>4. WaiterInv' BY <1>26, <2>1 DEF CallToQueue
  <2>5. PeerInv' /\ OwnerInv' BY <1>26, <2>1 DEF CallToQueue
  <2>6. UniqueTxids' /\ ReplyToItsCall' BY <1>26, <2>1 DEF CallToQueue
  <2>7. QED BY <2>3, <2>4, <2>5, <2>6
<1>27. ASSUME NEW t \in Threads, WaitReturns(t) PROVE SafetyInv'
  BY <1>27 DEF WaitReturns
<1>28. ASSUME NEW t \in Threads, CallFinish(t) PROVE SafetyInv'
  BY <1>28 DEF CallFinish
<1>29. ASSUME NEW t \in Threads, Exit(t) PROVE SafetyInv'
  BY <1>29 DEF Exit
<1>30. ASSUME NEW t \in Threads, NEW fits \in BOOLEAN, EndWait(t, fits)
      PROVE SafetyInv'
  BY <1>30 DEF EndWait, ErasedByCaller, Return
<1> HIDE DEF IInv, SafetyInv, TypeInv, Endpoints
<1>31. CASE Environment
  BY <1>31, <1>2, <1>3, <1>4, <1>5, <1>6, <1>7, <1>8, <1>9, <1>10, <1>11, <1>12
  DEF Environment
<1>32. ASSUME NEW t \in Threads, ThreadStep(t) PROVE SafetyInv'
  BY <1>32, <1>13, <1>14, <1>15, <1>16, <1>17, <1>18, <1>19, <1>20, <1>21,
     <1>22, <1>23, <1>24, <1>25, <1>26, <1>27, <1>28, <1>29, <1>30
  DEF ThreadStep
<1>33. QED BY <1>1, <1>31, <1>32 DEF Next

\* The invariant holds of every reachable state.
THEOREM Invariant == Spec => []IInv
<1>1. IInv /\ [Next]_vars => IInv' BY TypeNext, InvNext DEF IInv
<1>2. QED BY InvInit, <1>1, PTL DEF Spec

-----------------------------------------------------------------------------
(* What follows from it.                                                   *)

\* Channel::Call, step (4): EndWait reports TIMED_OUT exactly when the waiter
\* is still on the list and the caller has to erase it.
THEOREM TimeoutsAreExact == Spec => []TimedOutMeansListed
<1>1. IInv => TimedOutMeansListed
  BY ChannelAssumption DEF IInv, SafetyInv, WaiterInv, TimedOutMeansListed, Endpoints
<1>2. QED BY Invariant, <1>1, PTL

\* A listed waiter is armed for its channel and its ThreadDispatcher exists.
THEOREM ListedWaitersAreArmed == Spec => []ListedMeansArmed
<1>1. IInv => ListedMeansArmed BY DEF IInv, SafetyInv, WaiterInv, ListedMeansArmed
<1>2. QED BY Invariant, <1>1, PTL

\* Closing either endpoint leaves no call waiting on it.
THEOREM CloseReleasesCalls == Spec => []NoCallLeftBehind
<1>1. IInv => NoCallLeftBehind BY DEF IInv, SafetyInv, PeerInv
<1>2. QED BY Invariant, <1>1, PTL

\* The alloc_txid loop keeps the txids of concurrent calls apart, whatever the
\* width of the counter.
THEOREM TxidsAreUnique == Spec => []UniqueTxids
<1>1. IInv => UniqueTxids BY DEF IInv, SafetyInv
<1>2. QED BY Invariant, <1>1, PTL

\* WriteSelf hands a message only to the call with its txid.
THEOREM RepliesAreRouted == Spec => []ReplyToItsCall
<1>1. IInv => ReplyToItsCall BY DEF IInv, SafetyInv
<1>2. QED BY Invariant, <1>1, PTL

\* READABLE, WRITABLE and PEER_CLOSED tell the state of queue and peer.
THEOREM SignalsAreExact == Spec => []SignalsMatch
<1>1. IInv => SignalsMatch BY DEF IInv, SafetyInv
<1>2. QED BY Invariant, <1>1, PTL

\* The owner_ check: no process but the one that holds the handle writes or
\* calls through an endpoint that is in a table.
THEOREM OwnershipIsRespected == Spec => OnlyOwnerWrites
<1> DEFINE Writes(t) == pc[t] \in {"write", "call"} /\ pc'[t] # pc[t] /\ written' # written
           Step == \A t \in Threads : Writes(t) => handle[ep[t]] \notin Procs \ {ProcOf[t]}
<1>1. ASSUME IInv, [Next]_vars PROVE Step
  <2> USE DEF epVars, waitVars, taskVars, histVars
  <2>1. CASE UNCHANGED vars BY <2>1 DEF vars
  <2>2. CASE Environment
    <3>1. written' = written
      BY <2>2 DEF Environment, RemoveHandle, AddHandle, OnZeroHandles, Destroy, Lookup,
         SyscallFails, WaitTimesOut, WaitInterrupted, CallFinishFails, Kill, ResumeFromException,
         DestroyThread
    <3>2. QED BY <3>1
  <2>3. ASSUME NEW u \in Threads, ThreadStep(u) PROVE Step
    <3>1. CASE written' = written BY <3>1
    <3>2. CASE written' # written
      <4>1. Accepts(u, ep[u]) /\ pc[u] \in {"write", "call"}
        BY <2>3, <3>2 DEF ThreadStep, ReadFails, ReadMessage, UserSignalSelf, UserSignalPeer,
           UserSignalFails, WriteFails, WriteToWaiter, WriteToQueue, BeginWait, BeginWaitKill,
           CallBadHandle, CallPeerClosed, CallToWaiter, CallToQueue, WaitReturns, CallFinish,
           Exit, EndWait
      <4>2. pc' = [pc EXCEPT ![u] = "user"] \/ pc' = [pc EXCEPT ![u] = "wait"]
        BY <2>3, <3>2 DEF ThreadStep, ReadFails, ReadMessage, UserSignalSelf, UserSignalPeer,
           UserSignalFails, WriteFails, WriteToWaiter, WriteToQueue, BeginWait, BeginWaitKill,
           CallBadHandle, CallPeerClosed, CallToWaiter, CallToQueue, WaitReturns, CallFinish,
           Exit, EndWait, Return
      <4>3. \A t \in Threads : Writes(t) => t = u
        BY <1>1, <4>2 DEF IInv, TypeInv, TypeOK
      <4>4. handle[ep[u]] \notin Procs \ {ProcOf[u]}
        BY <1>1, <4>1 DEF IInv, SafetyInv, OwnerInv, TypeInv, RefHeld, InSyscall, Accepts
      <4>5. QED BY <4>3, <4>4
    <3>3. QED BY <3>1, <3>2
  <2>4. QED BY <1>1, <2>1, <2>2, <2>3 DEF Next
<1>2. QED BY Invariant, <1>1, PTL DEF Spec, OnlyOwnerWrites

-----------------------------------------------------------------------------
(* No message is lost or handed out twice.                                 *)

\* The ids in a queue are different.
DistinctIds(q) == \A i, j \in DOMAIN q : q[i].id = q[j].id => i = j

\* The id of the message in a waiter's hands.
Held(t) == IF slot[t] = NoMsg THEN {} ELSE {slot[t].id}

\* MessagesConserved, with different ids in each queue and in all hands.
PlacesInv ==
  /\ \A n \in Nat :
       n \in 1 .. written <=> \/ \E e \in Endpoints : n \in Ids(messages[e])
                              \/ n \in received \cup discarded
                              \/ \E t \in Threads : n \in Held(t)
  /\ Ids(messages[0]) \cap Ids(messages[1]) = {}
  /\ received \cap discarded = {}
  /\ \A e \in Endpoints : Ids(messages[e]) \cap (received \cup discarded) = {}
  /\ \A t \in Threads :
       /\ Held(t) \cap (received \cup discarded) = {}
       /\ \A e \in Endpoints : Held(t) \cap Ids(messages[e]) = {}
       /\ \A u \in Threads \ {t} : Held(t) \cap Held(u) = {}
  /\ \A e \in Endpoints : DistinctIds(messages[e])

\* Queueing a message adds its id.
LEMMA IdsAppend ==
  ASSUME NEW q \in Seq(Message), NEW m \in Message
  PROVE  /\ Ids(Append(q, m)) = Ids(q) \cup {m.id}
         /\ DistinctIds(q) /\ m.id \notin Ids(q) => DistinctIds(Append(q, m))
<1> DEFINE a == Append(q, m)
<1>1. /\ Len(q) \in Nat /\ DOMAIN q = 1 .. Len(q)
      /\ DOMAIN a = 1 .. Len(q) + 1 /\ a[Len(q) + 1] = m
      /\ \A i \in DOMAIN q : a[i] = q[i]
  OBVIOUS
<1> HIDE DEF a
<1>2. DOMAIN a = DOMAIN q \cup {Len(q) + 1} /\ Len(q) + 1 \notin DOMAIN q
  BY <1>1
<1>3. Ids(a) = Ids(q) \cup {m.id}
  BY <1>1, <1>2 DEF Ids
<1>4. ASSUME DistinctIds(q), m.id \notin Ids(q) PROVE DistinctIds(a)
  BY <1>1, <1>2, <1>4 DEF Ids, DistinctIds
<1>5. QED BY <1>3, <1>4 DEF a

\* Taking the first message off a queue takes its id away.
LEMMA IdsTail ==
  ASSUME NEW q \in Seq(Message), q # <<>>, DistinctIds(q)
  PROVE  /\ Head(q).id \in Ids(q)
         /\ Ids(Tail(q)) = Ids(q) \ {Head(q).id}
         /\ DistinctIds(Tail(q))
<1> DEFINE r == Tail(q)
<1>1. /\ Len(q) \in Nat /\ Len(q) > 0 /\ DOMAIN q = 1 .. Len(q) /\ Head(q) = q[1]
      /\ DOMAIN r = 1 .. Len(q) - 1 /\ \A i \in 1 .. Len(q) - 1 : r[i] = q[i + 1]
  OBVIOUS
<1> HIDE DEF r
<1>2. q[1].id \in Ids(q)
  BY <1>1 DEF Ids
<1>3. Ids(r) \subseteq Ids(q) \ {q[1].id}
  <2> SUFFICES ASSUME NEW i \in DOMAIN r PROVE r[i].id \in Ids(q) /\ r[i].id # q[1].id
    BY DEF Ids
  <2>1. i + 1 \in DOMAIN q /\ i + 1 # 1 /\ r[i] = q[i + 1] /\ 1 \in DOMAIN q
    BY <1>1
  <2>2. QED BY <2>1 DEF Ids, DistinctIds
<1>4. Ids(q) \ {q[1].id} \subseteq Ids(r)
  <2> SUFFICES ASSUME NEW i \in DOMAIN q, q[i].id # q[1].id PROVE q[i].id \in Ids(r)
    BY DEF Ids
  <2>1. i # 1 /\ i - 1 \in DOMAIN r /\ r[i - 1] = q[(i - 1) + 1] /\ (i - 1) + 1 = i
    BY <1>1
  <2>2. QED BY <2>1 DEF Ids
<1>5. DistinctIds(r)
  <2> SUFFICES ASSUME NEW i \in DOMAIN r, NEW j \in DOMAIN r, r[i].id = r[j].id PROVE i = j
    BY DEF DistinctIds
  <2>1. /\ i + 1 \in DOMAIN q /\ j + 1 \in DOMAIN q /\ i \in Nat /\ j \in Nat
        /\ r[i] = q[i + 1] /\ r[j] = q[j + 1]
    BY <1>1
  <2>2. i + 1 = j + 1
    BY <2>1 DEF DistinctIds
  <2>3. QED BY <2>1, <2>2
<1>6. QED BY <1>1, <1>2, <1>3, <1>4, <1>5 DEF r

\* The steps that move no message.
LEMMA NothingMoves ==
  ASSUME PlacesInv, UNCHANGED <<messages, slot, written, received, discarded>>
  PROVE  PlacesInv'
  BY DEF PlacesInv, Held

\* A queue loses the messages N to a reader, or drops them.
LEMMA QueueShrinks ==
  ASSUME PlacesInv, TypeOK, NEW e \in Endpoints, NEW N \in SUBSET Ids(messages[e]),
         Ids(messages'[e]) = Ids(messages[e]) \ N, DistinctIds(messages'[e]),
         messages'[Other(e)] = messages[Other(e)], UNCHANGED <<slot, written>>,
         \/ received' = received \cup N /\ discarded' = discarded
         \/ received' = received /\ discarded' = discarded \cup N
  PROVE  PlacesInv'
<1>1. Other(e) \in Endpoints /\ Other(e) # e /\ Endpoints = {e, Other(e)}
  BY DEF Endpoints, Other
<1>2. \A t \in Threads : Held(t)' = Held(t)
  BY DEF Held
<1>3. /\ Ids(messages'[Other(e)]) = Ids(messages[Other(e)])
      /\ DistinctIds(messages'[Other(e)])
  BY <1>1 DEF PlacesInv
<1>4. \A x \in Endpoints : /\ Ids(messages'[x]) \subseteq Ids(messages[x])
                           /\ Ids(messages'[x]) \cap N = {}
                           /\ Ids(messages[x]) \subseteq Ids(messages'[x]) \cup N
                           /\ DistinctIds(messages'[x])
  BY <1>1, <1>3 DEF PlacesInv, Endpoints
<1>5. received' \cup discarded' = received \cup discarded \cup N
  OBVIOUS
<1>6. received' \cap discarded' = {}
  BY DEF PlacesInv
<1>7. \A n \in Nat :
        n \in 1 .. written' <=> \/ \E x \in Endpoints : n \in Ids(messages'[x])
                                \/ n \in received' \cup discarded'
                                \/ \E t \in Threads : n \in Held(t)'
  BY <1>2, <1>4, <1>5 DEF PlacesInv
<1>8. /\ Ids(messages'[0]) \cap Ids(messages'[1]) = {}
      /\ \A x \in Endpoints : Ids(messages'[x]) \cap (received' \cup discarded') = {}
  BY <1>4, <1>5 DEF PlacesInv, Endpoints
<1>9. \A t \in Threads : Held(t) \cap N = {}
  BY DEF PlacesInv
<1>10. \A t \in Threads :
        /\ Held(t)' \cap (received' \cup discarded') = {}
        /\ \A x \in Endpoints : Held(t)' \cap Ids(messages'[x]) = {}
        /\ \A u \in Threads \ {t} : Held(t)' \cap Held(u)' = {}
  BY <1>2, <1>4, <1>5, <1>9 DEF PlacesInv
<1>11. QED BY <1>4, <1>6, <1>7, <1>8, <1>10 DEF PlacesInv

\* A new message gets its id and is queued.
LEMMA QueueGrows ==
  ASSUME PlacesInv, TypeOK, NEW f \in Endpoints,
         Ids(messages'[f]) = Ids(messages[f]) \cup {written + 1}, DistinctIds(messages'[f]),
         messages'[Other(f)] = messages[Other(f)], UNCHANGED <<slot, received, discarded>>,
         written' = written + 1
  PROVE  PlacesInv'
<1> DEFINE new == written + 1
<1>1. Other(f) \in Endpoints /\ Other(f) # f /\ Endpoints = {f, Other(f)}
  BY DEF Endpoints, Other
<1>2. \A t \in Threads : Held(t)' = Held(t)
  BY DEF Held
<1>3. /\ new \in Nat /\ new \notin 1 .. written
      /\ \A n \in Nat : n \in 1 .. written' <=> n \in 1 .. written \/ n = new
  BY DEF TypeOK
<1>4. /\ new \notin received \cup discarded
      /\ \A x \in Endpoints : new \notin Ids(messages[x])
      /\ \A t \in Threads : new \notin Held(t)
  BY <1>3 DEF PlacesInv
<1> HIDE DEF new
<1>5. \A x \in Endpoints : /\ Ids(messages'[x]) \subseteq Ids(messages[x]) \cup {new}
                           /\ Ids(messages[x]) \subseteq Ids(messages'[x])
                           /\ DistinctIds(messages'[x])
  BY <1>1 DEF PlacesInv, new
<1>6. new \in Ids(messages'[f])
  BY DEF new
<1>7. \A n \in Nat :
        n \in 1 .. written' <=> \/ \E x \in Endpoints : n \in Ids(messages'[x])
                                \/ n \in received' \cup discarded'
                                \/ \E t \in Threads : n \in Held(t)'
  BY <1>2, <1>3, <1>5, <1>6 DEF PlacesInv
<1>8. Ids(messages'[f]) \cap Ids(messages'[Other(f)]) = {}
  BY <1>1, <1>4 DEF PlacesInv, Endpoints, new
<1>9. Ids(messages'[0]) \cap Ids(messages'[1]) = {}
  BY <1>8 DEF Endpoints, Other
<1>10. \A x \in Endpoints : Ids(messages'[x]) \cap (received' \cup discarded') = {}
  BY <1>4, <1>5 DEF PlacesInv
<1>11. \A t \in Threads :
        /\ Held(t)' \cap (received' \cup discarded') = {}
        /\ \A x \in Endpoints : Held(t)' \cap Ids(messages'[x]) = {}
        /\ \A u \in Threads \ {t} : Held(t)' \cap Held(u)' = {}
  BY <1>2, <1>4, <1>5 DEF PlacesInv
<1>12. QED BY <1>5, <1>7, <1>9, <1>10, <1>11 DEF PlacesInv

\* A new message gets its id and is handed to a waiter that has none yet.
LEMMA WaiterTakes ==
  ASSUME PlacesInv, TypeOK, NEW w \in Threads, slot[w] = NoMsg,
         NEW m \in Message, m.id = written + 1, slot' = [slot EXCEPT ![w] = m],
         UNCHANGED <<messages, received, discarded>>, written' = written + 1
  PROVE  PlacesInv'
<1> DEFINE new == written + 1
<1>1. NoMsg # m
  BY ChannelAssumption DEF Message, Txids
<1>2. Held(w) = {} /\ Held(w)' = {new} /\ \A t \in Threads \ {w} : Held(t)' = Held(t)
  BY <1>1 DEF Held, TypeOK
<1>3. /\ new \in Nat /\ new \notin 1 .. written
      /\ \A n \in Nat : n \in 1 .. written' <=> n \in 1 .. written \/ n = new
  BY DEF TypeOK
<1>4. /\ new \notin received \cup discarded
      /\ \A x \in Endpoints : new \notin Ids(messages[x])
      /\ \A t \in Threads : new \notin Held(t)
  BY <1>3 DEF PlacesInv
<1> HIDE DEF new
<1>5. \A n \in Nat :
        n \in 1 .. written' <=> \/ \E x \in Endpoints : n \in Ids(messages'[x])
                                \/ n \in received' \cup discarded'
                                \/ \E t \in Threads : n \in Held(t)'
  <2>1. ASSUME NEW n \in Nat
        PROVE  (\E t \in Threads : n \in Held(t)') <=> (n = new \/ \E t \in Threads : n \in Held(t))
    BY <1>2
  <2>2. QED BY <1>3, <2>1 DEF PlacesInv
<1>6. \A t \in Threads :
        /\ Held(t)' \cap (received' \cup discarded') = {}
        /\ \A x \in Endpoints : Held(t)' \cap Ids(messages'[x]) = {}
        /\ \A u \in Threads \ {t} : Held(t)' \cap Held(u)' = {}
  BY <1>2, <1>4 DEF PlacesInv
<1>7. QED BY <1>5, <1>6 DEF PlacesInv

\* A waiter gives what it has to its caller, or drops it.
LEMMA WaiterGives ==
  ASSUME PlacesInv, TypeOK, NEW t \in Threads, slot' = [slot EXCEPT ![t] = NoMsg],
         UNCHANGED <<messages, written>>,
         \/ received' = received \cup Held(t) /\ discarded' = discarded
         \/ received' = received /\ discarded' = discarded \cup Held(t)
  PROVE  PlacesInv'
<1>1. Held(t)' = {} /\ \A u \in Threads \ {t} : Held(u)' = Held(u)
  BY DEF Held, TypeOK
<1>2. received' \cup discarded' = received \cup discarded \cup Held(t)
  OBVIOUS
<1>3. received' \cap discarded' = {}
  BY DEF PlacesInv
<1>4. \A n \in Nat :
        n \in 1 .. written' <=> \/ \E x \in Endpoints : n \in Ids(messages'[x])
                                \/ n \in received' \cup discarded'
                                \/ \E u \in Threads : n \in Held(u)'
  BY <1>1, <1>2 DEF PlacesInv
<1>5. \A x \in Endpoints : Ids(messages'[x]) \cap (received' \cup discarded') = {}
  BY <1>2 DEF PlacesInv
<1>6. \A v \in Threads :
        /\ Held(v)' \cap (received' \cup discarded') = {}
        /\ \A x \in Endpoints : Held(v)' \cap Ids(messages'[x]) = {}
        /\ \A u \in Threads \ {v} : Held(v)' \cap Held(u)' = {}
  BY <1>1, <1>2 DEF PlacesInv
<1>7. QED BY <1>3, <1>4, <1>5, <1>6 DEF PlacesInv

\* A thread that waits for a reply holds none yet.
LEMMA WaiterIsEmpty ==
  ASSUME IInv, NEW t \in Threads,
         \/ pc[t] = "call"
         \/ \E e \in Endpoints : t \in waiters[e]
  PROVE  slot[t] = NoMsg
<1>1. status[t] = "TIMED_OUT"
  BY DEF IInv, SafetyInv, WaiterInv
<1>2. QED BY <1>1 DEF IInv, SafetyInv, ReplyToItsCall

\* A message appended to a queue is a new one.
LEMMA AppendPlaces ==
  ASSUME IInv, PlacesInv, NEW t \in Threads, NEW f \in Endpoints, NEW x \in Txids,
         Enqueue(t, f, [id |-> written + 1, txid |-> x]), written' = written + 1,
         UNCHANGED <<slot, received, discarded>>
  PROVE  PlacesInv'
<1> DEFINE m == [id |-> written + 1, txid |-> x]
<1>1. TypeOK BY DEF IInv, TypeInv
<1>2. m \in Message /\ m.id = written + 1 /\ messages[f] \in Seq(Message)
  BY <1>1, NewMessage DEF TypeOK
<1>3. Other(f) \in Endpoints /\ Other(f) # f BY DEF Endpoints, Other
<1>4. messages' = [messages EXCEPT ![f] = Append(@, m)] BY DEF Enqueue
<1> HIDE DEF m
<1>5. messages'[f] = Append(messages[f], m) /\ messages'[Other(f)] = messages[Other(f)]
  BY <1>1, <1>3, <1>4 DEF TypeOK
<1>6. written + 1 \notin Ids(messages[f])
  <2>1. written + 1 \in Nat /\ written + 1 \notin 1 .. written BY <1>1 DEF TypeOK
  <2>2. QED BY <2>1 DEF PlacesInv
<1>7. DistinctIds(messages[f]) BY DEF PlacesInv
<1>8. Ids(messages'[f]) = Ids(messages[f]) \cup {written + 1} /\ DistinctIds(messages'[f])
  BY <1>2, <1>5, <1>6, <1>7, IdsAppend
<1>9. QED BY <1>1, <1>5, <1>8, QueueGrows

\* A message handed to a listed waiter is a new one.
LEMMA DeliverPlaces ==
  ASSUME IInv, PlacesInv, NEW f \in Endpoints, NEW w \in Threads, NEW x \in Txids,
         Matches(f, w, x), Deliver(w, [id |-> written + 1, txid |-> x]),
         written' = written + 1, UNCHANGED <<messages, received, discarded>>
  PROVE  PlacesInv'
<1> DEFINE m == [id |-> written + 1, txid |-> x]
<1>1. TypeOK BY DEF IInv, TypeInv
<1>2. m \in Message /\ m.id = written + 1 BY <1>1, NewMessage
<1>3. slot[w] = NoMsg BY WaiterIsEmpty DEF Matches
<1>4. slot' = [slot EXCEPT ![w] = m] BY DEF Deliver
<1> HIDE DEF m
<1>5. QED BY <1>1, <1>2, <1>3, <1>4, WaiterTakes

\* Every step moves a message from one place to another, or none.
LEMMA PlacesNext ==
  ASSUME IInv, PlacesInv, [Next]_vars PROVE PlacesInv'
<1> DEFINE Still == UNCHANGED <<messages, slot, written, received, discarded>>
<1> USE DEF epVars, waitVars, taskVars, histVars
<1>0. TypeOK /\ RefHeld BY DEF IInv, TypeInv
<1>1. CASE UNCHANGED vars BY <1>1, NothingMoves DEF vars
<1>2. ASSUME NEW e \in Endpoints, Destroy(e) PROVE PlacesInv'
  <2>1. Other(e) \in Endpoints /\ Other(e) # e BY DEF Endpoints, Other
  <2>2. messages' = [messages EXCEPT ![e] = <<>>] BY <1>2 DEF Destroy
  <2>3. messages'[e] = <<>> /\ messages'[Other(e)] = messages[Other(e)]
    BY <1>0, <2>1, <2>2 DEF TypeOK
  <2>4. Ids(messages'[e]) = {} /\ DistinctIds(messages'[e])
    BY <2>3 DEF Ids, DistinctIds
  <2>5. /\ UNCHANGED <<slot, written>> /\ received' = received
        /\ discarded' = discarded \cup Ids(messages[e])
    BY <1>2 DEF Destroy
  <2>6. Ids(messages'[e]) = Ids(messages[e]) \ Ids(messages[e]) BY <2>4
  <2>7. QED BY <1>0, <2>3, <2>4, <2>5, <2>6, QueueShrinks
<1>3. ASSUME NEW t \in Threads, NEW fits \in BOOLEAN, NEW mayDiscard \in BOOLEAN,
             NEW copied \in BOOLEAN, ReadMessage(t, fits, mayDiscard, copied)
      PROVE  PlacesInv'
  <2>1. PICK e \in Endpoints : e = ep[t]
    BY <1>0, <1>3 DEF ReadMessage, RefHeld, InSyscall
  <2>2. /\ messages[e] # <<>> /\ UNCHANGED <<slot, written>>
        /\ messages' = IF fits \/ mayDiscard THEN [messages EXCEPT ![e] = Tail(@)] ELSE messages
        /\ ReadOut(IF fits \/ mayDiscard THEN {Head(messages[e]).id} ELSE {}, fits /\ copied)
    BY <1>3, <2>1 DEF ReadMessage, Pops
  <2>3. CASE fits \/ mayDiscard
    <3>1. PICK n : n = Head(messages[e]).id OBVIOUS
    <3>2. Other(e) \in Endpoints /\ Other(e) # e BY DEF Endpoints, Other
    <3>3. messages'[e] = Tail(messages[e]) /\ messages'[Other(e)] = messages[Other(e)]
      BY <1>0, <2>2, <2>3, <3>2 DEF TypeOK
    <3>4. DistinctIds(messages[e]) /\ messages[e] \in Seq(Message)
      BY <1>0 DEF PlacesInv, TypeOK
    <3>5. /\ n \in Ids(messages[e]) /\ Ids(messages'[e]) = Ids(messages[e]) \ {n}
          /\ DistinctIds(messages'[e])
      BY <2>2, <3>1, <3>3, <3>4, IdsTail
    <3>6. \/ received' = received \cup {n} /\ discarded' = discarded
          \/ received' = received /\ discarded' = discarded \cup {n}
      BY <2>2, <2>3, <3>1 DEF ReadOut
    <3>7. {n} \in SUBSET Ids(messages[e]) BY <3>5
    <3>8. QED BY <1>0, <2>2, <3>3, <3>5, <3>6, <3>7, QueueShrinks
  <2>4. CASE ~(fits \/ mayDiscard)
    <3>1. Still BY <2>2, <2>4 DEF ReadOut
    <3>2. QED BY <3>1, NothingMoves
  <2>5. QED BY <2>3, <2>4
<1>4. ASSUME NEW t \in Threads, NEW x \in UserTxids, NEW w \in Threads, WriteToWaiter(t, w, x)
      PROVE  PlacesInv'
  <2>1. PICK f \in Endpoints : f = Other(ep[t])
    BY <1>0, <1>4 DEF WriteToWaiter, RefHeld, InSyscall, Endpoints, Other
  <2>2. /\ Matches(f, w, x) /\ Deliver(w, [id |-> written + 1, txid |-> x])
        /\ written' = written + 1 /\ UNCHANGED <<messages, received, discarded>>
    BY <1>4, <2>1 DEF WriteToWaiter
  <2>3. x \in Txids BY ChannelAssumption DEF Txids
  <2>4. QED BY <2>2, <2>3, DeliverPlaces
<1>5. ASSUME NEW t \in Threads, NEW x \in UserTxids, WriteToQueue(t, x) PROVE PlacesInv'
  <2>1. PICK f \in Endpoints : f = Other(ep[t])
    BY <1>0, <1>5 DEF WriteToQueue, RefHeld, InSyscall, Endpoints, Other
  <2>2. /\ Enqueue(t, f, [id |-> written + 1, txid |-> x])
        /\ written' = written + 1 /\ UNCHANGED <<slot, received, discarded>>
    BY <1>5, <2>1 DEF WriteToQueue
  <2>3. x \in Txids BY ChannelAssumption DEF Txids
  <2>4. QED BY <2>2, <2>3, AppendPlaces
<1>6. ASSUME NEW t \in Threads, NEW n \in 1 .. HalfTxid, NEW w \in Threads, CallToWaiter(t, n, w)
      PROVE  PlacesInv'
  <2>1. PICK e \in Endpoints : e = ep[t]
    BY <1>0, <1>6 DEF CallToWaiter, RefHeld, InSyscall
  <2>2. PICK f \in Endpoints : f = Other(e) BY DEF Endpoints, Other
  <2>3. PICK x \in Txids : x = NextTxid(e, n) BY <1>0, TxidRange
  <2>4. /\ Matches(f, w, x) /\ Deliver(w, [id |-> written + 1, txid |-> x])
        /\ written' = written + 1 /\ UNCHANGED <<messages, received, discarded>>
    BY <1>6, <2>1, <2>2, <2>3 DEF CallToWaiter
  <2>5. QED BY <2>4, DeliverPlaces
<1>7. ASSUME NEW t \in Threads, NEW n \in 1 .. HalfTxid, CallToQueue(t, n) PROVE PlacesInv'
  <2>1. PICK e \in Endpoints : e = ep[t]
    BY <1>0, <1>7 DEF CallToQueue, RefHeld, InSyscall
  <2>2. PICK f \in Endpoints : f = Other(e) BY DEF Endpoints, Other
  <2>3. PICK x \in Txids : x = NextTxid(e, n) BY <1>0, TxidRange
  <2>4. /\ Enqueue(t, f, [id |-> written + 1, txid |-> x])
        /\ written' = written + 1 /\ UNCHANGED <<slot, received, discarded>>
    BY <1>7, <2>1, <2>2, <2>3 DEF CallToQueue
  <2>5. QED BY <2>4, AppendPlaces
<1>8. ASSUME NEW t \in Threads, NEW fits \in BOOLEAN, EndWait(t, fits) PROVE PlacesInv'
  <2>1. /\ slot' = [slot EXCEPT ![t] = NoMsg] /\ UNCHANGED <<messages, written>>
        /\ ReadOut(Held(t), fits)
    BY <1>8 DEF EndWait, Held
  <2>2. QED BY <1>0, <2>1, WaiterGives DEF ReadOut
<1>9. ASSUME NEW t \in Threads, DestroyThread(t) PROVE PlacesInv'
  <2>1. /\ slot' = [slot EXCEPT ![t] = NoMsg] /\ UNCHANGED <<messages, written>>
        /\ received' = received /\ discarded' = discarded \cup Held(t)
    BY <1>9 DEF DestroyThread, Held
  <2>2. QED BY <1>0, <2>1, WaiterGives
<1>10. ASSUME NEW t \in Threads, CallPeerClosed(t) PROVE PlacesInv'
  <2>1. slot[t] = NoMsg BY <1>10, WaiterIsEmpty DEF CallPeerClosed
  <2>2. Still BY <1>0, <1>10, <2>1 DEF CallPeerClosed, TypeOK
  <2>3. QED BY <2>2, NothingMoves
<1>11. ASSUME Environment PROVE PlacesInv'
  <2>1. \/ Still
        \/ \E e \in Endpoints : Destroy(e)
        \/ \E t \in Threads : DestroyThread(t)
    BY <1>11 DEF Environment, RemoveHandle, AddHandle, OnZeroHandles, Lookup, SyscallFails,
       WaitTimesOut, WaitInterrupted, CallFinishFails, Kill, ResumeFromException
  <2>2. QED BY <1>2, <1>9, <2>1, NothingMoves
<1>12. ASSUME NEW t \in Threads, ThreadStep(t) PROVE PlacesInv'
  <2>1. CASE ReadFails(t) \/ UserSignalFails(t) \/ WriteFails(t) \/ BeginWait(t)
             \/ BeginWaitKill(t) \/ CallBadHandle(t) \/ WaitReturns(t) \/ CallFinish(t) \/ Exit(t)
    BY <2>1, NothingMoves DEF ReadFails, UserSignalFails, WriteFails, BeginWait, BeginWaitKill,
       CallBadHandle, WaitReturns, CallFinish, Exit
  <2>2. CASE \E clear, set \in SUBSET UserSignals :
               UserSignalSelf(t, clear, set) \/ UserSignalPeer(t, clear, set)
    BY <2>2, NothingMoves DEF UserSignalSelf, UserSignalPeer
  <2>3. QED
    BY <1>3, <1>4, <1>5, <1>6, <1>7, <1>8, <1>10, <1>12, <2>1, <2>2 DEF ThreadStep
<1>13. QED BY <1>1, <1>11, <1>12 DEF Next

\* Whatever interleaving of writes, reads, calls, closes and kills: a message
\* that Write or Call accepted is in exactly one queue or waiter, or has been
\* handed out once, or was dropped on purpose; none is lost or duplicated.
THEOREM MessagesAreConserved == Spec => []MessagesConserved
<1>1. Init => PlacesInv
  <2> SUFFICES ASSUME Init PROVE PlacesInv OBVIOUS
  <2>1. \A e \in Endpoints : messages[e] = <<>> BY DEF Init
  <2>2. \A e \in Endpoints : Ids(messages[e]) = {} /\ DistinctIds(messages[e])
    BY <2>1 DEF Ids, DistinctIds
  <2>3. \A t \in Threads : Held(t) = {} BY DEF Init, Held
  <2>4. written = 0 /\ received = {} /\ discarded = {} BY DEF Init
  <2>5. QED BY <2>2, <2>3, <2>4 DEF PlacesInv, Endpoints
<1>2. IInv /\ PlacesInv => MessagesConserved
  <2> SUFFICES ASSUME IInv, PlacesInv PROVE MessagesConserved OBVIOUS
  <2>1. TypeOK BY DEF IInv, TypeInv
  <2>2. UNION Places = 1 .. written
    <3>1. \A n : n \in UNION Places <=> \/ \E e \in Endpoints : n \in Ids(messages[e])
                                        \/ n \in received \cup discarded
                                        \/ \E t \in Threads : n \in Held(t)
      BY DEF Places, Held, Endpoints
    <3>2. \A e \in Endpoints : Ids(messages[e]) \subseteq Nat BY <2>1, IdsType DEF TypeOK
    <3>3. \A t \in Threads : Held(t) \subseteq Nat BY <2>1 DEF TypeOK, Held, Message
    <3>4. UNION Places \subseteq Nat BY <2>1, <3>1, <3>2, <3>3 DEF TypeOK
    <3>5. 1 .. written \subseteq Nat BY <2>1 DEF TypeOK
    <3>6. QED BY <3>1, <3>4, <3>5 DEF PlacesInv
  <2>3. ASSUME NEW t \in Threads, slot[t] # NoMsg
        PROVE  /\ slot[t].id \notin received \cup discarded
               /\ \A e \in Endpoints : slot[t].id \notin Ids(messages[e])
               /\ \A u \in Threads \ {t} : slot[u] # slot[t]
    BY <2>3 DEF PlacesInv, Held
  <2>4. QED BY <2>2, <2>3 DEF PlacesInv, MessagesConserved
<1>3. IInv /\ PlacesInv /\ [Next]_vars => PlacesInv' BY PlacesNext
<1>4. QED BY Invariant, <1>1, <1>2, <1>3, PTL DEF Spec
=============================================================================
