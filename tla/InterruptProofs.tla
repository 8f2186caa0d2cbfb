-------------------------- MODULE InterruptProofs --------------------------
(***************************************************************************)
(* Proofs about Interrupt, for any number of threads and ports, every set  *)
(* of flags and any bound on the calls.                                    *)
(***************************************************************************)
EXTENDS Interrupt, TLAPS

\* The handler that a CPU is in is the one on the line, and the host's handler
\* never comes back once it is taken off.
LineInv ==
  /\ irq # "none" => irq = handler
  /\ state = "DESTROYED" => handler # "irq"
  /\ vcpu => handler # "irq"
  /\ \A t \in Threads :
       pc[t] \in {"destroy", "vcpu_register", "vcpu_assign"} => handler # "irq"

\* The thread inside BindVcpu has spinlock_, and VcpuIrqHandler is on the line
\* only with a vcpu_ or while that thread is about to assign it.
SpinInv ==
  /\ \A t \in Threads :
       pc[t] \in {"vcpu_unregister", "vcpu_register", "vcpu_assign"} => spin = t
  /\ handler = "vcpu" => vcpu \/ \E t \in Threads : pc[t] = "vcpu_assign"

\* The inductive invariant.
Inv  == BoundNeverWaits /\ QueuedMeansBound /\ LineInv /\ SpinInv
IInv == TypeOK /\ Inv

-----------------------------------------------------------------------------
(* Every step keeps the types.                                             *)
LEMMA TypeStep == TypeOK /\ [Next]_vars => TypeOK'
<1> SUFFICES ASSUME TypeOK, [Next]_vars PROVE TypeOK' OBVIOUS
<1> USE InterruptAssumption DEF TypeOK, States, Handlers, PCs, AllCalls, objVars, lineVars
<1>1. CASE IrqStep
  <2>1. CASE IrqEnter
    BY <2>1 DEF IrqEnter, Defers
  <2>2. CASE IrqHeld
    BY <2>2 DEF IrqHeld, FirstStamp
  <2>3. CASE IrqPacket
    BY <2>3 DEF IrqPacket, SendPacket, MaskPostWait, Mask, Virtual
  <2>4. CASE IrqEvent
    <3>1. pc' \in [Threads -> PCs] BY <2>4 DEF IrqEvent, Signal, Goto
    <3>2. event' \in BOOLEAN BY <2>4 DEF IrqEvent, Signal
    <3>3. masked' \in BOOLEAN BY <2>4 DEF IrqEvent, MaskPostWait, Mask
    <3>4. timestamp' \in {0, 1} BY <2>4 DEF IrqEvent, FirstStamp
    <3>5. QED BY <2>4, <3>1, <3>2, <3>3, <3>4 DEF IrqEvent
  <2>5. CASE VcpuIrq
    BY <2>5 DEF VcpuIrq
  <2>6. QED BY <1>1, <2>1, <2>2, <2>3, <2>4, <2>5 DEF IrqStep
<1>2. CASE Dequeue
  BY <1>2 DEF Dequeue
<1>3. ASSUME NEW t \in Threads, NEW op \in Calls, Lookup(t, op) PROVE TypeOK'
  BY <1>3 DEF Lookup, Goto
<1>4. ASSUME NEW t \in Threads, CloseHandle(t) PROVE TypeOK'
  <2>1. pc' \in [Threads -> PCs] BY <1>4 DEF CloseHandle, Goto
  <2>2. open' \in BOOLEAN BY <1>4 DEF CloseHandle
  <2>3. QED BY <1>4, <2>1, <2>2 DEF CloseHandle
<1>5. ASSUME NEW t \in Threads, WaitStep(t) PROVE TypeOK'
  <2>1. CASE WaitFails(t)
    BY <2>1 DEF WaitFails, Goto
  <2>2. CASE WaitTriggered(t)
    BY <2>2 DEF WaitTriggered, Goto
  <2>3. CASE WaitBegins(t)
    <3>1. pc' \in [Threads -> PCs] BY <2>3 DEF WaitBegins, Goto
    <3>2. masked' \in BOOLEAN BY <2>3 DEF WaitBegins, UnmaskPreWait, Unmask
    <3>3. deferred' \subseteq Threads BY <2>3 DEF WaitBegins
    <3>4. QED BY <2>3, <3>1, <3>2, <3>3 DEF WaitBegins
  <2>4. CASE DeferredUnmask(t)
    <3>1. pc' \in [Threads -> PCs] BY <2>4 DEF DeferredUnmask, Goto
    <3>2. masked' \in BOOLEAN BY <2>4 DEF DeferredUnmask, Unmask
    <3>3. QED BY <2>4, <3>1, <3>2 DEF DeferredUnmask
  <2>5. CASE EventWait(t)
    <3>1. pc' \in [Threads -> PCs] BY <2>5 DEF EventWait, Goto
    <3>2. event' \in BOOLEAN BY <2>5 DEF EventWait
    <3>3. QED BY <2>5, <3>1, <3>2 DEF EventWait
  <2>6. CASE WaitInterrupted(t)
    BY <2>6 DEF WaitInterrupted, Goto
  <2>7. CASE WaitAborted(t)
    BY <2>7 DEF WaitAborted, Goto, BackToIdle
  <2>8. QED BY <1>5, <2>1, <2>2, <2>3, <2>4, <2>5, <2>6, <2>7 DEF WaitStep
<1>6. ASSUME NEW t \in Threads, TriggerStep(t) PROVE TypeOK'
  <2>1. CASE TriggerPacket(t)
    BY <2>1 DEF TriggerPacket, Goto, SendPacket, MaskPostWait, Mask, Virtual
  <2>2. CASE \E s \in Stamps : TriggerFails(t, s)
    BY <2>2 DEF TriggerFails, Goto, FirstStamp
  <2>3. CASE \E s \in Stamps : TriggerHeld(t, s)
    BY <2>3 DEF TriggerHeld, Goto, FirstStamp
  <2>4. CASE \E s \in Stamps : TriggerEvent(t, s)
    <3>1. pc' \in [Threads -> PCs] BY <2>4 DEF TriggerEvent, SignalAndReturn, Goto
    <3>2. event' \in BOOLEAN BY <2>4 DEF TriggerEvent, SignalAndReturn
    <3>3. timestamp' \in {0, 1} BY <2>4 DEF TriggerEvent, FirstStamp
    <3>4. QED BY <2>4, <3>1, <3>2, <3>3 DEF TriggerEvent
  <2>5. QED BY <1>6, <2>1, <2>2, <2>3, <2>4 DEF TriggerStep
<1>7. ASSUME NEW t \in Threads, DestroyStep(t) PROVE TypeOK'
  <2>1. CASE DestroyMasks(t)
    BY <2>1 DEF DestroyMasks, Goto, Mask, Virtual
  <2>2. CASE DestroyUnregisters(t)
    BY <2>2 DEF DestroyUnregisters, Goto, Unregistered
  <2>3. CASE DestroyBound(t)
    BY <2>3 DEF DestroyBound, Goto, RemovePacket, PacketRemoved
  <2>4. CASE DestroyUnbound(t)
    <3>1. pc' \in [Threads -> PCs] BY <2>4 DEF DestroyUnbound, SignalAndReturn, Goto
    <3>2. event' \in BOOLEAN BY <2>4 DEF DestroyUnbound, SignalAndReturn
    <3>3. QED BY <2>4, <3>1, <3>2 DEF DestroyUnbound
  <2>5. QED BY <1>7, <2>1, <2>2, <2>3, <2>4 DEF DestroyStep
<1>8. ASSUME NEW t \in Threads, BindStep(t) PROVE TypeOK'
  <2>1. CASE BindFails(t)
    BY <2>1 DEF BindFails, Goto
  <2>2. CASE \E p \in Ports : Bind(t, p)
    <3>1. pc' \in [Threads -> PCs] BY <2>2 DEF Bind, Goto
    <3>2. masked' \in BOOLEAN BY <2>2 DEF Bind, MaskPostWait, Mask, SendPacket
    <3>3. port' \in Ports /\ inq' \in Ports \cup {NoPort} BY <2>2 DEF Bind, SendPacket
    <3>4. state' \in States /\ timestamp' \in {0, 1} BY <2>2 DEF Bind, SendPacket
    <3>5. QED BY <2>2, <3>1, <3>2, <3>3, <3>4 DEF Bind, SendPacket
  <2>3. CASE \E p \in Ports : UnbindFails(t, p)
    BY <2>3 DEF UnbindFails, Goto
  <2>4. CASE \E p \in Ports : Unbind(t, p)
    BY <2>4 DEF Unbind, Goto, RemovePacket, PacketRemoved
  <2>5. QED BY <1>8, <2>1, <2>2, <2>3, <2>4 DEF BindStep
<1>9. ASSUME NEW t \in Threads, AckStep(t) PROVE TypeOK'
  <2>1. CASE AckNothing(t)
    BY <2>1 DEF AckNothing, Goto
  <2>2. CASE AckIdle(t)
    <3>1. pc' \in [Threads -> PCs] BY <2>2 DEF AckIdle, Goto
    <3>2. masked' \in BOOLEAN BY <2>2 DEF AckIdle, AckRearms
    <3>3. QED BY <2>2, <3>1, <3>2 DEF AckIdle
  <2>3. CASE AckSends(t)
    BY <2>3 DEF AckSends, Goto, AckRearms, SendPacket, Virtual
  <2>4. CASE AckUnmasks(t)
    <3>1. pc' \in [Threads -> PCs] BY <2>4 DEF AckUnmasks, Goto
    <3>2. masked' \in BOOLEAN BY <2>4 DEF AckUnmasks, Unmask
    <3>3. QED BY <2>4, <3>1, <3>2 DEF AckUnmasks
  <2>5. QED BY <1>9, <2>1, <2>2, <2>3, <2>4 DEF AckStep
<1>10. ASSUME NEW t \in Threads, BindVcpuStep(t) PROVE TypeOK'
  <2>1. CASE BindVcpuFails(t)
    BY <2>1 DEF BindVcpuFails, Goto
  <2>2. CASE BindVcpu(t)
    BY <2>2 DEF BindVcpu, Goto, Mask, Virtual
  <2>3. CASE VcpuUnregisters(t)
    BY <2>3 DEF VcpuUnregisters, Goto
  <2>4. CASE VcpuRegisters(t)
    <3>1. pc' \in [Threads -> PCs] BY <2>4 DEF VcpuRegisters, Goto
    <3>2. masked' \in BOOLEAN BY <2>4 DEF VcpuRegisters, Unmask
    <3>3. QED BY <2>4, <3>1, <3>2 DEF VcpuRegisters
  <2>5. CASE VcpuNotRegistered(t)
    <3>1. pc' \in [Threads -> PCs] BY <2>5 DEF VcpuNotRegistered, Goto
    <3>2. masked' \in BOOLEAN BY <2>5 DEF VcpuNotRegistered, Unmask
    <3>3. QED BY <2>5, <3>1, <3>2 DEF VcpuNotRegistered
  <2>6. CASE VcpuAssigned(t)
    BY <2>6 DEF VcpuAssigned, Goto
  <2>7. QED BY <1>10, <2>1, <2>2, <2>3, <2>4, <2>5, <2>6 DEF BindVcpuStep
<1>11. CASE UNCHANGED vars BY <1>11 DEF vars
<1>12. QED BY <1>1, <1>2, <1>3, <1>4, <1>5, <1>6, <1>7, <1>8, <1>9, <1>10, <1>11 DEF Next

-----------------------------------------------------------------------------
(* Every step keeps the rest of the inductive invariant.                   *)
LEMMA InvStep == IInv /\ [Next]_vars => Inv'
<1> SUFFICES ASSUME TypeOK, Inv, [Next]_vars PROVE Inv' BY DEF IInv
<1> USE InterruptAssumption
    DEF Inv, BoundNeverWaits, QueuedMeansBound, LineInv, SpinInv, Bound, TypeOK, objVars,
        lineVars
<1>1. CASE IrqStep
  <2>1. CASE IrqEnter
    BY <2>1 DEF IrqEnter
  <2>2. CASE IrqHeld
    BY <2>2 DEF IrqHeld
  <2>3. CASE IrqPacket
    BY <2>3 DEF IrqPacket, SendPacket
  <2>4. CASE IrqEvent
    BY <2>4 DEF IrqEvent, Signal, Goto
  <2>5. CASE VcpuIrq
    BY <2>5 DEF VcpuIrq
  <2>6. QED BY <1>1, <2>1, <2>2, <2>3, <2>4, <2>5 DEF IrqStep
<1>2. CASE Dequeue
  BY <1>2 DEF Dequeue
<1>3. ASSUME NEW t \in Threads, NEW op \in Calls, Lookup(t, op) PROVE Inv'
  BY <1>3 DEF Lookup, Goto, AllCalls
<1>4. ASSUME NEW t \in Threads, CloseHandle(t) PROVE Inv'
  BY <1>4 DEF CloseHandle, Goto
<1>5. ASSUME NEW t \in Threads, WaitStep(t) PROVE Inv'
  <2>1. CASE WaitFails(t)
    BY <2>1 DEF WaitFails, Goto
  <2>2. CASE WaitTriggered(t)
    BY <2>2 DEF WaitTriggered, Goto
  <2>3. CASE WaitBegins(t)
    BY <2>3 DEF WaitBegins, Goto
  <2>4. CASE DeferredUnmask(t)
    BY <2>4 DEF DeferredUnmask, Goto
  <2>5. CASE EventWait(t)
    BY <2>5 DEF EventWait, Goto
  <2>6. CASE WaitInterrupted(t)
    BY <2>6 DEF WaitInterrupted, Goto
  <2>7. CASE WaitAborted(t)
    BY <2>7 DEF WaitAborted, Goto, BackToIdle
  <2>8. QED BY <1>5, <2>1, <2>2, <2>3, <2>4, <2>5, <2>6, <2>7 DEF WaitStep
<1>6. ASSUME NEW t \in Threads, TriggerStep(t) PROVE Inv'
  <2>1. CASE TriggerPacket(t)
    BY <2>1 DEF TriggerPacket, Goto, SendPacket
  <2>2. CASE \E s \in Stamps : TriggerFails(t, s)
    BY <2>2 DEF TriggerFails, Goto
  <2>3. CASE \E s \in Stamps : TriggerHeld(t, s)
    BY <2>3 DEF TriggerHeld, Goto
  <2>4. CASE \E s \in Stamps : TriggerEvent(t, s)
    BY <2>4 DEF TriggerEvent, SignalAndReturn, Goto
  <2>5. QED BY <1>6, <2>1, <2>2, <2>3, <2>4 DEF TriggerStep
<1>7. ASSUME NEW t \in Threads, DestroyStep(t) PROVE Inv'
  <2>1. CASE DestroyMasks(t)
    BY <2>1 DEF DestroyMasks, Goto
  <2>2. CASE DestroyUnregisters(t)
    BY <2>2 DEF DestroyUnregisters, Goto, Unregistered, PlatformFree
  <2>3. CASE DestroyBound(t)
    BY <2>3 DEF DestroyBound, Goto, RemovePacket, PacketRemoved
  <2>4. CASE DestroyUnbound(t)
    BY <2>4 DEF DestroyUnbound, SignalAndReturn, Goto
  <2>5. QED BY <1>7, <2>1, <2>2, <2>3, <2>4 DEF DestroyStep
<1>8. ASSUME NEW t \in Threads, BindStep(t) PROVE Inv'
  <2>1. CASE BindFails(t)
    BY <2>1 DEF BindFails, Goto
  <2>2. CASE \E p \in Ports : Bind(t, p)
    <3>1. BoundNeverWaits' BY <2>2 DEF Bind, CannotBind, States
    <3>2. QueuedMeansBound' BY <2>2 DEF Bind, CannotBind, SendPacket
    <3>3. LineInv' BY <2>2 DEF Bind, Goto, CannotBind
    <3>4. SpinInv' BY <2>2 DEF Bind, Goto
    <3>5. QED BY <3>1, <3>2, <3>3, <3>4
  <2>3. CASE \E p \in Ports : UnbindFails(t, p)
    BY <2>3 DEF UnbindFails, Goto
  <2>4. CASE \E p \in Ports : Unbind(t, p)
    BY <2>4 DEF Unbind, Goto, RemovePacket, PacketRemoved
  <2>5. QED BY <1>8, <2>1, <2>2, <2>3, <2>4 DEF BindStep
<1>9. ASSUME NEW t \in Threads, AckStep(t) PROVE Inv'
  <2>1. CASE AckNothing(t)
    BY <2>1 DEF AckNothing, Goto
  <2>2. CASE AckIdle(t)
    BY <2>2 DEF AckIdle, Goto
  <2>3. CASE AckSends(t)
    BY <2>3 DEF AckSends, Goto, SendPacket
  <2>4. CASE AckUnmasks(t)
    BY <2>4 DEF AckUnmasks, Goto
  <2>5. QED BY <1>9, <2>1, <2>2, <2>3, <2>4 DEF AckStep
<1>10. ASSUME NEW t \in Threads, BindVcpuStep(t) PROVE Inv'
  <2>1. CASE BindVcpuFails(t)
    BY <2>1 DEF BindVcpuFails, Goto
  <2>2. CASE BindVcpu(t)
    BY <2>2 DEF BindVcpu, Goto, SpinFree, CannotBindVcpu
  <2>3. CASE VcpuUnregisters(t)
    BY <2>3 DEF VcpuUnregisters, Goto, PlatformFree
  <2>4. CASE VcpuRegisters(t)
    BY <2>4 DEF VcpuRegisters, Goto, PlatformFree
  <2>5. CASE VcpuNotRegistered(t)
    BY <2>5 DEF VcpuNotRegistered, Goto
  <2>6. CASE VcpuAssigned(t)
    BY <2>6 DEF VcpuAssigned, Goto
  <2>7. QED BY <1>10, <2>1, <2>2, <2>3, <2>4, <2>5, <2>6 DEF BindVcpuStep
<1>11. CASE UNCHANGED vars BY <1>11 DEF vars
<1>12. QED BY <1>1, <1>2, <1>3, <1>4, <1>5, <1>6, <1>7, <1>8, <1>9, <1>10, <1>11 DEF Next

-----------------------------------------------------------------------------
(* Theorems.                                                               *)

LEMMA InductiveInvariant == Spec => []IInv
<1>1. Init => IInv
  <2>1. Init => TypeOK
    <3>1. Init => {vcpu, event, masked, open} \subseteq BOOLEAN BY DEF Init
    <3>2. QED BY <3>1, InterruptAssumption DEF Init, TypeOK, States, Handlers, PCs
  <2>2. Init => Inv
    BY DEF Init, Inv, BoundNeverWaits, QueuedMeansBound, LineInv, SpinInv, Bound
  <2>3. QED BY <2>1, <2>2 DEF IInv
<1>2. IInv /\ [Next]_vars => IInv' BY TypeStep, InvStep DEF IInv
<1>3. QED BY <1>1, <1>2, PTL DEF Spec

\* The members of InterruptDispatcher, the line and the threads keep their types.
THEOREM TypeCorrect == Spec => []TypeOK
<1>1. IInv => TypeOK BY DEF IInv
<1>2. QED BY <1>1, InductiveInvariant, PTL

\* However many threads bind, unbind, trigger, ack and destroy: the packet is only
\* ever on the list of the port the interrupt is bound to, and gone from it once
\* the interrupt is DESTROYED.
THEOREM PacketSafe == Spec => []QueuedMeansBound
<1>1. IInv => QueuedMeansBound BY DEF IInv, Inv
<1>2. QED BY <1>1, InductiveInvariant, PTL

\* Destroy and the port path never meet a bound interrupt that is WAITING or
\* TRIGGERED.
THEOREM BoundStates == Spec => []BoundNeverWaits
<1>1. IInv => BoundNeverWaits BY DEF IInv, Inv
<1>2. QED BY <1>1, InductiveInvariant, PTL

\* BindVcpu takes the line from the host's handler for good.
THEOREM VcpuOwnsLine == Spec => []VcpuTakesOver
<1>1. IInv => VcpuTakesOver BY DEF IInv, Inv, LineInv, VcpuTakesOver
<1>2. QED BY <1>1, InductiveInvariant, PTL

\* Whatever races with Destroy, no step brings a DESTROYED interrupt back, above
\* all not InterruptHandler, which does not look.
THEOREM DestroyedStays == Spec => DestroyedIsFinal
<1>1. IInv /\ [Next]_vars => [state = "DESTROYED" => state' = "DESTROYED"]_vars
  <2> SUFFICES ASSUME TypeOK, LineInv, Next, state = "DESTROYED" PROVE state' = "DESTROYED"
    BY DEF IInv, Inv
  <2> USE DEF objVars, lineVars
  <2>1. CASE IrqStep
    <3>1. irq # "irq" BY DEF LineInv
    <3>2. QED BY <2>1, <3>1 DEF IrqStep, IrqEnter, IrqHeld, IrqPacket, IrqEvent, VcpuIrq
  <2>2. CASE Dequeue BY <2>2 DEF Dequeue
  <2>3. ASSUME NEW t \in Threads,
               (\E op \in Calls : Lookup(t, op)) \/ CloseHandle(t) \/ WaitStep(t)
        PROVE  state' = "DESTROYED"
    BY <2>3 DEF Lookup, CloseHandle, WaitStep, WaitFails, WaitTriggered, WaitBegins,
                DeferredUnmask, EventWait, WaitInterrupted, WaitAborted, BackToIdle
  <2>4. ASSUME NEW t \in Threads, TriggerStep(t) \/ DestroyStep(t)
        PROVE  state' = "DESTROYED"
    BY <2>4 DEF TriggerStep, TriggerFails, TriggerHeld, TriggerPacket, TriggerEvent,
                HeldBack, DestroyStep, DestroyMasks, DestroyUnregisters, DestroyBound,
                DestroyUnbound
  <2>5. ASSUME NEW t \in Threads, BindStep(t) \/ AckStep(t) \/ BindVcpuStep(t)
        PROVE  state' = "DESTROYED"
    BY <2>5 DEF BindStep, BindFails, Bind, CannotBind, UnbindFails, Unbind, AckStep,
                AckNothing, AckIdle, AckSends, AckUnmasks, BindVcpuStep, BindVcpuFails,
                BindVcpu, VcpuUnregisters, VcpuRegisters, VcpuNotRegistered, VcpuAssigned
  <2>6. QED BY <2>1, <2>2, <2>3, <2>4, <2>5 DEF Next
<1>2. QED BY <1>1, InductiveInvariant, PTL DEF Spec, DestroyedIsFinal

\* The guest's VCPU is there whenever VcpuInterruptHandler runs: the spinlock that
\* BindVcpu keeps is what orders the registration and the assignment.
THEOREM VcpuPresent == Spec => PhysicalInterruptHasVcpu
<1>1. IInv /\ [Next]_vars => [irq = "vcpu" /\ irq' = "none" => vcpu]_vars
  <2> SUFFICES ASSUME TypeOK, LineInv, SpinInv, Next, irq = "vcpu", irq' = "none" PROVE vcpu
    BY DEF IInv, Inv
  <2>1. handler = "vcpu" BY DEF LineInv
  <2>2. VcpuIrq
    <3> USE DEF lineVars
    <3>1. ~Dequeue BY DEF Dequeue
    <3>2. ASSUME NEW t \in Threads
          PROVE  /\ ~\E op \in Calls : Lookup(t, op)
                 /\ ~CloseHandle(t) /\ ~WaitStep(t) /\ ~TriggerStep(t)
      BY DEF Lookup, CloseHandle, WaitStep, WaitFails, WaitTriggered, WaitBegins,
             DeferredUnmask, EventWait, WaitInterrupted, WaitAborted, TriggerStep,
             TriggerFails, TriggerHeld, TriggerPacket, TriggerEvent
    <3>3. ASSUME NEW t \in Threads
          PROVE  ~DestroyStep(t) /\ ~BindStep(t) /\ ~AckStep(t) /\ ~BindVcpuStep(t)
      BY DEF DestroyStep, DestroyMasks, DestroyUnregisters, DestroyBound, DestroyUnbound,
             BindStep, BindFails, Bind, UnbindFails, Unbind, AckStep, AckNothing, AckIdle,
             AckSends, AckUnmasks, BindVcpuStep, BindVcpuFails, BindVcpu, VcpuUnregisters,
             VcpuRegisters, VcpuNotRegistered, VcpuAssigned
    <3>4. ~IrqEnter /\ ~IrqHeld /\ ~IrqPacket /\ ~IrqEvent
      BY DEF IrqEnter, IrqHeld, IrqPacket, IrqEvent
    <3>5. QED BY <3>1, <3>2, <3>3, <3>4 DEF Next, IrqStep
  <2>3. \A t \in Threads : pc[t] # "vcpu_assign"
    BY <2>2, InterruptAssumption DEF VcpuIrq, SpinFree, SpinInv
  <2>4. QED BY <2>1, <2>3 DEF SpinInv
<1>2. QED BY <1>1, InductiveInvariant, PTL DEF Spec, PhysicalInterruptHasVcpu

-----------------------------------------------------------------------------
(* Delivery.  Each theorem leaves out only the calls that it has to.       *)

\* Places inside WaitForInterrupt and inside BindVcpu.
InWait   == {"wait", "unmask", "sleep", "blocked", "interrupted"}
InBindVcpu == {"bind_vcpu", "vcpu_unregister", "vcpu_register", "vcpu_assign"}

\* A thread is inside a method only if its syscall is used, and inside
\* WaitForInterrupt only if it is a waiter.
CallInv ==
  \A t \in Threads : /\ pc[t] = "unbind" => "unbind" \in Calls
                     /\ pc[t] \in InBindVcpu => "bind_vcpu" \in Calls
                     /\ pc[t] \in InWait => t \in Waiters

\* The calls a thread is in are calls that are used.
LEMMA CallStep == TypeOK /\ CallInv /\ [Next]_vars => CallInv'
<1> SUFFICES ASSUME TypeOK, CallInv, [Next]_vars PROVE CallInv' OBVIOUS
<1> USE DEF TypeOK, CallInv, InWait, InBindVcpu, Goto
<1>1. CASE IrqStep
  BY <1>1 DEF IrqStep, IrqEnter, IrqHeld, IrqPacket, IrqEvent, Signal, VcpuIrq
<1>2. CASE Dequeue
  BY <1>2 DEF Dequeue
<1>3. ASSUME NEW t \in Threads, (\E op \in Calls : Lookup(t, op)) \/ CloseHandle(t)
      PROVE  CallInv'
  BY <1>3, InterruptAssumption DEF Lookup, CloseHandle, AllCalls
<1>4. ASSUME NEW t \in Threads, WaitStep(t) PROVE CallInv'
  BY <1>4 DEF WaitStep, WaitFails, WaitTriggered, WaitBegins, DeferredUnmask, EventWait,
              WaitInterrupted, WaitAborted
<1>5. ASSUME NEW t \in Threads, TriggerStep(t) \/ DestroyStep(t) PROVE CallInv'
  BY <1>5 DEF TriggerStep, TriggerFails, TriggerHeld, TriggerPacket, TriggerEvent,
              SignalAndReturn, DestroyStep, DestroyMasks, DestroyUnregisters, DestroyBound,
              DestroyUnbound
<1>6. ASSUME NEW t \in Threads, BindStep(t) \/ AckStep(t) \/ BindVcpuStep(t) PROVE CallInv'
  BY <1>6 DEF BindStep, BindFails, Bind, UnbindFails, Unbind, AckStep, AckNothing, AckIdle,
              AckSends, AckUnmasks, BindVcpuStep, BindVcpuFails, BindVcpu, VcpuUnregisters,
              VcpuRegisters, VcpuNotRegistered, VcpuAssigned
<1>7. CASE UNCHANGED vars BY <1>7 DEF vars
<1>8. QED BY <1>1, <1>2, <1>3, <1>4, <1>5, <1>6, <1>7 DEF Next

\* ... at all times.
LEMMA CallsUsed == Spec => []CallInv
<1>1. Init => CallInv
  BY DEF Init, CallInv, InWait, InBindVcpu
<1>2. TypeOK /\ CallInv /\ [Next]_vars => CallInv' BY CallStep
<1>3. QED BY <1>1, <1>2, TypeCorrect, PTL DEF Spec

\* Every step keeps NoLostTrigger if nobody unbinds and no trigger has time 0.
LEMMA TriggerKept ==
  ASSUME "unbind" \notin Calls, 0 \notin Stamps, IInv, CallInv, NoLostTrigger, [Next]_vars
  PROVE  NoLostTrigger'
<1> USE InterruptAssumption
    DEF NoLostTrigger, HeldBack, Bound, objVars, lineVars, Goto, SendPacket
<1>1. TypeOK /\ BoundNeverWaits /\ LineInv /\ \A t \in Threads : pc[t] # "unbind"
  BY DEF IInv, Inv, CallInv
<1>2. CASE IrqStep
  BY <1>1, <1>2 DEF IrqStep, IrqEnter, IrqHeld, IrqPacket, IrqEvent, Signal, VcpuIrq, FirstStamp,
                    TypeOK, LineInv
<1>3. CASE Dequeue
  BY <1>3 DEF Dequeue
<1>4. ASSUME NEW t \in Threads, (\E op \in Calls : Lookup(t, op)) \/ CloseHandle(t)
      PROVE  NoLostTrigger'
  BY <1>4 DEF Lookup, CloseHandle
<1>5. ASSUME NEW t \in Threads, WaitStep(t) PROVE NoLostTrigger'
  BY <1>5 DEF WaitStep, WaitFails, WaitTriggered, WaitBegins, DeferredUnmask, EventWait,
              WaitInterrupted, WaitAborted, BackToIdle
<1>6. ASSUME NEW t \in Threads, TriggerStep(t) PROVE NoLostTrigger'
  BY <1>1, <1>6 DEF TriggerStep, TriggerFails, TriggerHeld, TriggerPacket, TriggerEvent,
              FirstStamp, TypeOK
<1>7. ASSUME NEW t \in Threads, DestroyStep(t) PROVE NoLostTrigger'
  BY <1>1, <1>7 DEF DestroyStep, DestroyMasks, DestroyUnregisters, DestroyBound,
              DestroyUnbound, RemovePacket, PacketRemoved, BoundNeverWaits
<1>8. ASSUME NEW t \in Threads, BindStep(t) PROVE NoLostTrigger'
  BY <1>1, <1>8 DEF BindStep, BindFails, Bind, CannotBind, UnbindFails, Unbind
<1>9. ASSUME NEW t \in Threads, AckStep(t) PROVE NoLostTrigger'
  BY <1>9 DEF AckStep, AckNothing, AckIdle, AckSends, AckUnmasks
<1>10. ASSUME NEW t \in Threads, BindVcpuStep(t) PROVE NoLostTrigger'
  BY <1>10 DEF BindVcpuStep, BindVcpuFails, BindVcpu, VcpuUnregisters, VcpuRegisters,
               VcpuNotRegistered, VcpuAssigned
<1>11. CASE UNCHANGED vars BY <1>11 DEF vars
<1>12. QED BY <1>2, <1>3, <1>4, <1>5, <1>6, <1>7, <1>8, <1>9, <1>10, <1>11 DEF Next

\* Between zx_interrupt_trigger, the interrupt handler, wait, ack and Destroy no
\* trigger is dropped: it is in state_, in timestamp_ or in the port's queue.  The
\* hypotheses are the two cases in which the code does drop one: Unbind takes the
\* packet off the queue, and a timestamp of 0 means "none" to Ack.
THEOREM TriggersAreSeen ==
  ASSUME "unbind" \notin Calls, 0 \notin Stamps
  PROVE  Spec => []NoLostTrigger
<1>1. Init => NoLostTrigger
  BY DEF Init, NoLostTrigger
<1>2. IInv /\ CallInv /\ NoLostTrigger /\ [Next]_vars => NoLostTrigger'
  BY TriggerKept
<1>3. QED BY <1>1, <1>2, InductiveInvariant, CallsUsed, PTL DEF Spec

-----------------------------------------------------------------------------
\* Once the last handle is closed somebody is in Destroy until the handler is
\* off the line, and until the interrupt is DESTROYED.
ClosedInv ==
  ~open => /\ \/ handler = "none"
              \/ \E t \in Threads : pc[t] \in {"mask", "unregister"}
           /\ \/ state = "DESTROYED"
              \/ \E t \in Threads : pc[t] \in {"mask", "unregister", "destroy"}

\* Every step keeps ClosedInv, if no BindVcpu is there to put a handler back.
LEMMA ClosedKept ==
  ASSUME "bind_vcpu" \notin Calls, IInv, CallInv, ClosedInv, [Next]_vars
  PROVE  ClosedInv'
<1> USE InterruptAssumption DEF ClosedInv, objVars, lineVars, Goto
<1>1. /\ TypeOK /\ BoundNeverWaits /\ LineInv
      /\ \A t \in Threads : pc[t] \notin InBindVcpu
  BY DEF IInv, Inv, CallInv
<1>2. CASE IrqStep
  BY <1>1, <1>2 DEF IrqStep, IrqEnter, IrqHeld, IrqPacket, IrqEvent, Signal, VcpuIrq,
                    TypeOK, LineInv
<1>3. CASE Dequeue
  BY <1>3 DEF Dequeue
<1>4. ASSUME NEW t \in Threads, (\E op \in Calls : Lookup(t, op)) \/ CloseHandle(t)
      PROVE  ClosedInv'
  BY <1>1, <1>4 DEF Lookup, CloseHandle, TypeOK
<1>5. ASSUME NEW t \in Threads, WaitStep(t) PROVE ClosedInv'
  BY <1>1, <1>5 DEF WaitStep, WaitFails, WaitTriggered, WaitBegins, DeferredUnmask, EventWait,
              WaitInterrupted, WaitAborted, BackToIdle, TypeOK
<1>6. ASSUME NEW t \in Threads, TriggerStep(t) PROVE ClosedInv'
  BY <1>1, <1>6 DEF TriggerStep, TriggerFails, TriggerHeld, TriggerPacket, TriggerEvent,
              SignalAndReturn, HeldBack, TypeOK
<1>7. ASSUME NEW t \in Threads, DestroyStep(t) PROVE ClosedInv'
  <2>1. CASE DestroyMasks(t)
    BY <1>1, <2>1 DEF DestroyMasks, TypeOK
  <2>2. CASE DestroyUnregisters(t)
    BY <1>1, <2>2 DEF DestroyUnregisters, Unregistered, TypeOK
  <2>3. CASE DestroyBound(t)
    BY <1>1, <2>3 DEF DestroyBound, BoundNeverWaits, TypeOK
  <2>4. CASE DestroyUnbound(t)
    BY <1>1, <2>4 DEF DestroyUnbound, SignalAndReturn, TypeOK
  <2>5. QED BY <1>7, <2>1, <2>2, <2>3, <2>4 DEF DestroyStep
<1>8. ASSUME NEW t \in Threads, BindStep(t) PROVE ClosedInv'
  BY <1>1, <1>8 DEF BindStep, BindFails, Bind, CannotBind, UnbindFails, Unbind, TypeOK
<1>9. ASSUME NEW t \in Threads, AckStep(t) PROVE ClosedInv'
  BY <1>1, <1>9 DEF AckStep, AckNothing, AckIdle, AckSends, AckUnmasks, TypeOK
<1>10. ASSUME NEW t \in Threads, BindVcpuStep(t) PROVE ClosedInv'
  BY <1>1, <1>10 DEF BindVcpuStep, BindVcpuFails, BindVcpu, VcpuUnregisters, VcpuRegisters,
               VcpuNotRegistered, VcpuAssigned, InBindVcpu
<1>11. CASE UNCHANGED vars BY <1>11 DEF vars
<1>12. QED BY <1>2, <1>3, <1>4, <1>5, <1>6, <1>7, <1>8, <1>9, <1>10, <1>11 DEF Next

\* When the last reference goes, on_zero_handles has taken the handler off the
\* line and the packet off the port, whoever raced with it.  BindVcpu is left out:
\* its VCPU handler stays registered after Destroy.
THEOREM DestroyLeavesNothing ==
  ASSUME "bind_vcpu" \notin Calls
  PROVE  Spec => []NothingOutlives
<1>1. Init => ClosedInv
  BY DEF Init, ClosedInv
<1>2. IInv /\ CallInv /\ ClosedInv /\ [Next]_vars => ClosedInv'
  BY ClosedKept
<1>3. IInv /\ ClosedInv => NothingOutlives
  BY DEF IInv, Inv, LineInv, QueuedMeansBound, ClosedInv, NothingOutlives, Freed
<1>4. QED BY <1>1, <1>2, <1>3, InductiveInvariant, CallsUsed, PTL DEF Spec

-----------------------------------------------------------------------------
\* The waiter sleeps only while the interrupt is WAITING; once it is not, the
\* event is there for the waiter that is still on its way to sleep.
SleepInv ==
  \A t \in Threads : /\ pc[t] = "blocked" => state = "WAITING" /\ ~event
                     /\ pc[t] \in {"unmask", "sleep"} /\ state # "WAITING" => event

\* Every step of a program with a single waiter keeps SleepInv.
LEMMA SleepKept ==
  ASSUME \A t, u \in Waiters : t = u, IInv, CallInv, SleepInv, [Next]_vars
  PROVE  SleepInv'
<1> USE InterruptAssumption DEF SleepInv, objVars, lineVars, Goto
<1>1. /\ TypeOK /\ BoundNeverWaits /\ LineInv
      /\ \A t, u \in Threads : pc[t] \in InWait /\ pc[u] \in InWait => t = u
  BY DEF IInv, Inv, CallInv
<1> USE DEF InWait, TypeOK
<1>2. CASE IrqStep
  <2>1. CASE IrqEvent
    BY <1>1, <2>1 DEF IrqEvent, Signal
  <2>2. CASE ~IrqEvent
    BY <1>1, <1>2, <2>2 DEF IrqStep, IrqEnter, IrqHeld, IrqPacket, VcpuIrq, BoundNeverWaits, Bound
  <2>3. QED BY <2>1, <2>2
<1>3. CASE Dequeue
  BY <1>3 DEF Dequeue
<1>4. ASSUME NEW t \in Threads, (\E op \in Calls : Lookup(t, op)) \/ CloseHandle(t)
      PROVE  SleepInv'
  BY <1>1, <1>4 DEF Lookup, CloseHandle, AllCalls
<1>5. ASSUME NEW t \in Threads, WaitStep(t) PROVE SleepInv'
  <2>1. CASE WaitFails(t) \/ WaitTriggered(t) \/ WaitBegins(t)
    BY <1>1, <2>1 DEF WaitFails, WaitTriggered, WaitBegins
  <2>2. CASE DeferredUnmask(t) \/ EventWait(t)
    BY <1>1, <2>2 DEF DeferredUnmask, EventWait
  <2>3. CASE WaitInterrupted(t) \/ WaitAborted(t)
    BY <1>1, <2>3 DEF WaitInterrupted, WaitAborted, BackToIdle
  <2>4. QED BY <1>5, <2>1, <2>2, <2>3 DEF WaitStep
<1>6. ASSUME NEW t \in Threads, TriggerStep(t) PROVE SleepInv'
  <2>1. CASE \E s \in Stamps : TriggerEvent(t, s)
    BY <1>1, <2>1 DEF TriggerEvent, SignalAndReturn
  <2>2. CASE ~\E s \in Stamps : TriggerEvent(t, s)
    BY <1>1, <1>6, <2>2 DEF TriggerStep, TriggerFails, TriggerHeld, TriggerPacket,
                            BoundNeverWaits, Bound
  <2>3. QED BY <2>1, <2>2
<1>7. ASSUME NEW t \in Threads, DestroyStep(t) PROVE SleepInv'
  <2>1. CASE DestroyMasks(t) \/ DestroyUnregisters(t)
    BY <1>1, <2>1 DEF DestroyMasks, DestroyUnregisters
  <2>2. CASE DestroyBound(t)
    BY <1>1, <2>2 DEF DestroyBound, BoundNeverWaits, Bound
  <2>3. CASE DestroyUnbound(t)
    BY <1>1, <2>3 DEF DestroyUnbound, SignalAndReturn
  <2>4. QED BY <1>7, <2>1, <2>2, <2>3 DEF DestroyStep
<1>8. ASSUME NEW t \in Threads, BindStep(t) PROVE SleepInv'
  BY <1>1, <1>8 DEF BindStep, BindFails, Bind, CannotBind, UnbindFails, Unbind
<1>9. ASSUME NEW t \in Threads, AckStep(t) PROVE SleepInv'
  BY <1>1, <1>9 DEF AckStep, AckNothing, AckIdle, AckSends, AckUnmasks
<1>10. ASSUME NEW t \in Threads, BindVcpuStep(t) PROVE SleepInv'
  BY <1>1, <1>10 DEF BindVcpuStep, BindVcpuFails, BindVcpu, VcpuUnregisters, VcpuRegisters,
               VcpuNotRegistered, VcpuAssigned
<1>11. CASE UNCHANGED vars BY <1>11 DEF vars
<1>12. QED BY <1>2, <1>3, <1>4, <1>5, <1>6, <1>7, <1>8, <1>9, <1>10, <1>11 DEF Next

\* The Unsignal that WaitForInterrupt does under the spinlock before it sleeps does
\* not swallow a Signal: a single waiter misses neither a trigger nor Destroy.
\* (zx_interrupt_wait is for one thread at a time; event_ wakes only one.)
THEOREM WaiterIsWoken ==
  ASSUME \A t, u \in Waiters : t = u
  PROVE  Spec => []WakeupNotLost
<1>1. Init => SleepInv
  BY DEF Init, SleepInv
<1>2. IInv /\ CallInv /\ SleepInv /\ [Next]_vars => SleepInv'
  BY SleepKept
<1>3. SleepInv => WakeupNotLost
  BY InterruptAssumption DEF SleepInv, WakeupNotLost
<1>4. QED BY <1>1, <1>2, <1>3, InductiveInvariant, CallsUsed, PTL DEF Spec

-----------------------------------------------------------------------------
\* Destroy is under way, or BindVcpu has not yet unmasked the line.
Retiring ==
  \E t \in Threads : pc[t] \in {"unregister", "destroy", "vcpu_unregister", "vcpu_register"}

\* Why the line is masked, with the cases apart in which wait and ack unmask it.
MaskInv ==
  /\ masked => \/ state \in {"TRIGGERED", "NEEDACK", "DESTROYED"}
               \/ irq # "none" /\ Defers
               \/ \E t \in Threads : pc[t] \in {"unmask", "ack_unmask"}
               \/ Retiring
  /\ masked /\ ~Defers /\ "UNMASK_PREWAIT" \notin flags => state = "DESTROYED" \/ Retiring
  /\ irq = "vcpu" \/ handler = "vcpu" => ~Defers
  /\ \A t \in Threads : pc[t] \in InBindVcpu \ {"bind_vcpu"} => ~Defers

\* Every step keeps MaskInv.
LEMMA MaskKept ==
  ASSUME IInv, MaskInv, [Next]_vars
  PROVE  MaskInv'
<1> USE InterruptAssumption DEF MaskInv, Retiring, objVars, lineVars, Goto, InBindVcpu, Defers
<1>1. /\ TypeOK /\ BoundNeverWaits /\ LineInv
  BY DEF IInv, Inv
<1> USE DEF TypeOK
<1>2. CASE IrqStep
  <2>1. CASE IrqEnter
    BY <1>1, <2>1 DEF IrqEnter
  <2>2. CASE IrqEvent
    BY <1>1, <2>2 DEF IrqEvent, Signal, MaskPostWait, Mask, Virtual, LineInv
  <2>3. CASE IrqHeld
    BY <1>1, <2>3 DEF IrqHeld, HeldBack
  <2>4. CASE IrqPacket
    BY <1>1, <2>4 DEF IrqPacket, MaskPostWait, Mask, Virtual, LineInv, SendPacket
  <2>5. CASE VcpuIrq
    BY <1>1, <2>5 DEF VcpuIrq
  <2>6. QED BY <1>2, <2>1, <2>2, <2>3, <2>4, <2>5 DEF IrqStep
<1>3. CASE Dequeue
  BY <1>3 DEF Dequeue
<1>4. ASSUME NEW t \in Threads, (\E op \in Calls : Lookup(t, op)) \/ CloseHandle(t)
      PROVE  MaskInv'
  BY <1>1, <1>4 DEF Lookup, CloseHandle, AllCalls
<1>5. ASSUME NEW t \in Threads, WaitStep(t) PROVE MaskInv'
  <2>1. CASE WaitFails(t) \/ WaitTriggered(t)
    BY <1>1, <2>1 DEF WaitFails, WaitTriggered
  <2>2. CASE WaitBegins(t)
    BY <1>1, <2>2 DEF WaitBegins, UnmaskPreWait, Unmask
  <2>3. CASE DeferredUnmask(t) \/ EventWait(t)
    BY <1>1, <2>3 DEF DeferredUnmask, EventWait, Unmask
  <2>4. CASE WaitInterrupted(t) \/ WaitAborted(t)
    BY <1>1, <2>4 DEF WaitInterrupted, WaitAborted, BackToIdle
  <2>5. QED BY <1>5, <2>1, <2>2, <2>3, <2>4 DEF WaitStep
<1>6. ASSUME NEW t \in Threads, TriggerStep(t) PROVE MaskInv'
  <2>1. CASE \E s \in Stamps : TriggerEvent(t, s)
    BY <1>1, <2>1 DEF TriggerEvent, SignalAndReturn
  <2>2. CASE \E s \in Stamps : TriggerFails(t, s) \/ TriggerHeld(t, s)
    BY <1>1, <2>2 DEF TriggerFails, TriggerHeld
  <2>3. CASE TriggerPacket(t)
    BY <1>1, <2>3 DEF TriggerPacket, MaskPostWait, Mask, Virtual
  <2>4. QED BY <1>6, <2>1, <2>2, <2>3 DEF TriggerStep
<1>7. ASSUME NEW t \in Threads, DestroyStep(t) PROVE MaskInv'
  <2>1. CASE DestroyMasks(t) \/ DestroyUnregisters(t)
    BY <1>1, <2>1 DEF DestroyMasks, DestroyUnregisters, Unregistered
  <2>2. CASE DestroyBound(t)
    BY <1>1, <2>2 DEF DestroyBound, BoundNeverWaits, Bound
  <2>3. CASE DestroyUnbound(t)
    BY <1>1, <2>3 DEF DestroyUnbound, SignalAndReturn
  <2>4. QED BY <1>7, <2>1, <2>2, <2>3 DEF DestroyStep
<1>8. ASSUME NEW t \in Threads, BindStep(t) PROVE MaskInv'
  <2>1. CASE \E p \in Ports : Bind(t, p)
    BY <1>1, <2>1 DEF Bind, CannotBind, MaskPostWait, Mask, Virtual
  <2>2. CASE BindFails(t) \/ \E p \in Ports : UnbindFails(t, p) \/ Unbind(t, p)
    BY <1>1, <2>2 DEF BindFails, UnbindFails, Unbind
  <2>3. QED BY <1>8, <2>1, <2>2 DEF BindStep
<1>9. ASSUME NEW t \in Threads, AckStep(t) PROVE MaskInv'
  <2>1. CASE AckNothing(t) \/ AckUnmasks(t)
    BY <1>1, <2>1 DEF AckNothing, AckUnmasks, Unmask
  <2>2. CASE AckIdle(t)
    BY <1>1, <2>2 DEF AckIdle, AckRearms
  <2>3. CASE AckSends(t)
    BY <1>1, <2>3 DEF AckSends, AckRearms, Virtual
  <2>4. QED BY <1>9, <2>1, <2>2, <2>3 DEF AckStep
<1>10. ASSUME NEW t \in Threads, BindVcpuStep(t) PROVE MaskInv'
  <2>1. CASE BindVcpuFails(t) \/ BindVcpu(t)
    BY <1>1, <2>1 DEF BindVcpuFails, BindVcpu, CannotBindVcpu
  <2>2. CASE VcpuUnregisters(t) \/ VcpuRegisters(t)
    BY <1>1, <2>2 DEF VcpuUnregisters, VcpuRegisters, Unmask
  <2>3. CASE VcpuNotRegistered(t) \/ VcpuAssigned(t)
    BY <1>1, <2>3 DEF VcpuNotRegistered, VcpuAssigned, Unmask
  <2>4. QED BY <1>10, <2>1, <2>2, <2>3 DEF BindVcpuStep
<1>11. CASE UNCHANGED vars BY <1>11 DEF vars
<1>12. QED BY <1>2, <1>3, <1>4, <1>5, <1>6, <1>7, <1>8, <1>9, <1>10, <1>11 DEF Next

\* A line is never left masked by MASK_POSTWAIT or by Destroy for nothing: there is
\* an interrupt to wait for or to ack, or a thread on its way to unmask or retire it.
THEOREM MaskedForAReason == Spec => []MaskedMeansPending
<1>1. Init => MaskInv
  BY DEF Init, MaskInv, InBindVcpu
<1>2. IInv /\ MaskInv /\ [Next]_vars => MaskInv'
  BY MaskKept
<1>3. MaskInv => MaskedMeansPending
  BY DEF MaskInv, Retiring, MaskedMeansPending
<1>4. QED BY <1>1, <1>2, <1>3, InductiveInvariant, PTL DEF Spec
=============================================================================
