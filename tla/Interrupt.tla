----------------------------- MODULE Interrupt -----------------------------
(***************************************************************************)
(* Zircon interrupt objects: zircon/kernel/object/interrupt_dispatcher.cc, *)
(* its virtual, physical and PCI forms, and the zx_interrupt_* syscalls of *)
(* lib/syscalls/ddk.cc.                                                    *)
(*                                                                         *)
(* One InterruptDispatcher, the ports it can be bound to, the threads that *)
(* call into it and the interrupt line.  A step is one critical section of *)
(* spinlock_, or a stretch of code outside it; BindVcpu alone calls out    *)
(* while it holds the spinlock, and takes several steps.                   *)
(***************************************************************************)
EXTENDS Naturals

CONSTANTS
  Threads,     \* user threads
  Waiters,     \* the threads that use zx_interrupt_wait
  Ports,       \* ports created with ZX_PORT_BIND_TO_INTERRUPT
  FlagSets,    \* values of flags_ that the Create functions set
  Calls,       \* the syscalls that are used
  Stamps,      \* timestamps given to zx_interrupt_trigger; 1 is any but 0
  MaxEvents,   \* bound: calls and interrupts in a behaviour
  NoThread,    \* spinlock_ is free
  NoPort       \* RefPtr<PortDispatcher>(nullptr); not on a port's list

AllCalls == {"wait", "trigger", "ack", "bind", "unbind", "bind_vcpu", "mask"}

ASSUME InterruptAssumption ==
  /\ Waiters \subseteq Threads
  /\ Calls \subseteq AllCalls
  /\ Stamps \subseteq {0, 1}
  /\ MaxEvents \in Nat
  /\ NoThread \notin Threads
  /\ NoPort \notin Ports
  /\ \A f \in FlagSets : /\ f \subseteq {"VIRTUAL", "UNMASK_PREWAIT", "UNMASK_PREWAIT_UNLOCKED",
                                         "MASK_POSTWAIT"}
                         /\ "MASK_POSTWAIT" \in f => "UNMASK_PREWAIT" \in f

VARIABLES
  \* InterruptDispatcher
  flags,       \* flags_, set once by Create
  state,       \* state_
  timestamp,   \* timestamp_: 0, or 1 for any other value
  port,        \* port_dispatcher_
  vcpu,        \* InterruptEventDispatcher::vcpu_ != nullptr
  spin,        \* the thread that keeps spinlock_ across steps
  event,       \* event_, an AutounsignalEvent, is signaled
  \* Its surroundings
  inq,         \* the port whose interrupt_packets_ has port_packet_
  masked,      \* the line is masked
  handler,     \* what register_int_handler has for the line
  irq,         \* the handler that a CPU has entered, with pdev_lock
  open,        \* the object has a handle
  \* Threads
  pc,          \* where the thread is
  deferred,    \* threads whose defer_unmask is set
  \* Bound and history
  events,      \* calls and interrupts so far
  latest       \* where the latest trigger accepted is

objVars  == <<flags, state, timestamp, port, vcpu, spin, event>>
lineVars == <<masked, handler, irq>>
vars == <<objVars, inq, lineVars, open, pc, deferred, events, latest>>

States   == {"WAITING", "DESTROYED", "TRIGGERED", "NEEDACK", "IDLE"}
Handlers == {"none", "irq", "vcpu"}
PCs == AllCalls \cup
       {"user", "unmask", "sleep", "blocked", "interrupted", "ack_unmask", "unregister",
        "destroy", "vcpu_unregister", "vcpu_register", "vcpu_assign"}

(***************************************************************************)
(* The Create functions.                                                   *)
(***************************************************************************)
Init ==
  /\ flags \in FlagSets
  /\ state = "IDLE" /\ timestamp = 0 /\ port = NoPort /\ vcpu = FALSE
  /\ spin = NoThread /\ event = FALSE
  /\ inq = NoPort
  /\ masked = FALSE
  /\ handler = IF "VIRTUAL" \in flags THEN "none" ELSE "irq"
  /\ irq = "none"
  /\ open = TRUE
  /\ pc = [t \in Threads |-> "user"]
  /\ deferred = {}
  /\ events = 0
  /\ latest = "none"

-----------------------------------------------------------------------------
(* Helpers.                                                                *)

Bound   == port # NoPort
Virtual == "VIRTUAL" \in flags

\* The base class's answer: no subclass overrides it, not even the one that has
\* a vcpu_.
HasVcpu == FALSE

Goto(t, l) == pc' = [pc EXCEPT ![t] = l]

\* spinlock_ can be taken.
SpinIgnored == TRUE
SpinFree == spin = NoThread

\* The lock under which the platform calls the handler, and replaces it.
PlatformIgnored == TRUE
PlatformFree == irq = "none"

\* MaskInterrupt and UnmaskInterrupt: VirtualInterruptDispatcher's do nothing.
Mask   == masked' = ~Virtual
Unmask == masked' = FALSE

\* INTERRUPT_UNMASK_PREWAIT_UNLOCKED, the PCI form: unmask without the spinlock.
Defers == "UNMASK_PREWAIT_UNLOCKED" \in flags

\* The PCI bus driver has the IRQ's lock from the entry of the handler to its
\* end, and takes it to mask and to unmask.
LineFree == Defers => irq = "none"

\* Event::Signal on an auto-unsignaling event, by a caller who moves nobody.
Signal ==
  LET sleeping == {t \in Threads : pc[t] = "blocked"} IN
  \/ /\ event \/ sleeping = {}
     /\ event' = TRUE
     /\ UNCHANGED pc
  \/ /\ ~event
     /\ \E w \in sleeping : Goto(w, "wait")
     /\ UNCHANGED event

\* The same, by thread t on its way back to user mode.
ReturnOnly(t) == Goto(t, "user") /\ UNCHANGED event
SignalAndReturn(t) ==
  LET sleeping == {w \in Threads : pc[w] = "blocked"} IN
  \/ /\ event \/ sleeping = {}
     /\ event' = TRUE
     /\ Goto(t, "user")
  \/ /\ ~event
     /\ \E w \in sleeping : pc' = [pc EXCEPT ![t] = "user", ![w] = "wait"]
     /\ UNCHANGED event

\* QueueInterruptPacket for port p: a packet that is on a list stays there.
SendPacket(p) ==
  /\ inq' = IF inq = NoPort THEN p ELSE inq
  /\ timestamp' = 0
  /\ latest' = "packet"

\* SendPacketLocked masks the line.
MaskPostWait == IF "MASK_POSTWAIT" \in flags THEN Mask ELSE UNCHANGED masked

\* RemoveInterruptPacket.
PacketLeft == inq
PacketRemoved == NoPort
RemovePacket ==
  /\ inq' = PacketRemoved
  /\ latest' = IF latest = "packet" THEN "dropped" ELSE latest

\* if (!timestamp_) timestamp_ = s;
AddedStamp(s) == timestamp + s
FirstStamp(s) == IF timestamp = 0 THEN s ELSE timestamp

\* A trigger that finds the interrupt bound and not yet acknowledged.
HeldBack == state = "NEEDACK" /\ Bound

-----------------------------------------------------------------------------
(* Syscalls: the handle is looked up, then the method runs.                *)

\* "mask" is the first step of Destroy.
Lookup(t, op) ==
  /\ pc[t] = "user" /\ open
  /\ op \in Calls /\ (op = "wait" => t \in Waiters)
  /\ events < MaxEvents /\ events' = events + 1
  /\ Goto(t, op)
  /\ UNCHANGED <<objVars, inq, lineVars, open, deferred, latest>>

\* The last handle is closed: on_zero_handles calls Destroy.
CloseHandle(t) ==
  /\ pc[t] = "user" /\ open
  /\ open' = FALSE
  /\ Goto(t, "mask")
  /\ UNCHANGED <<objVars, inq, lineVars, deferred, events, latest>>

-----------------------------------------------------------------------------
(* WaitForInterrupt.                                                       *)

\* The loop's error returns.  The last is the switch's default: the state is
\* WAITING already.
WaitFails(t) ==
  /\ pc[t] = "wait" /\ SpinFree
  /\ Bound \/ HasVcpu \/ state \in {"DESTROYED", "WAITING"}
  /\ Goto(t, "user")
  /\ deferred' = deferred \ {t}
  /\ UNCHANGED <<objVars, inq, lineVars, open, events, latest>>

WaitTriggered(t) ==
  /\ pc[t] = "wait" /\ SpinFree
  /\ ~Bound /\ ~HasVcpu /\ state = "TRIGGERED"
  /\ state' = "NEEDACK" /\ timestamp' = 0 /\ event' = FALSE
  /\ latest' = "reported"
  /\ Goto(t, "user")
  /\ deferred' = deferred \ {t}
  /\ UNCHANGED <<flags, port, vcpu, spin, inq, lineVars, open, events>>

\* Unmask under the spinlock, or leave it for after.
NoUnmask == UNCHANGED masked
UnmaskPreWait == IF "UNMASK_PREWAIT" \in flags THEN Unmask ELSE UNCHANGED masked

WaitBegins(t) ==
  /\ pc[t] = "wait" /\ SpinFree
  /\ ~Bound /\ ~HasVcpu /\ state \in {"NEEDACK", "IDLE"}
  /\ state' = "WAITING"
  /\ IF state = "NEEDACK" THEN UnmaskPreWait ELSE UNCHANGED masked
  /\ deferred' = IF state = "NEEDACK" /\ Defers THEN deferred \cup {t} ELSE deferred
  /\ Goto(t, IF t \in deferred' THEN "unmask" ELSE "sleep")
  /\ UNCHANGED <<flags, timestamp, port, vcpu, spin, event, inq, handler, irq, open,
                 events, latest>>

\* if (defer_unmask) UnmaskInterrupt();
DeferredUnmask(t) ==
  /\ pc[t] = "unmask" /\ LineFree
  /\ Unmask
  /\ Goto(t, "sleep")
  /\ UNCHANGED <<objVars, inq, handler, irq, open, deferred, events, latest>>

\* Event::Wait: fall through a signaled event, or block.
EventWait(t) ==
  /\ pc[t] = "sleep"
  /\ Goto(t, IF event THEN "wait" ELSE "blocked")
  /\ event' = FALSE
  /\ UNCHANGED <<flags, state, timestamp, port, vcpu, spin, inq, lineVars, open,
                 deferred, events, latest>>

\* The thread is suspended or killed.
WaitInterrupted(t) ==
  /\ pc[t] = "blocked" \/ (pc[t] = "sleep" /\ ~event)
  /\ Goto(t, "interrupted")
  /\ UNCHANGED <<objVars, inq, lineVars, open, deferred, events, latest>>

AlwaysIdle == "IDLE"
BackToIdle == IF state = "WAITING" THEN "IDLE" ELSE state

WaitAborted(t) ==
  /\ pc[t] = "interrupted" /\ SpinFree
  /\ state' = BackToIdle
  /\ Goto(t, "user")
  /\ deferred' = deferred \ {t}
  /\ UNCHANGED <<flags, timestamp, port, vcpu, spin, event, inq, lineVars, open, events,
                 latest>>

-----------------------------------------------------------------------------
(* Trigger.                                                                *)

\* ZX_ERR_BAD_STATE of a physical interrupt, ZX_ERR_CANCELED of a destroyed one.
TriggerFails(t, s) ==
  /\ pc[t] = "trigger" /\ SpinFree
  /\ ~Virtual \/ state = "DESTROYED"
  /\ timestamp' = IF Virtual THEN FirstStamp(s) ELSE timestamp
  /\ Goto(t, "user")
  /\ UNCHANGED <<flags, state, port, vcpu, spin, event, inq, lineVars, open, deferred,
                 events, latest>>

\* Recorded until the ack.
TriggerHeld(t, s) ==
  /\ pc[t] = "trigger" /\ SpinFree
  /\ Virtual /\ HeldBack
  /\ timestamp' = FirstStamp(s)
  /\ latest' = "pending"
  /\ Goto(t, "user")
  /\ UNCHANGED <<flags, state, port, vcpu, spin, event, inq, lineVars, open, deferred,
                 events>>

TriggerPacket(t) ==
  /\ pc[t] = "trigger" /\ SpinFree
  /\ Virtual /\ Bound /\ state \notin {"NEEDACK", "DESTROYED"}
  /\ SendPacket(port) /\ MaskPostWait
  /\ state' = "NEEDACK"
  /\ Goto(t, "user")
  /\ UNCHANGED <<flags, port, vcpu, spin, event, handler, irq, open, deferred, events>>

TriggerEvent(t, s) ==
  /\ pc[t] = "trigger" /\ SpinFree
  /\ Virtual /\ ~Bound /\ state # "DESTROYED"
  /\ timestamp' = FirstStamp(s)
  /\ latest' = "pending"
  /\ SignalAndReturn(t)
  /\ state' = "TRIGGERED"
  /\ UNCHANGED <<flags, port, vcpu, spin, inq, lineVars, open, deferred, events>>

-----------------------------------------------------------------------------
(* The interrupt line and InterruptHandler.                                *)

\* The platform code takes its lock and calls the handler it finds.  The PCI bus
\* driver masks the line first and, by IrqThunk's answer, leaves it masked.
IrqEnter ==
  /\ irq = "none" /\ handler # "none" /\ ~masked
  /\ events < MaxEvents /\ events' = events + 1
  /\ irq' = handler
  /\ masked' = Defers
  /\ UNCHANGED <<objVars, inq, handler, open, pc, deferred, latest>>

\* Recorded until the ack.
IrqHeld ==
  /\ irq = "irq" /\ SpinFree
  /\ HeldBack
  /\ timestamp' = FirstStamp(1)
  /\ latest' = "pending"
  /\ irq' = "none"
  /\ UNCHANGED <<flags, state, port, vcpu, spin, event, inq, masked, handler, open, pc,
                 deferred, events>>

IrqPacket ==
  /\ irq = "irq" /\ SpinFree
  /\ Bound /\ state # "NEEDACK"
  /\ SendPacket(port) /\ MaskPostWait
  /\ state' = "NEEDACK"
  /\ irq' = "none"
  /\ UNCHANGED <<flags, port, vcpu, spin, event, handler, open, pc, deferred, events>>

IrqEvent ==
  /\ irq = "irq" /\ SpinFree
  /\ ~Bound
  /\ timestamp' = FirstStamp(1)
  /\ latest' = "pending"
  /\ MaskPostWait
  /\ Signal
  /\ state' = "TRIGGERED"
  /\ irq' = "none"
  /\ UNCHANGED <<flags, port, vcpu, spin, inq, handler, open, deferred, events>>

\* VcpuInterruptHandler: vcpu_->PhysicalInterrupt(vector_).
VcpuIrq ==
  /\ irq = "vcpu" /\ SpinFree
  /\ irq' = "none"
  /\ UNCHANGED <<objVars, inq, masked, handler, open, pc, deferred, events, latest>>

-----------------------------------------------------------------------------
(* Destroy.                                                                *)

DestroyMasks(t) ==
  /\ pc[t] = "mask" /\ LineFree
  /\ Mask
  /\ Goto(t, "unregister")
  /\ UNCHANGED <<objVars, inq, handler, irq, open, deferred, events, latest>>

\* register_int_handler(vector_, nullptr, nullptr) takes the platform's lock.
StaysRegistered == handler
Unregistered == "none"
DestroyUnregisters(t) ==
  /\ pc[t] = "unregister" /\ PlatformFree
  /\ handler' = Unregistered
  /\ Goto(t, "destroy")
  /\ UNCHANGED <<objVars, inq, masked, irq, open, deferred, events, latest>>

\* Bound to a port: port_dispatcher_ is kept, and a state other than these too.
DestroyBound(t) ==
  /\ pc[t] = "destroy" /\ SpinFree
  /\ Bound
  /\ RemovePacket
  /\ state' = IF state \in {"NEEDACK", "IDLE"} THEN "DESTROYED" ELSE state
  /\ Goto(t, "user")
  /\ UNCHANGED <<flags, timestamp, port, vcpu, spin, event, lineVars, open, deferred, events>>

DestroyUnbound(t) ==
  /\ pc[t] = "destroy" /\ SpinFree
  /\ ~Bound
  /\ state' = "DESTROYED"
  /\ SignalAndReturn(t)
  /\ UNCHANGED <<flags, timestamp, port, vcpu, spin, inq, lineVars, open, deferred, events,
                 latest>>

-----------------------------------------------------------------------------
(* Bind and Unbind.                                                        *)

BindsWaiting == state = "DESTROYED" \/ Bound
CannotBind ==
  \/ state \in {"DESTROYED", "WAITING"}
  \/ Bound \/ HasVcpu
  \/ Defers /\ "MASK_POSTWAIT" \in flags

BindFails(t) ==
  /\ pc[t] = "bind" /\ SpinFree
  /\ CannotBind
  /\ Goto(t, "user")
  /\ UNCHANGED <<objVars, inq, lineVars, open, deferred, events, latest>>

\* A TRIGGERED interrupt sends its packet; event_ stays signaled.
Bind(t, p) ==
  /\ pc[t] = "bind" /\ SpinFree
  /\ ~CannotBind
  /\ port' = p
  /\ IF state = "TRIGGERED"
     THEN SendPacket(p) /\ MaskPostWait /\ state' = "NEEDACK"
     ELSE UNCHANGED <<inq, timestamp, latest, masked, state>>
  /\ Goto(t, "user")
  /\ UNCHANGED <<flags, vcpu, spin, event, handler, irq, open, deferred, events>>

UnbindFails(t, p) ==
  /\ pc[t] = "unbind" /\ SpinFree
  /\ port # p \/ state = "DESTROYED"
  /\ Goto(t, "user")
  /\ UNCHANGED <<objVars, inq, lineVars, open, deferred, events, latest>>

Unbind(t, p) ==
  /\ pc[t] = "unbind" /\ SpinFree
  /\ port = p /\ state # "DESTROYED"
  /\ RemovePacket
  /\ port' = NoPort
  /\ Goto(t, "user")
  /\ UNCHANGED <<flags, state, timestamp, vcpu, spin, event, lineVars, open, deferred, events>>

-----------------------------------------------------------------------------
(* Ack.                                                                    *)

\* Not bound, destroyed, or nothing to acknowledge.
AckNothing(t) ==
  /\ pc[t] = "ack" /\ SpinFree
  /\ ~Bound \/ state # "NEEDACK"
  /\ Goto(t, "user")
  /\ UNCHANGED <<objVars, inq, lineVars, open, deferred, events, latest>>

\* The line's state at the end of Ack's critical section, with and without the
\* SendPacketLocked that masks it again.
AckRearms(sent) ==
  masked' = CASE sent /\ "MASK_POSTWAIT" \in flags -> ~Virtual
              [] "UNMASK_PREWAIT" \in flags -> FALSE
              [] OTHER -> masked

\* No trigger since: IDLE.
AckIdle(t) ==
  /\ pc[t] = "ack" /\ SpinFree
  /\ Bound /\ state = "NEEDACK" /\ timestamp = 0
  /\ AckRearms(FALSE)
  /\ state' = "IDLE"
  /\ Goto(t, IF Defers THEN "ack_unmask" ELSE "user")
  /\ UNCHANGED <<flags, timestamp, port, vcpu, spin, event, inq, handler, irq, open,
                 deferred, events, latest>>

\* The trigger that was held back is sent.  When the packet before it is still
\* queued the return skips the deferred unmask.
AckSends(t) ==
  /\ pc[t] = "ack" /\ SpinFree
  /\ Bound /\ state = "NEEDACK" /\ timestamp # 0
  /\ AckRearms(TRUE)
  /\ SendPacket(port)
  /\ Goto(t, IF Defers /\ inq = NoPort THEN "ack_unmask" ELSE "user")
  /\ UNCHANGED <<flags, state, port, vcpu, spin, event, handler, irq, open, deferred, events>>

AckUnmasks(t) ==
  /\ pc[t] = "ack_unmask" /\ LineFree
  /\ Unmask
  /\ Goto(t, "user")
  /\ UNCHANGED <<objVars, inq, handler, irq, open, deferred, events, latest>>

-----------------------------------------------------------------------------
(* InterruptEventDispatcher::BindVcpu, the others' is not supported.       *)

CannotBindVcpu ==
  Virtual \/ Defers \/ state \in {"DESTROYED", "WAITING"} \/ Bound \/ vcpu

BindVcpuFails(t) ==
  /\ pc[t] = "bind_vcpu" /\ SpinFree
  /\ CannotBindVcpu
  /\ Goto(t, "user")
  /\ UNCHANGED <<objVars, inq, lineVars, open, deferred, events, latest>>

\* The spinlock is held from here to VcpuAssigned.
BindVcpu(t) ==
  /\ pc[t] = "bind_vcpu" /\ SpinFree
  /\ ~CannotBindVcpu
  /\ spin' = t
  /\ Mask
  /\ Goto(t, "vcpu_unregister")
  /\ UNCHANGED <<flags, state, timestamp, port, vcpu, event, inq, handler, irq, open,
                 deferred, events, latest>>

VcpuUnregisters(t) ==
  /\ pc[t] = "vcpu_unregister" /\ PlatformFree
  /\ handler' = "none"
  /\ Goto(t, "vcpu_register")
  /\ UNCHANGED <<objVars, inq, masked, irq, open, deferred, events, latest>>

\* register_int_handler fails when another object has taken the vector.
VcpuRegisters(t) ==
  /\ pc[t] = "vcpu_register" /\ PlatformFree
  /\ handler' = "vcpu"
  /\ Unmask
  /\ Goto(t, "vcpu_assign")
  /\ UNCHANGED <<objVars, inq, irq, open, deferred, events, latest>>

VcpuNotRegistered(t) ==
  /\ pc[t] = "vcpu_register" /\ PlatformFree
  /\ Unmask
  /\ spin' = NoThread
  /\ Goto(t, "user")
  /\ UNCHANGED <<flags, state, timestamp, port, vcpu, event, inq, handler, irq, open,
                 deferred, events, latest>>

VcpuAssigned(t) ==
  /\ pc[t] = "vcpu_assign"
  /\ vcpu' = TRUE
  /\ spin' = NoThread
  /\ Goto(t, "user")
  /\ UNCHANGED <<flags, state, timestamp, port, event, inq, lineVars, open, deferred,
                 events, latest>>

-----------------------------------------------------------------------------
(* A reader of the port takes the packet.                                  *)
Dequeue ==
  /\ inq # NoPort
  /\ inq' = NoPort
  /\ latest' = IF latest = "packet" THEN "reported" ELSE latest
  /\ UNCHANGED <<objVars, lineVars, open, pc, deferred, events>>

-----------------------------------------------------------------------------
WaitStep(t) ==
  \/ WaitFails(t) \/ WaitTriggered(t) \/ WaitBegins(t) \/ DeferredUnmask(t)
  \/ EventWait(t) \/ WaitInterrupted(t) \/ WaitAborted(t)

TriggerStep(t) ==
  \/ TriggerPacket(t)
  \/ \E s \in Stamps : TriggerFails(t, s) \/ TriggerHeld(t, s) \/ TriggerEvent(t, s)

DestroyStep(t) ==
  DestroyMasks(t) \/ DestroyUnregisters(t) \/ DestroyBound(t) \/ DestroyUnbound(t)

BindStep(t) ==
  \/ BindFails(t)
  \/ \E p \in Ports : Bind(t, p) \/ UnbindFails(t, p) \/ Unbind(t, p)

AckStep(t) == AckNothing(t) \/ AckIdle(t) \/ AckSends(t) \/ AckUnmasks(t)

BindVcpuStep(t) ==
  \/ BindVcpuFails(t) \/ BindVcpu(t) \/ VcpuUnregisters(t)
  \/ VcpuRegisters(t) \/ VcpuNotRegistered(t) \/ VcpuAssigned(t)

IrqStep == IrqEnter \/ IrqHeld \/ IrqPacket \/ IrqEvent \/ VcpuIrq

Next ==
  \/ IrqStep
  \/ Dequeue
  \/ \E t \in Threads :
       \/ \E op \in Calls : Lookup(t, op)
       \/ CloseHandle(t)
       \/ WaitStep(t) \/ TriggerStep(t) \/ DestroyStep(t) \/ BindStep(t) \/ AckStep(t)
       \/ BindVcpuStep(t)

Spec == Init /\ [][Next]_vars

-----------------------------------------------------------------------------
(* Properties.                                                             *)

\* The values the members of InterruptDispatcher, the line and the threads take.
TypeOK ==
  /\ flags \in FlagSets
  /\ state \in States
  /\ timestamp \in {0, 1}
  /\ port \in Ports \cup {NoPort}
  /\ vcpu \in BOOLEAN
  /\ spin \in Threads \cup {NoThread}
  /\ event \in BOOLEAN
  /\ inq \in Ports \cup {NoPort}
  /\ masked \in BOOLEAN
  /\ handler \in Handlers
  /\ irq \in Handlers
  /\ open \in BOOLEAN
  /\ pc \in [Threads -> PCs]
  /\ deferred \subseteq Threads
  /\ events \in 0..MaxEvents
  /\ latest \in {"none", "pending", "packet", "reported", "dropped"}

\* port_packet_ is on the list of the bound port only, and a destroyed interrupt
\* has it on no list: the port's raw pointer never outlives the binding.
QueuedMeansBound == inq # NoPort => port = inq /\ state # "DESTROYED"

\* WAITING and TRIGGERED are states of an unbound interrupt: Destroy of a bound
\* one relies on finding no others than IDLE, NEEDACK and DESTROYED.
BoundNeverWaits == Bound => state \in {"IDLE", "NEEDACK", "DESTROYED"}

\* Nothing leaves DESTROYED, though InterruptHandler never tests for it: Destroy
\* takes the handler off the line before it changes the state.
DestroyedIsFinal == [][state = "DESTROYED" => state' = "DESTROYED"]_vars

\* A masked line is one that somebody will unmask: the interrupt is reported or
\* to be reported and not acknowledged, or a call is about to unmask it, or it
\* is being destroyed.
MaskedMeansPending ==
  masked => \/ state \in {"TRIGGERED", "NEEDACK", "DESTROYED"}
            \/ irq # "none"
            \/ \E t \in Threads : pc[t] \in {"unmask", "ack_unmask", "unregister", "destroy",
                                            "vcpu_unregister", "vcpu_register"}

\* The latest trigger accepted can still be seen: by the next wait, by the next
\* ack, or in the port's queue.
NoLostTrigger ==
  /\ latest = "pending" => \/ state \in {"TRIGGERED", "DESTROYED"}
                           \/ HeldBack /\ timestamp # 0
  /\ latest = "packet" => inq # NoPort

\* The only waiter does not sleep through a trigger or a Destroy: event_ is
\* signaled for the one that is about to sleep.
WakeupNotLost ==
  state \in {"TRIGGERED", "DESTROYED"} =>
    \A t \in Waiters : pc[t] # "blocked" /\ (pc[t] \in {"unmask", "sleep"} => event)

\* After Destroy no thread is left blocked in zx_interrupt_wait.
WaitIsAborted == state = "DESTROYED" => \A t \in Threads : pc[t] # "blocked"

\* The last reference is gone: no handle, and no call has one.
Freed == ~open /\ \A t \in Threads : pc[t] = "user"

\* A freed interrupt has no handler on the line, no CPU in it and no packet on a
\* port's list.
NothingOutlives == Freed => handler = "none" /\ irq = "none" /\ inq = NoPort

\* VcpuInterruptHandler finds a vcpu_, though its registration comes before the
\* assignment.
PhysicalInterruptHasVcpu == [][irq = "vcpu" /\ irq' = "none" => vcpu]_vars

\* Once the interrupt belongs to a VCPU, the host's handler is neither on the line
\* nor running.
VcpuTakesOver == vcpu => handler # "irq" /\ irq # "irq"

\* No thread has spinlock_ and waits for the platform's lock while a CPU has that
\* lock and waits for spinlock_.
NoLockCycle == \A t \in Threads : pc[t] = "vcpu_unregister" => irq = "none"
=============================================================================
