---------------------------- MODULE InterruptsA64 ----------------------------
(***************************************************************************)
(* Exceptions, the GIC driver and the generic timer on arm64               *)
(* (arch/arm64/exceptions.S, interrupts.c, timer.c, platform/virt/gic.c),  *)
(* on the one core that entry.S does not park.  boot_main calls            *)
(* interrupts_init and gic_init; its timer_init is commented out.  The     *)
(* model lets the kernel call it, and the other operations of the two      *)
(* drivers, at any time after boot.                                        *)
(*                                                                         *)
(* An exception is taken between two steps of the kernel.  It masks the    *)
(* others until eret, so that the driver is interrupted by nothing; only   *)
(* time passes under it, until it reads the interrupt id.  A call of a     *)
(* driver is one step: none of them is interrupted half way here.          *)
(***************************************************************************)
EXTENDS Integers, FiniteSets

CONSTANTS
  TIMER_IRQ_ID,
  OtherIrqs,       \* some other interrupts that the distributor knows
  SPURIOUS,        \* what GICC_IAR reads when nothing is pending: 1023
  NULL,
  MaxTicks         \* bound: timer interrupts

Irqs == OtherIrqs \cup {TIMER_IRQ_ID}

VARIABLES
  pc,              \* what the core executes; "wild": code it was not meant to reach
  exc, type,       \* the exception taken, and exc_type as the handler gets it
  daif,            \* are exceptions masked?
  gic_on,          \* both control registers and the priority mask are set
  enabled, active, \* the distributor's state for each interrupt
  gicc_iar, gic_handlers,
  ctl,             \* cntp_ctl_el0: the bits "enable" and "imask" that are set
  expired,         \* the count of cntp_tval_el0 has run out
  global_ticks

gicVars   == <<gic_on, enabled, active, gicc_iar, gic_handlers>>
timerVars == <<ctl, expired, global_ticks>>
vars == <<pc, exc, type, daif, gic_on, enabled, active, gicc_iar, gic_handlers,
          ctl, expired, global_ticks>>

Init ==
  /\ pc = "interrupts_init"
  /\ exc = NULL /\ type = NULL
  /\ daif = TRUE
  /\ gic_on = FALSE /\ enabled = {} /\ active = {}
  /\ gicc_iar = NULL /\ gic_handlers = {}
  /\ ctl = {} /\ expired = FALSE /\ global_ticks = 0

----------------------------------------------------------------------------
(* Boot.                                                                   *)

\* vbar is set, and enable_exceptions clears all of daif.
interrupts_init ==
  /\ pc = "interrupts_init"
  /\ daif' = FALSE
  /\ pc' = "gic_init"
  /\ UNCHANGED <<exc, type, gicVars, timerVars>>

\* The final interrupts_enable(true, false) clears a bit that daif does not have.
gic_init ==
  /\ pc = "gic_init"
  /\ gic_on' = TRUE
  /\ pc' = "run"
  /\ UNCHANGED <<exc, type, daif, enabled, active, gicc_iar, gic_handlers, timerVars>>

----------------------------------------------------------------------------
(* The operations of the drivers.                                          *)

Calls == pc = "run" /\ UNCHANGED <<pc, exc, type, daif, gic_on, active, gicc_iar, global_ticks>>

gic_register_interrupt_handler(irq) == gic_handlers' = gic_handlers \cup {irq}
gic_enable_interrupt(irq)  == enabled' = enabled \cup {irq}
gic_disable_interrupt(irq) == enabled' = enabled \ {irq}

\* It writes to the registers that enable.
gic_disable_interrupts == enabled' = Irqs

timer_unmask  == ctl' = ctl \ {"imask"}
timer_mask    == ctl' = ctl \cup {"imask"}
timer_enable  == ctl' = ctl \cup {"enable"}
timer_disable == ctl' = ctl \ {"enable"}

GicCall ==
  /\ Calls
  /\ \/ \E irq \in Irqs : gic_enable_interrupt(irq) \/ gic_disable_interrupt(irq)
     \/ gic_disable_interrupts
  /\ UNCHANGED <<gic_handlers, ctl, expired>>

TimerCall ==
  /\ Calls
  /\ timer_unmask \/ timer_mask \/ timer_enable \/ timer_disable
  /\ UNCHANGED <<enabled, gic_handlers, expired>>

\* The handler, the distributor, the first count, and the timer switched on.
timer_init ==
  /\ Calls
  /\ gic_register_interrupt_handler(TIMER_IRQ_ID)
  /\ gic_enable_interrupt(TIMER_IRQ_ID)
  /\ expired' = FALSE
  /\ ctl' = {"enable"}

----------------------------------------------------------------------------
(* The core and its vector table.                                          *)

\* The lines that ask for an interrupt; of the sources only the timer is modelled.
Lines == IF ctl = {"enable"} /\ expired THEN {TIMER_IRQ_ID} ELSE {}
Pending == IF gic_on THEN (Lines \cap enabled) \ active ELSE {}

Expire ==
  /\ pc # "wild" /\ pc # "halted"
  /\ global_ticks < MaxTicks
  /\ ~expired /\ "enable" \in ctl
  /\ expired' = TRUE
  /\ UNCHANGED <<pc, exc, type, daif, gicVars, ctl, global_ticks>>

\* Byte offsets at which the core enters the table, by what happened.
Offset == [sync |-> 512, irq |-> 640, fiq |-> 768, serror |-> 896]

\* EXC_TYPE_SYNC, EXC_TYPE_IRQ, EXC_TYPE_FIQ and EXC_TYPE_SERR.
ExcType == [sync |-> 1, irq |-> 2, fiq |-> 3, serror |-> 4]

\* The macro's 40 instructions of 4 bytes, aligned to the next multiple of 128.
VectorInstrs == 40
VectorStride == 128 * ((VectorInstrs * 4 + 127) \div 128)

\* The n-th use of the macro has the types 1 to 4 in turn.
VectorType(n) == (n % 4) + 1

\* At the start of an entry the registers are saved and the handler is called.
\* Elsewhere the core runs what is there: in the middle of the macro it restores
\* registers that nobody saved and moves sp.
Take(kind) ==
  /\ exc' = kind
  /\ IF Offset[kind] % VectorStride = 0
     THEN /\ type' = VectorType(Offset[kind] \div VectorStride)
          /\ pc' = "interrupt_exception_handler"
          /\ daif' = TRUE
     ELSE /\ pc' = "wild"
          /\ UNCHANGED <<type, daif>>
  /\ UNCHANGED <<gicVars, timerVars>>

\* Neither interrupt group is routed to FIQ: GIC_FIQEN is never set.
Interrupt == pc = "run" /\ ~daif /\ Pending # {} /\ Take("irq")
Fault     == pc = "run" /\ (Take("sync") \/ Take("serror"))

eret ==
  /\ pc' = "run"
  /\ exc' = NULL /\ type' = NULL
  /\ daif' = FALSE

----------------------------------------------------------------------------
(* The handlers.                                                           *)

interrupt_exception_handler ==
  /\ pc = "interrupt_exception_handler"
  /\ \/ type = 3 /\ pc' = "gic_interrupt_ack" /\ UNCHANGED <<exc, type, daif>>
     \/ type = 4 /\ pc' = "halted" /\ UNCHANGED <<exc, type, daif>>
     \/ type \notin {3, 4} /\ eret
  /\ UNCHANGED <<gicVars, timerVars>>

\* Reading GICC_IAR makes the interrupt active.
gic_interrupt_ack ==
  /\ pc = "gic_interrupt_ack"
  /\ gicc_iar' = IF Pending = {} THEN SPURIOUS ELSE CHOOSE irq \in Pending : TRUE
  /\ active' = active \cup (Pending \cap {gicc_iar'})
  /\ pc' = "gic_handle_interrupts"
  /\ UNCHANGED <<exc, type, daif, gic_on, enabled, gic_handlers, timerVars>>

\* Ends the interrupt whose id was read; nothing happens for SPURIOUS.
gic_eoi == active' = active \ {gicc_iar}

\* No writes to cntp_ctl_el0 follow that unmask the timer.
timer_handler ==
  /\ timer_mask
  /\ global_ticks' = global_ticks + 1
  /\ expired' = FALSE

gic_handle_interrupts ==
  /\ pc = "gic_handle_interrupts"
  /\ gic_eoi
  /\ \/ gicc_iar = SPURIOUS /\ eret /\ UNCHANGED timerVars
     \/ gicc_iar \in gic_handlers /\ timer_handler /\ eret
     \/ /\ gicc_iar \notin gic_handlers \cup {SPURIOUS}
        /\ pc' = "halted"
        /\ UNCHANGED <<exc, type, daif, timerVars>>
  /\ UNCHANGED <<gic_on, enabled, gicc_iar, gic_handlers>>

Next ==
  \/ interrupts_init
  \/ gic_init
  \/ GicCall
  \/ TimerCall
  \/ timer_init
  \/ Expire
  \/ Interrupt
  \/ Fault
  \/ interrupt_exception_handler
  \/ gic_interrupt_ack
  \/ gic_handle_interrupts

Spec == Init /\ [][Next]_vars

----------------------------------------------------------------------------
(* Properties.                                                             *)

\* Every exception reaches its own entry of the vector table, whose entries are
\* 128 bytes apart ("128 byte alignment macro", exceptions.S), and so the handler
\* that its EXC_TYPE stands for.
ReachesItsEntry == exc # NULL => pc # "wild" /\ type = ExcType[exc]
=============================================================================
