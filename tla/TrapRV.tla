------------------------------- MODULE TrapRV -------------------------------
(***************************************************************************)
(* Traps, the timer and the switch to user mode on RISC-V                  *)
(* (arch/riscv/exceptions.S, interrupts.c, timer.c), under the program     *)
(* that boot_main, kernel_main and create_user_process run on the boot     *)
(* hart, the only one that is started.                                     *)
(*                                                                         *)
(* pc is the program's next step, the interrupted one while a trap is      *)
(* handled.  A step of the program is what the hart does between two       *)
(* points at which an interrupt makes a difference; in enter_usermode that *)
(* is one instruction or a few.  trap_vector runs with interrupts off, and *)
(* is one step up to the call of the handler and one after it.  An         *)
(* interrupt that is pending and enabled is taken before the next          *)
(* instruction, and interrupts can become pending at any time.             *)
(*                                                                         *)
(* Of the registers sp, t0, t1 and t2 are told apart, which trap_vector    *)
(* uses before it has saved them; "rest" are the others.                   *)
(***************************************************************************)
EXTENDS Integers

CONSTANTS
  PERIOD,      \* TIMER_FREQ * 100
  WaitTicks,   \* the argument of kernel_main's timer_wait
  MaxStart,    \* bound: time when the wait begins
  MaxTime      \* bound: time

ASSUME TrapAssumption ==
  /\ PERIOD \in Nat \ {0}
  /\ WaitTicks \in Nat \ {0}
  /\ MaxStart \in Nat
  /\ MaxTime \in Nat

VARIABLES
  time, stimecmp,            \* the timer: interrupt while time >= stimecmp
  ssip,                      \* sip.SSIP: another hart sent an IPI
  ssie, stie,                \* sie
  sie, spp,                  \* sstatus.SIE and sstatus.SPP
  mode,                      \* privilege, "S" or "U"
  sscratch,                  \* "zero" or the stack it points to
  satp,                      \* the page table in use, or "bare"
  sepc, scause,
  regs,
  frame,                     \* what trap_vector stored on the stack
  trap,                      \* progress of the trap; "halted" and "wedged" are final
  pc,
  global_ticks, timer_value, \* of timer.c, and timer_init's local
  end,                       \* timer_wait's local, -1 before the call
  shadow,                    \* history: regs as the program itself set them
  start, began,              \* history: time at timer_init's read, at timer_wait
  hit                        \* history: a trap struck inside enter_usermode

clockVars == <<time, ssip>>
timerVars == <<stimecmp, stie, global_ticks, timer_value, end, start, began>>
csrVars   == <<ssie, sie, spp, mode, sscratch, satp, sepc, scause>>
trapVars  == <<frame, trap, hit>>
regVars   == <<regs, shadow>>
vars == <<time, ssip, stimecmp, stie, global_ticks, timer_value, end, start, began,
          ssie, sie, spp, mode, sscratch, satp, sepc, scause, frame, trap, hit,
          regs, shadow, pc>>

RegNames == {"sp", "t0", "t1", "t2", "rest"}

\* The kernel's register file, and what a C function leaves behind.
KernelRegs == [r \in RegNames |-> IF r = "sp" THEN "kernel" ELSE r]
Clobbered  == [r \in RegNames |-> "junk"]

\* The steps of enter_usermode after which a trap is not like another one.
Window == {"eu_sepc", "eu_sp", "eu_mv", "eu_srli", "eu_or", "eu_satp", "eu_zero", "eu_sret"}

Init ==
  /\ time \in 0 .. MaxStart
  /\ stimecmp = 0 /\ stie = FALSE
  /\ ssip = FALSE /\ ssie = FALSE /\ sie = FALSE
  /\ spp \in {"S", "U"}
  /\ mode = "S" /\ sscratch = "zero" /\ satp = "bare"
  /\ sepc = "interrupts_init" /\ scause = "none"
  /\ regs = KernelRegs /\ shadow = KernelRegs
  /\ frame = [regs |-> Clobbered, base |-> "kernel", spp |-> "S", sie |-> FALSE,
              sepc |-> "interrupts_init"]
  /\ trap = "none" /\ hit = FALSE
  /\ pc = "interrupts_init"
  /\ global_ticks = 0 /\ timer_value = 0 /\ end = -1
  /\ start = 0 /\ began = 0

----------------------------------------------------------------------------
(* The hart.                                                               *)

Tick ==
  /\ time < IF end = -1 THEN MaxStart ELSE MaxTime
  /\ time' = time + 1
  /\ UNCHANGED <<ssip, timerVars, csrVars, trapVars, regVars, pc>>

\* sbi_send_ipi_all on another hart.
Ipi ==
  /\ ~ssip
  /\ ssip' = TRUE
  /\ UNCHANGED <<time, timerVars, csrVars, trapVars, regVars, pc>>

Unmasked == trap = "none" /\ (mode = "U" \/ sie)
SsiDue == Unmasked /\ ssip /\ ssie
StiDue == Unmasked /\ time >= stimecmp /\ stie

\* The next thing that happens is an instruction of the program.
Executes == trap = "none" /\ ~SsiDue /\ ~StiDue

\* Only the first instructions of the user's own page may run in user mode: no
\* other page of either table has the U bit, but for the UART's.
Fetches == mode = "U" => pc = "user" /\ satp = "user"

----------------------------------------------------------------------------
(* trap_vector.                                                            *)

FromUsermode == sscratch # "zero"

\* Mutant: the kernel's table is not installed.
TrapTable_same == satp

\* The page table in use after the first instructions.
TrapTable == IF FromUsermode /\ satp # "bare" THEN "kernel" ELSE satp

\* What the first instructions put in t1 and t2 before these are stored.
EntryRegs ==
  IF satp = "bare"
  THEN [regs EXCEPT !["t1"] = "zero"]
  ELSE [regs EXCEPT !["t1"] = "kernel", !["t2"] = "mode"]

\* Mutant: t0 is set before it is stored.
StoredRegs_late == IF FromUsermode THEN EntryRegs ELSE [regs EXCEPT !["t0"] = "zero"]

\* What is stored for each register but sp.
StoredRegs == IF FromUsermode THEN EntryRegs ELSE regs

\* The trap of the hardware, then trap_vector up to the call of the handler.
\* Under the user's table neither stack can be written from S-mode, so the
\* first store traps to itself for ever.
trap_vector(cause) ==
  /\ scause' = cause
  /\ satp' = TrapTable
  /\ hit' = (hit \/ pc \in Window)
  /\ IF TrapTable = "user"
     THEN /\ trap' = "wedged"
          /\ UNCHANGED <<frame, sscratch, sepc, sie, spp, mode, regs>>
     ELSE /\ trap' = "entry"
          /\ frame' = [regs |-> StoredRegs,
                       base |-> IF FromUsermode THEN sscratch ELSE regs["sp"],
                       spp |-> mode, sie |-> sie, sepc |-> pc]
          /\ sscratch' = "zero"
          /\ sepc' = pc
          /\ sie' = FALSE
          /\ spp' = mode
          /\ mode' = "S"
          /\ regs' = Clobbered
  /\ UNCHANGED <<clockVars, timerVars, ssie, shadow, pc>>

\* The software interrupt has the higher priority.
TakeInterrupt ==
  \/ SsiDue /\ trap_vector("SSI")
  \/ StiDue /\ ~SsiDue /\ trap_vector("STI")

\* A fault of the kernel or of the user's program, or a fetch that is not allowed.
Exception ==
  /\ Executes
  /\ pc # "interrupts_init"
  /\ trap_vector("exception")

\* Mutant: sret finds SPIE clear.
RestoredSie_not == FALSE

RestoredSie == frame.sie

\* After the handler.  `and t0, t1, t1' is 0x100 whatever sstatus holds, so that
\* control always goes to to_kernel_mode: sp is the end of the frame, and
\* neither sscratch nor satp is set for the user.  sret clears SPP.
trap_return ==
  /\ trap = "exit"
  /\ regs' = [frame.regs EXCEPT !["sp"] = frame.base]
  /\ sepc' = frame.sepc /\ pc' = frame.sepc
  /\ mode' = frame.spp /\ sie' = RestoredSie /\ spp' = "U"
  /\ trap' = "none"
  /\ UNCHANGED <<clockVars, timerVars, ssie, sscratch, satp, scause, frame, hit, shadow>>

----------------------------------------------------------------------------
(* interrupt_exception_handler and timer_handler.                          *)

\* csrc sip, whatever the cause, and the read of scause.
interrupt_exception_handler ==
  /\ trap = "entry"
  /\ ssip' = FALSE
  /\ trap' = "handler"
  /\ UNCHANGED <<time, timerVars, csrVars, frame, hit, regVars, pc>>

\* Mutant: the next interrupt is due a period from now.
NextCmp_now == time + PERIOD

NextCmp == stimecmp + PERIOD

\* Mutant: sip is cleared once the interrupt has been handled.
timer_handler_late ==
  /\ trap = "handler" /\ scause = "STI"
  /\ global_ticks' = global_ticks + 1
  /\ stimecmp' = NextCmp
  /\ ssip' = FALSE
  /\ trap' = "exit"
  /\ UNCHANGED <<time, stie, timer_value, end, start, began, csrVars, frame, hit,
                 regVars, pc>>

timer_handler ==
  /\ trap = "handler" /\ scause = "STI"
  /\ global_ticks' = global_ticks + 1
  /\ stimecmp' = NextCmp
  /\ trap' = "exit"
  /\ UNCHANGED <<clockVars, stie, timer_value, end, start, began, csrVars, frame, hit,
                 regVars, pc>>

\* An exception panics, a software interrupt halts: both with interrupts off.
halt ==
  /\ trap = "handler" /\ scause # "STI"
  /\ trap' = "halted"
  /\ UNCHANGED <<clockVars, timerVars, csrVars, frame, hit, regVars, pc>>

----------------------------------------------------------------------------
(* The program up to the switch to user mode.                              *)

\* A step of the program from one label to another.
Step(from, to) ==
  /\ pc = from /\ Executes /\ Fetches
  /\ pc' = to
  /\ UNCHANGED <<clockVars, trapVars>>

interrupts_init ==
  /\ Step("interrupts_init", "timer_init")
  /\ ssie' = TRUE /\ sie' = TRUE
  /\ UNCHANGED <<timerVars, spp, mode, sscratch, satp, sepc, scause, regVars>>

timer_init ==
  /\ Step("timer_init", "timer_set_cmp")
  /\ global_ticks' = 0
  /\ timer_value' = time + PERIOD
  /\ start' = time
  /\ UNCHANGED <<stimecmp, stie, end, began, csrVars, regVars>>

timer_set_cmp ==
  /\ Step("timer_set_cmp", "timer_enable")
  /\ stimecmp' = timer_value
  /\ UNCHANGED <<stie, global_ticks, timer_value, end, start, began, csrVars, regVars>>

timer_enable ==
  /\ Step("timer_enable", "vmm_init")
  /\ stie' = TRUE
  /\ UNCHANGED <<stimecmp, global_ticks, timer_value, end, start, began, csrVars, regVars>>

\* kernel_main: mm_init, and vmm_init which installs kernel_page_table.
vmm_init ==
  /\ Step("vmm_init", "timer_wait")
  /\ satp' = "kernel"
  /\ UNCHANGED <<timerVars, ssie, sie, spp, mode, sscratch, sepc, scause, regVars>>

\* Mutant: the tick under way counts as one.
WaitEnd_early == global_ticks + WaitTicks - 1

WaitEnd == global_ticks + WaitTicks

timer_wait ==
  /\ Step("timer_wait", "spin")
  /\ end' = WaitEnd
  /\ began' = time
  /\ UNCHANGED <<stimecmp, stie, global_ticks, timer_value, start, csrVars, regVars>>

\* The loop is left; ob_init, object_test, and create_user_process up to the
\* call of enter_usermode.
timer_wait_return ==
  /\ Step("spin", "enter_usermode")
  /\ global_ticks >= end
  /\ UNCHANGED <<timerVars, csrVars, regVars>>

----------------------------------------------------------------------------
(* enter_usermode.                                                         *)

\* A step that only computes: F on the register file.
Compute(F(_)) == regs' = F(regs) /\ shadow' = F(shadow)

enter_usermode ==
  /\ Step("enter_usermode", "eu_scratch")
  /\ spp' = "U"
  /\ UNCHANGED <<timerVars, ssie, sie, mode, sscratch, satp, sepc, scause, regVars>>

eu_scratch ==
  /\ Step("eu_scratch", "eu_sepc")
  /\ sscratch' = regs["sp"]
  /\ UNCHANGED <<timerVars, ssie, sie, spp, mode, satp, sepc, scause, regVars>>

eu_sepc ==
  /\ Step("eu_sepc", "eu_sp")
  /\ sepc' = "user"
  /\ UNCHANGED <<timerVars, ssie, sie, spp, mode, sscratch, satp, scause, regVars>>

eu_sp ==
  /\ Step("eu_sp", "eu_mv")
  /\ LET mv(rf) == [rf EXCEPT !["sp"] = "user"] IN Compute(mv)
  /\ UNCHANGED <<timerVars, csrVars>>

\* mv t1, a2: the address of the user's table.
eu_mv ==
  /\ Step("eu_mv", "eu_srli")
  /\ LET mv(rf) == [rf EXCEPT !["t1"] = "address"] IN Compute(mv)
  /\ UNCHANGED <<timerVars, csrVars>>

\* srli t1, t1, 12: its page number.
eu_srli ==
  /\ Step("eu_srli", "eu_or")
  /\ LET srli(rf) == [rf EXCEPT !["t1"] = IF @ = "address" THEN "ppn" ELSE "junk"]
     IN  Compute(srli)
  /\ UNCHANGED <<timerVars, csrVars>>

\* li, slli, or: a value for satp; one that has the mode bits keeps its value.
eu_or ==
  /\ Step("eu_or", "eu_satp")
  /\ LET or(rf) == [rf EXCEPT !["t1"] = IF @ = "ppn" THEN "user" ELSE @,
                              !["t2"] = "mode"]
     IN  Compute(or)
  /\ UNCHANGED <<timerVars, csrVars>>

\* csrw satp, t1.  With a page number that is not a table's, every fetch faults,
\* that of trap_vector too.
eu_satp ==
  /\ pc = "eu_satp" /\ Executes /\ Fetches
  /\ satp' = regs["t1"]
  /\ pc' = "eu_zero"
  /\ trap' = IF regs["t1"] = "junk" THEN "wedged" ELSE trap
  /\ UNCHANGED <<clockVars, timerVars, ssie, sie, spp, mode, sscratch, sepc, scause,
                 frame, hit, regVars>>

eu_zero ==
  /\ Step("eu_zero", "eu_sret")
  /\ LET mv(rf) == [r \in RegNames |-> IF r = "sp" THEN rf["sp"] ELSE "zero"]
     IN  Compute(mv)
  /\ UNCHANGED <<timerVars, csrVars>>

\* sret: to sepc, which a trap in between has set to the step it struck.
eu_sret ==
  /\ pc = "eu_sret" /\ Executes /\ Fetches
  /\ mode' = spp
  /\ pc' = sepc
  /\ spp' = "U"
  /\ UNCHANGED <<clockVars, timerVars, ssie, sie, sscratch, satp, sepc, scause,
                 trapVars, regVars>>

\* The user's program sets a0 and a1 and writes to the UART; its last store
\* faults (Exception).
usercode ==
  /\ Step("user", "user")
  /\ LET li(rf) == [rf EXCEPT !["rest"] = "user"] IN Compute(li)
  /\ UNCHANGED <<timerVars, csrVars>>

----------------------------------------------------------------------------

Program ==
  \/ interrupts_init
  \/ timer_init
  \/ timer_set_cmp
  \/ timer_enable
  \/ vmm_init
  \/ timer_wait
  \/ timer_wait_return
  \/ enter_usermode
  \/ eu_scratch
  \/ eu_sepc
  \/ eu_sp
  \/ eu_mv
  \/ eu_srli
  \/ eu_or
  \/ eu_satp
  \/ eu_zero
  \/ eu_sret
  \/ usercode

Handling ==
  \/ interrupt_exception_handler
  \/ timer_handler
  \/ halt
  \/ trap_return

Next == Tick \/ Ipi \/ TakeInterrupt \/ Exception \/ Handling \/ Program

Spec == Init /\ [][Next]_vars

\* Time passes, a due interrupt is taken, a trap is handled, and the program
\* goes on whenever it may.
FairSpec ==
  /\ Spec
  /\ WF_vars(Tick)
  /\ WF_vars(TakeInterrupt)
  /\ WF_vars(Handling)
  /\ WF_vars(Program)

----------------------------------------------------------------------------
(* Properties.                                                             *)

Labels == {"interrupts_init", "timer_init", "timer_set_cmp", "timer_enable", "vmm_init",
           "timer_wait", "spin", "enter_usermode", "eu_scratch", "user"} \cup Window
Stopped == trap \in {"halted", "wedged"}

\* A trap is invisible to the kernel code it strikes, up to the point where
\* enter_usermode has written sscratch: when trap_vector returns, every register,
\* the stack and the mode are as the code left them.
KernelResumes ==
  trap = "none" /\ mode = "S" /\ pc \notin Window => regs = shadow /\ sscratch = "zero"

\* Instructions of the user's program run only with the registers and the stack it
\* left.  trap_vector's way out restores neither: the program is not resumed wrongly
\* only because its page cannot be fetched under the kernel's table, which stays.
UserRunsIntact == trap = "none" /\ mode = "U" /\ Fetches => regs = shadow

\* Kernel code outside of the Window of enter_usermode, and user code that can be
\* fetched, run again after a trap with their own registers.
ResumedIntact == KernelResumes /\ UserRunsIntact

\* trap_vector can store its frame, unless some trap struck enter_usermode between
\* its csrw sscratch and its sret, where interrupts are not disabled: the trap takes
\* that for a trap from user mode and leaves sscratch at 0.
WedgedOnlyByWindow == trap = "wedged" => hit

\* global_ticks counts the periods since timer_init: it is never ahead, and while no
\* timer interrupt is due it is not behind, however late interrupts were taken.
TicksExact ==
  stie =>
    /\ global_ticks * PERIOD <= time - start
    /\ time < stimecmp => time - start < (global_ticks + 1) * PERIOD

\* timer_wait(n) returns after more than n - 1 periods, wherever in a period it began.
WaitIsLong ==
  pc \in {"enter_usermode", "eu_scratch"} \cup Window =>
    time - began > (WaitTicks - 1) * PERIOD

\* timer_wait returns, unless the hart stops for good.
WaitEnds == (pc = "spin") ~> (pc # "spin" \/ Stopped)

\* An IPI stops the hart, unless it arrives between a trap and the csrc of
\* interrupt_exception_handler, which clears it whatever the trap was.
IpiHalts == (ssip /\ trap # "entry") ~> Stopped
=============================================================================
