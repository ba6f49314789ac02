---------------------------- MODULE TrapRV_proofs ----------------------------
(***************************************************************************)
(* Proofs about TrapRV: what a trap leaves intact, when trap_vector can    *)
(* fail, and that the ticks count the time, for every period, every wait   *)
(* and every moment an interrupt strikes.                                  *)
(***************************************************************************)
EXTENDS TrapRV, TLAPS

Early == {"interrupts_init", "timer_init", "timer_set_cmp", "timer_enable"}
Later == Window \ {"eu_sepc"}
InTrap == trap \in {"entry", "handler", "exit"}

Values == {"kernel", "user", "zero", "junk", "bare", "t0", "t1", "t2", "rest",
           "address", "ppn", "mode"}
RegFile == [RegNames -> Values]
Frames == [regs : RegFile, base : Values, spp : {"S", "U"}, sie : BOOLEAN, sepc : Labels]

Types ==
  /\ time \in Nat /\ stimecmp \in Nat /\ global_ticks \in Nat /\ timer_value \in Nat
  /\ start \in Nat /\ began \in Nat /\ end \in Int
  /\ stie \in BOOLEAN /\ ssip \in BOOLEAN /\ ssie \in BOOLEAN /\ sie \in BOOLEAN
  /\ hit \in BOOLEAN
  /\ pc \in Labels /\ sepc \in Labels
  /\ spp \in {"S", "U"} /\ mode \in {"S", "U"}
  /\ trap \in {"none", "entry", "handler", "exit", "halted", "wedged"}
  /\ scause \in {"none", "SSI", "STI", "exception"}
  /\ sscratch \in Values /\ satp \in Values
  /\ regs \in RegFile /\ shadow \in RegFile
  /\ frame \in Frames

Causes == {"SSI", "STI", "exception"}

\* A trap as TakeInterrupt and Exception take it.
Strikes(cause) ==
  /\ trap_vector(cause)
  /\ trap = "none" /\ pc # "interrupts_init"
  /\ cause = "STI" => stie /\ time >= stimecmp

\* Where the program can be, and where a trap or an sret returns to.
Flow ==
  /\ InTrap => frame.sepc = pc /\ sepc = pc
  /\ pc = "interrupts_init" => trap = "none" /\ mode = "S" /\ ~sie
  /\ stie <=> pc \notin Early
  /\ pc \in Later \cup {"user"} => sepc \in Later \cup {"user"}
  /\ trap = "none" /\ mode = "U" => pc \in Later \cup {"user"}
  /\ InTrap /\ frame.spp = "U" => pc \in Later \cup {"user"}
  /\ pc = "user" => (trap = "none" => mode = "U") /\ (InTrap => frame.spp = "U")
  /\ trap = "none" /\ pc \in Window \cup {"eu_scratch"} => spp = "U"
  /\ trap = "none" /\ mode = "S" /\ pc # "interrupts_init" => sie
  /\ InTrap /\ frame.spp = "S" => frame.sie
  /\ trap = "exit" => scause = "STI"

\* stimecmp is the end of the period that global_ticks is in.
Clock ==
  /\ pc \in {"timer_set_cmp", "timer_enable"} =>
       timer_value = start + PERIOD /\ start <= time /\ global_ticks = 0
  /\ pc = "timer_enable" => stimecmp = timer_value
  /\ stie => /\ stimecmp = start + (global_ticks + 1) * PERIOD
             /\ start + global_ticks * PERIOD <= time
  /\ trap \in {"entry", "handler"} /\ scause = "STI" => stie /\ time >= stimecmp

\* While timer_wait spins, it began in the period before its first tick.
Waiting ==
  /\ pc = "spin" => began - start < (end - WaitTicks + 1) * PERIOD
  /\ WaitIsLong

\* The registers, running and stored.
Context ==
  /\ pc \notin Later \cup {"user"} => shadow = KernelRegs
  /\ pc \notin Window \cup {"user"} => satp \in {"bare", "kernel"}
  /\ pc = "eu_sepc" =>
       /\ sscratch \in {"zero", "kernel"}
       /\ trap = "none" => regs["sp"] = "kernel"
       /\ InTrap => frame.base = "kernel"
  /\ InTrap => satp # "user"
  /\ KernelResumes
  /\ InTrap /\ frame.spp = "S" /\ pc \notin Window =>
       frame.regs = shadow /\ frame.base = shadow["sp"] /\ sscratch = "zero"
  /\ trap = "none" /\ mode = "S" /\ pc \in Later /\ sepc = "user" =>
       regs["sp"] = shadow["sp"] /\ (pc = "eu_sret" => regs = shadow)
  /\ UserRunsIntact

\* Until a trap strikes enter_usermode, its registers are what it computes.
Unhit ==
  ~hit =>
    /\ pc \in Window => trap = "none" /\ mode = "S"
    /\ pc \in Later => sepc = "user"
    /\ trap = "none" /\ (pc \in Window \/ (pc = "user" /\ satp = "user")) => sscratch # "zero"
    /\ pc = "eu_srli" => regs["t1"] = "address"
    /\ pc = "eu_or" => regs["t1"] = "ppn"
    /\ pc = "eu_satp" => regs["t1"] = "user"

IInv == Types /\ Flow /\ Clock /\ Waiting /\ Context /\ Unhit /\ WedgedOnlyByWindow

\* TakeInterrupt and Exception do no more than that.
LEMMA Struck ==
  ASSUME Flow, TakeInterrupt \/ Exception
  PROVE  \E cause \in Causes : Strikes(cause)
<1>1. CASE TakeInterrupt
  <2>1. trap = "none" /\ pc # "interrupts_init"
      BY <1>1 DEF TakeInterrupt, SsiDue, StiDue, Unmasked, Flow
  <2>2. CASE SsiDue /\ trap_vector("SSI")
      BY <2>1, <2>2 DEF Strikes, Causes
  <2>3. CASE StiDue /\ trap_vector("STI")
      BY <2>1, <2>3 DEF Strikes, Causes, StiDue
  <2>4. QED
      BY <1>1, <2>2, <2>3 DEF TakeInterrupt
<1>2. CASE Exception
  <2>1. Strikes("exception")
      BY <1>2 DEF Exception, Executes, Strikes
  <2>2. QED
      BY <2>1 DEF Causes
<1>3. QED
    BY <1>1, <1>2

\* What trap_vector stores is a register file.
LEMMA StoredTyped ==
  ASSUME Types
  PROVE  /\ StoredRegs \in RegFile
         /\ Clobbered \in RegFile
<1>1. regs \in RegFile /\ "zero" \in Values /\ "kernel" \in Values /\ "mode" \in Values
    BY DEF Types, Values
<1>2. EntryRegs \in RegFile
    BY <1>1 DEF EntryRegs, RegFile
<1>3. StoredRegs \in RegFile
    BY <1>1, <1>2 DEF StoredRegs
<1>4. QED
    BY <1>3 DEF Clobbered, RegFile, Values

\* Every step keeps the types.
LEMMA TypesStep ==
  ASSUME Types, Flow, Next
  PROVE  Types'
<1>. USE DEF Types, clockVars, timerVars, csrVars, trapVars, regVars
<1>1. ASSUME NEW cause \in Causes, Strikes(cause)
      PROVE  Types'
  <2>1. TrapTable \in Values
      BY DEF TrapTable, Values
  <2>2. CASE TrapTable = "user"
      BY <1>1, <2>1, <2>2 DEF Strikes, trap_vector, Causes
  <2>3. CASE TrapTable # "user"
    <3>1. regs["sp"] \in Values /\ sscratch \in Values /\ "zero" \in Values
        BY DEF RegFile, RegNames, Values
    <3>2. frame' \in Frames
        BY <1>1, <2>3, <3>1, StoredTyped DEF Strikes, trap_vector, Frames
    <3>3. QED
        BY <1>1, <2>1, <2>3, <3>1, <3>2, StoredTyped
           DEF Strikes, trap_vector, Causes
  <2>4. QED
      BY <2>2, <2>3
<1>2. CASE Tick
    BY <1>2 DEF Tick
<1>3. CASE Ipi
    BY <1>3 DEF Ipi
<1>4. CASE interrupt_exception_handler
    BY <1>4 DEF interrupt_exception_handler
<1>5. CASE timer_handler
    BY <1>5, TrapAssumption DEF timer_handler, NextCmp
<1>6. CASE halt
    BY <1>6 DEF halt
<1>7. CASE trap_return
    BY <1>7 DEF trap_return, RestoredSie, RegFile, RegNames, Values, Frames
<1>8. CASE interrupts_init
    BY <1>8 DEF interrupts_init, Step, Executes, Fetches, Labels, Window
<1>9. CASE timer_init
    BY <1>9, TrapAssumption DEF timer_init, Step, Executes, Fetches, Labels, Window
<1>10. CASE timer_set_cmp
    BY <1>10 DEF timer_set_cmp, Step, Executes, Fetches, Labels, Window
<1>11. CASE timer_enable
    BY <1>11 DEF timer_enable, Step, Executes, Fetches, Labels, Window
<1>12. CASE vmm_init
    BY <1>12 DEF vmm_init, Step, Executes, Fetches, Labels, Window, Values
<1>13. CASE timer_wait
    BY <1>13, TrapAssumption DEF timer_wait, Step, Executes, Fetches, WaitEnd,
        Labels, Window
<1>14. CASE timer_wait_return
    BY <1>14 DEF timer_wait_return, Step, Executes, Fetches, Labels, Window
<1>15. CASE enter_usermode
    BY <1>15 DEF enter_usermode, Step, Executes, Fetches, Labels, Window
<1>16. CASE eu_scratch
    BY <1>16 DEF eu_scratch, Step, Executes, Fetches, Labels, Window, RegFile,
        RegNames, Values
<1>17. CASE eu_sepc
    BY <1>17 DEF eu_sepc, Step, Executes, Fetches, Labels, Window
<1>18. CASE eu_sp
    BY <1>18 DEF eu_sp, Step, Executes, Fetches, Compute, Labels, Window, RegFile,
        RegNames, Values
<1>19. CASE eu_mv
    BY <1>19 DEF eu_mv, Step, Executes, Fetches, Compute, Labels, Window, RegFile,
        RegNames, Values
<1>20. CASE eu_srli
    BY <1>20 DEF eu_srli, Step, Executes, Fetches, Compute, Labels, Window, RegFile,
        RegNames, Values
<1>21. CASE eu_or
    BY <1>21 DEF eu_or, Step, Executes, Fetches, Compute, Labels, Window, RegFile,
        RegNames, Values
<1>22. CASE eu_satp
    BY <1>22 DEF eu_satp, Executes, Fetches, Labels, Window, RegFile, RegNames,
        Values
<1>23. CASE eu_zero
    BY <1>23 DEF eu_zero, Step, Executes, Fetches, Compute, Labels, Window, RegFile,
        RegNames, Values
<1>24. CASE eu_sret
    BY <1>24 DEF eu_sret, Executes, Fetches, Labels, Window
<1>25. CASE usercode
    BY <1>25 DEF usercode, Step, Executes, Fetches, Compute, Labels, Window,
        RegFile, RegNames, Values
<1>26. QED
    BY <1>1, <1>2, <1>3, <1>4, <1>5, <1>6, <1>7, <1>8, <1>9, <1>10, <1>11, <1>12,
        <1>13, <1>14, <1>15, <1>16, <1>17, <1>18, <1>19, <1>20, <1>21, <1>22, <1>23,
        <1>24, <1>25, Struck DEF Next, Handling, Program

\* A trap comes back to the step it struck; sret leaves enter_usermode forwards.
LEMMA FlowStep ==
  ASSUME Types, Flow, Next
  PROVE  Flow'
<1>. USE DEF Types, Flow, InTrap, Early, Later, Window, Labels, clockVars,
    timerVars, csrVars, trapVars, regVars
<1>1. ASSUME NEW cause \in Causes, Strikes(cause)
      PROVE  Flow'
  <2>1. CASE TrapTable = "user"
      BY <1>1, <2>1 DEF Strikes, trap_vector
  <2>2. CASE TrapTable # "user"
      BY <1>1, <2>2 DEF Strikes, trap_vector
  <2>3. QED
      BY <2>1, <2>2
<1>2. CASE Tick
    BY <1>2 DEF Tick
<1>3. CASE Ipi
    BY <1>3 DEF Ipi
<1>4. CASE interrupt_exception_handler
    BY <1>4 DEF interrupt_exception_handler
<1>5. CASE timer_handler
    BY <1>5 DEF timer_handler, NextCmp
<1>6. CASE halt
    BY <1>6 DEF halt
<1>7. CASE trap_return
    BY <1>7 DEF trap_return, RestoredSie
<1>8. CASE interrupts_init
    BY <1>8 DEF interrupts_init, Step, Executes, Fetches
<1>9. CASE timer_init
    BY <1>9 DEF timer_init, Step, Executes, Fetches
<1>10. CASE timer_set_cmp
    BY <1>10 DEF timer_set_cmp, Step, Executes, Fetches
<1>11. CASE timer_enable
    BY <1>11 DEF timer_enable, Step, Executes, Fetches
<1>12. CASE vmm_init
    BY <1>12 DEF vmm_init, Step, Executes, Fetches
<1>13. CASE timer_wait
    BY <1>13 DEF timer_wait, Step, Executes, Fetches, WaitEnd
<1>14. CASE timer_wait_return
    BY <1>14 DEF timer_wait_return, Step, Executes, Fetches
<1>15. CASE enter_usermode
    BY <1>15 DEF enter_usermode, Step, Executes, Fetches
<1>16. CASE eu_scratch
    BY <1>16 DEF eu_scratch, Step, Executes, Fetches
<1>17. CASE eu_sepc
    BY <1>17 DEF eu_sepc, Step, Executes, Fetches
<1>18. CASE eu_sp
    BY <1>18 DEF eu_sp, Step, Executes, Fetches, Compute
<1>19. CASE eu_mv
    BY <1>19 DEF eu_mv, Step, Executes, Fetches, Compute
<1>20. CASE eu_srli
    BY <1>20 DEF eu_srli, Step, Executes, Fetches, Compute
<1>21. CASE eu_or
    BY <1>21 DEF eu_or, Step, Executes, Fetches, Compute
<1>22. CASE eu_satp
    BY <1>22 DEF eu_satp, Executes, Fetches
<1>23. CASE eu_zero
    BY <1>23 DEF eu_zero, Step, Executes, Fetches, Compute
<1>24. CASE eu_sret
    BY <1>24 DEF eu_sret, Executes, Fetches
<1>25. CASE usercode
    BY <1>25 DEF usercode, Step, Executes, Fetches, Compute
<1>26. QED
    BY <1>1, <1>2, <1>3, <1>4, <1>5, <1>6, <1>7, <1>8, <1>9, <1>10, <1>11, <1>12,
        <1>13, <1>14, <1>15, <1>16, <1>17, <1>18, <1>19, <1>20, <1>21, <1>22, <1>23,
        <1>24, <1>25, Struck DEF Next, Handling, Program

\* stimecmp moves on by a period with every tick.
LEMMA ClockStep ==
  ASSUME Types, Flow, Clock, Next
  PROVE  Clock'
<1>. USE DEF Types, Flow, Clock, Early, Window, Labels, clockVars, timerVars,
    csrVars, trapVars, regVars
<1>1. ASSUME NEW cause \in Causes, Strikes(cause)
      PROVE  Clock'
    BY <1>1 DEF Strikes, trap_vector
<1>2. CASE Tick
    BY <1>2, TrapAssumption DEF Tick
<1>3. CASE Ipi
    BY <1>3 DEF Ipi
<1>4. CASE interrupt_exception_handler
    BY <1>4 DEF interrupt_exception_handler
<1>5. CASE timer_handler
    BY <1>5, TrapAssumption DEF timer_handler, NextCmp
<1>6. CASE halt
    BY <1>6 DEF halt
<1>7. CASE trap_return
    BY <1>7 DEF trap_return, RestoredSie, InTrap
<1>8. CASE interrupts_init
    BY <1>8 DEF interrupts_init, Step, Executes, Fetches
<1>9. CASE timer_init
    BY <1>9, TrapAssumption DEF timer_init, Step, Executes, Fetches
<1>10. CASE timer_set_cmp
    BY <1>10, TrapAssumption DEF timer_set_cmp, Step, Executes, Fetches
<1>11. CASE timer_enable
    BY <1>11, TrapAssumption DEF timer_enable, Step, Executes, Fetches
<1>12. CASE vmm_init
    BY <1>12 DEF vmm_init, Step, Executes, Fetches
<1>13. CASE timer_wait
    BY <1>13 DEF timer_wait, Step, Executes, Fetches, WaitEnd
<1>14. CASE timer_wait_return
    BY <1>14 DEF timer_wait_return, Step, Executes, Fetches
<1>15. CASE enter_usermode
    BY <1>15 DEF enter_usermode, Step, Executes, Fetches
<1>16. CASE eu_scratch
    BY <1>16 DEF eu_scratch, Step, Executes, Fetches
<1>17. CASE eu_sepc
    BY <1>17 DEF eu_sepc, Step, Executes, Fetches
<1>18. CASE eu_sp
    BY <1>18 DEF eu_sp, Step, Executes, Fetches, Compute
<1>19. CASE eu_mv
    BY <1>19 DEF eu_mv, Step, Executes, Fetches, Compute
<1>20. CASE eu_srli
    BY <1>20 DEF eu_srli, Step, Executes, Fetches, Compute
<1>21. CASE eu_or
    BY <1>21 DEF eu_or, Step, Executes, Fetches, Compute
<1>22. CASE eu_satp
    BY <1>22 DEF eu_satp, Executes, Fetches
<1>23. CASE eu_zero
    BY <1>23 DEF eu_zero, Step, Executes, Fetches, Compute
<1>24. CASE eu_sret
    BY <1>24 DEF eu_sret, Executes, Fetches, Later
<1>25. CASE usercode
    BY <1>25 DEF usercode, Step, Executes, Fetches, Compute
<1>26. QED
    BY <1>1, <1>2, <1>3, <1>4, <1>5, <1>6, <1>7, <1>8, <1>9, <1>10, <1>11, <1>12,
        <1>13, <1>14, <1>15, <1>16, <1>17, <1>18, <1>19, <1>20, <1>21, <1>22, <1>23,
        <1>24, <1>25, Struck DEF Next, Handling, Program

\* timer_wait starts in the period before its first tick and ends after its last.
LEMMA WaitingStep ==
  ASSUME Types, Flow, Clock, Waiting, Next
  PROVE  Waiting'
<1>. USE DEF Types, Flow, Clock, Waiting, WaitIsLong, Early, Window, Labels,
    clockVars, timerVars, csrVars, trapVars, regVars
<1>1. ASSUME NEW cause \in Causes, Strikes(cause)
      PROVE  Waiting'
    BY <1>1 DEF Strikes, trap_vector
<1>2. CASE Tick
    BY <1>2, TrapAssumption DEF Tick
<1>3. CASE Ipi
    BY <1>3 DEF Ipi
<1>4. CASE interrupt_exception_handler
    BY <1>4 DEF interrupt_exception_handler
<1>5. CASE timer_handler
    BY <1>5, TrapAssumption DEF timer_handler, NextCmp
<1>6. CASE halt
    BY <1>6 DEF halt
<1>7. CASE trap_return
    BY <1>7 DEF trap_return, RestoredSie, InTrap
<1>8. CASE interrupts_init
    BY <1>8 DEF interrupts_init, Step, Executes, Fetches
<1>9. CASE timer_init
    BY <1>9 DEF timer_init, Step, Executes, Fetches
<1>10. CASE timer_set_cmp
    BY <1>10 DEF timer_set_cmp, Step, Executes, Fetches
<1>11. CASE timer_enable
    BY <1>11 DEF timer_enable, Step, Executes, Fetches
<1>12. CASE vmm_init
    BY <1>12 DEF vmm_init, Step, Executes, Fetches
<1>13. CASE timer_wait
  <2>1. stie /\ sie /\ mode = "S" /\ trap = "none"
      BY <1>13 DEF timer_wait, Step, Executes, Fetches, Flow, Early, Later, Types
  <2>2. time < stimecmp
      BY <1>13, <2>1 DEF timer_wait, Step, Executes, StiDue, Unmasked, Types
  <2>3. time - start < (global_ticks + 1) * PERIOD
      BY <2>1, <2>2, TrapAssumption DEF Clock, Types
  <2>4. end' - WaitTicks = global_ticks /\ began' = time /\ start' = start /\ pc' = "spin"
      BY <1>13, TrapAssumption DEF timer_wait, Step, WaitEnd, Types
  <2>5. QED
      BY <2>3, <2>4 DEF Waiting, WaitIsLong, Window
<1>14. CASE timer_wait_return
    BY <1>14, TrapAssumption DEF timer_wait_return, Step, Executes, Fetches
<1>15. CASE enter_usermode
    BY <1>15 DEF enter_usermode, Step, Executes, Fetches
<1>16. CASE eu_scratch
    BY <1>16 DEF eu_scratch, Step, Executes, Fetches
<1>17. CASE eu_sepc
    BY <1>17 DEF eu_sepc, Step, Executes, Fetches
<1>18. CASE eu_sp
    BY <1>18 DEF eu_sp, Step, Executes, Fetches, Compute
<1>19. CASE eu_mv
    BY <1>19 DEF eu_mv, Step, Executes, Fetches, Compute
<1>20. CASE eu_srli
    BY <1>20 DEF eu_srli, Step, Executes, Fetches, Compute
<1>21. CASE eu_or
    BY <1>21 DEF eu_or, Step, Executes, Fetches, Compute
<1>22. CASE eu_satp
    BY <1>22 DEF eu_satp, Executes, Fetches
<1>23. CASE eu_zero
    BY <1>23 DEF eu_zero, Step, Executes, Fetches, Compute
<1>24. CASE eu_sret
    BY <1>24 DEF eu_sret, Executes, Fetches, Later
<1>25. CASE usercode
    BY <1>25 DEF usercode, Step, Executes, Fetches, Compute
<1>26. QED
    BY <1>1, <1>2, <1>3, <1>4, <1>5, <1>6, <1>7, <1>8, <1>9, <1>10, <1>11, <1>12,
        <1>13, <1>14, <1>15, <1>16, <1>17, <1>18, <1>19, <1>20, <1>21, <1>22, <1>23,
        <1>24, <1>25, Struck DEF Next, Handling, Program

\* What a trap stores is what it puts back, and what it does not is not used.
LEMMA ContextStep ==
  ASSUME Types, Flow, Context, Next
  PROVE  Context'
<1>. USE DEF Types, Flow, Context, InTrap, KernelResumes, UserRunsIntact, Later,
    Window, Labels, clockVars, timerVars, csrVars, trapVars, regVars
<1>1. ASSUME NEW cause \in Causes, Strikes(cause)
      PROVE  Context'
  <2>1. CASE TrapTable = "user"
      BY <1>1, <2>1 DEF Strikes, trap_vector, Fetches, TrapTable, FromUsermode, Values
  <2>2. CASE TrapTable # "user"
      BY <1>1, <2>2 DEF Strikes, trap_vector, Fetches, TrapTable, FromUsermode, Values,
          StoredRegs, EntryRegs
  <2>3. QED
      BY <2>1, <2>2
<1>2. CASE Tick
    BY <1>2 DEF Tick, Fetches
<1>3. CASE Ipi
    BY <1>3 DEF Ipi, Fetches
<1>4. CASE interrupt_exception_handler
    BY <1>4 DEF interrupt_exception_handler
<1>5. CASE timer_handler
    BY <1>5 DEF timer_handler, NextCmp
<1>6. CASE halt
    BY <1>6 DEF halt
<1>7. CASE trap_return
    BY <1>7 DEF trap_return, RestoredSie, RegFile, RegNames, KernelRegs, Frames,
        Fetches
<1>8. CASE interrupts_init
    BY <1>8 DEF interrupts_init, Step, Executes, Fetches
<1>9. CASE timer_init
    BY <1>9 DEF timer_init, Step, Executes, Fetches
<1>10. CASE timer_set_cmp
    BY <1>10 DEF timer_set_cmp, Step, Executes, Fetches
<1>11. CASE timer_enable
    BY <1>11 DEF timer_enable, Step, Executes, Fetches
<1>12. CASE vmm_init
    BY <1>12 DEF vmm_init, Step, Executes, Fetches
<1>13. CASE timer_wait
    BY <1>13 DEF timer_wait, Step, Executes, Fetches, WaitEnd
<1>14. CASE timer_wait_return
    BY <1>14 DEF timer_wait_return, Step, Executes, Fetches
<1>15. CASE enter_usermode
    BY <1>15 DEF enter_usermode, Step, Executes, Fetches
<1>16. CASE eu_scratch
    BY <1>16 DEF eu_scratch, Step, Executes, Fetches, RegFile, RegNames, KernelRegs
<1>17. CASE eu_sepc
    BY <1>17 DEF eu_sepc, Step, Executes, Fetches, RegFile, RegNames, KernelRegs
<1>18. CASE eu_sp
    BY <1>18 DEF eu_sp, Step, Executes, Fetches, Compute, RegFile, RegNames,
        KernelRegs
<1>19. CASE eu_mv
    BY <1>19 DEF eu_mv, Step, Executes, Fetches, Compute, RegFile, RegNames,
        KernelRegs
<1>20. CASE eu_srli
    BY <1>20 DEF eu_srli, Step, Executes, Fetches, Compute, RegFile, RegNames,
        KernelRegs
<1>21. CASE eu_or
    BY <1>21 DEF eu_or, Step, Executes, Fetches, Compute, RegFile, RegNames,
        KernelRegs
<1>22. CASE eu_satp
    BY <1>22 DEF eu_satp, Executes, Fetches
<1>23. CASE eu_zero
    BY <1>23 DEF eu_zero, Step, Executes, Fetches, Compute, RegFile, RegNames,
        KernelRegs
<1>24. CASE eu_sret
    BY <1>24 DEF eu_sret, Executes, Fetches
<1>25. CASE usercode
    BY <1>25 DEF usercode, Step, Executes, Fetches, Compute, RegFile, RegNames,
        KernelRegs
<1>26. QED
    BY <1>1, <1>2, <1>3, <1>4, <1>5, <1>6, <1>7, <1>8, <1>9, <1>10, <1>11, <1>12,
        <1>13, <1>14, <1>15, <1>16, <1>17, <1>18, <1>19, <1>20, <1>21, <1>22, <1>23,
        <1>24, <1>25, Struck DEF Next, Handling, Program

\* Without a trap inside enter_usermode, sscratch is set whenever the user's table is.
LEMMA UnhitStep ==
  ASSUME Types, Flow, Context, Unhit, WedgedOnlyByWindow, Next
  PROVE  (Unhit /\ WedgedOnlyByWindow)'
<1>. USE DEF Types, Flow, Context, Unhit, WedgedOnlyByWindow, KernelResumes, InTrap,
    Later, Window, Labels, clockVars, timerVars, csrVars, trapVars, regVars
<1>1. ASSUME NEW cause \in Causes, Strikes(cause)
      PROVE  (Unhit /\ WedgedOnlyByWindow)'
  <2>1. CASE TrapTable = "user"
      BY <1>1, <2>1 DEF Strikes, trap_vector, TrapTable, FromUsermode, Values
  <2>2. CASE TrapTable # "user"
      BY <1>1, <2>2 DEF Strikes, trap_vector, TrapTable, FromUsermode, Values
  <2>3. QED
      BY <2>1, <2>2
<1>2. CASE Tick
    BY <1>2 DEF Tick
<1>3. CASE Ipi
    BY <1>3 DEF Ipi
<1>4. CASE interrupt_exception_handler
    BY <1>4 DEF interrupt_exception_handler
<1>5. CASE timer_handler
    BY <1>5 DEF timer_handler, NextCmp
<1>6. CASE halt
    BY <1>6 DEF halt
<1>7. CASE trap_return
    BY <1>7 DEF trap_return, RestoredSie, RegFile, RegNames, KernelRegs
<1>8. CASE interrupts_init
    BY <1>8 DEF interrupts_init, Step, Executes, Fetches
<1>9. CASE timer_init
    BY <1>9 DEF timer_init, Step, Executes, Fetches
<1>10. CASE timer_set_cmp
    BY <1>10 DEF timer_set_cmp, Step, Executes, Fetches
<1>11. CASE timer_enable
    BY <1>11 DEF timer_enable, Step, Executes, Fetches
<1>12. CASE vmm_init
    BY <1>12 DEF vmm_init, Step, Executes, Fetches
<1>13. CASE timer_wait
    BY <1>13 DEF timer_wait, Step, Executes, Fetches, WaitEnd
<1>14. CASE timer_wait_return
    BY <1>14 DEF timer_wait_return, Step, Executes, Fetches
<1>15. CASE enter_usermode
    BY <1>15 DEF enter_usermode, Step, Executes, Fetches
<1>16. CASE eu_scratch
    BY <1>16 DEF eu_scratch, Step, Executes, Fetches, RegFile, RegNames, KernelRegs
<1>17. CASE eu_sepc
    BY <1>17 DEF eu_sepc, Step, Executes, Fetches
<1>18. CASE eu_sp
    BY <1>18 DEF eu_sp, Step, Executes, Fetches, Compute, RegFile, RegNames,
        KernelRegs
<1>19. CASE eu_mv
    BY <1>19 DEF eu_mv, Step, Executes, Fetches, Compute, RegFile, RegNames,
        KernelRegs
<1>20. CASE eu_srli
    BY <1>20 DEF eu_srli, Step, Executes, Fetches, Compute, RegFile, RegNames,
        KernelRegs
<1>21. CASE eu_or
    BY <1>21 DEF eu_or, Step, Executes, Fetches, Compute, RegFile, RegNames,
        KernelRegs
<1>22. CASE eu_satp
    BY <1>22 DEF eu_satp, Executes, Fetches
<1>23. CASE eu_zero
    BY <1>23 DEF eu_zero, Step, Executes, Fetches, Compute, RegFile, RegNames,
        KernelRegs
<1>24. CASE eu_sret
    BY <1>24 DEF eu_sret, Executes, Fetches
<1>25. CASE usercode
    BY <1>25 DEF usercode, Step, Executes, Fetches, Compute, RegFile, RegNames,
        KernelRegs
<1>26. QED
    BY <1>1, <1>2, <1>3, <1>4, <1>5, <1>6, <1>7, <1>8, <1>9, <1>10, <1>11, <1>12,
        <1>13, <1>14, <1>15, <1>16, <1>17, <1>18, <1>19, <1>20, <1>21, <1>22, <1>23,
        <1>24, <1>25, Struck DEF Next, Handling, Program

\* The invariant holds at the start.
LEMMA InitIInv == Init => IInv
<1>. SUFFICES ASSUME Init PROVE IInv
    OBVIOUS
<1>1. Clobbered \in RegFile /\ KernelRegs \in RegFile
    BY DEF Clobbered, KernelRegs, RegFile, RegNames, Values
<1>2. frame \in Frames
    BY <1>1 DEF Init, Frames, Values, Labels
<1>3. Types
  <2>1. time \in Nat /\ end \in Int
      BY TrapAssumption DEF Init
  <2>2. QED
      BY <1>1, <1>2, <2>1 DEF Init, Types, Values, Labels
<1>4. Flow /\ Clock /\ Waiting
    BY DEF Init, Flow, Clock, Waiting, WaitIsLong, InTrap, Early, Later, Window
<1>5. Context /\ Unhit /\ WedgedOnlyByWindow
    BY DEF Init, Context, Unhit, WedgedOnlyByWindow, KernelResumes, UserRunsIntact,
           InTrap, Later, Window
<1>6. QED
    BY <1>3, <1>4, <1>5 DEF IInv

\* Every step keeps it.
LEMMA StepIInv == IInv /\ [Next]_vars => IInv'
<1>. SUFFICES ASSUME IInv, [Next]_vars PROVE IInv'
    OBVIOUS
<1>1. CASE Next
    BY <1>1, TypesStep, FlowStep, ClockStep, WaitingStep, ContextStep, UnhitStep DEF IInv
<1>2. CASE UNCHANGED vars
    BY <1>2 DEF IInv, Types, Flow, Clock, Waiting, WaitIsLong, Context, Unhit,
                WedgedOnlyByWindow, KernelResumes, UserRunsIntact, Fetches, InTrap, vars
<1>3. QED
    BY <1>1, <1>2

\* The inductive invariant: where the program is, what the timer, the registers and the
\* stored frame then hold, and how traps inside enter_usermode differ from others.
THEOREM Inductive == Spec => []IInv
    BY InitIInv, StepIInv, PTL DEF Spec

----------------------------------------------------------------------------

\* A trap that trap_vector returns from changes nothing for the code it struck: the
\* kernel outside enter_usermode gets back every register and sscratch, and user code
\* is never run with other registers than its own.
THEOREM TrapsAreTransparent == Spec => []ResumedIntact
<1>1. IInv => ResumedIntact
    BY DEF IInv, Context, ResumedIntact
<1>2. QED
    BY <1>1, Inductive, PTL

\* trap_vector can always store its frame unless a trap struck enter_usermode between
\* its csrw sscratch and its sret.
THEOREM OnlyTheWindowWedges == Spec => []WedgedOnlyByWindow
<1>1. IInv => WedgedOnlyByWindow
    BY DEF IInv
<1>2. QED
    BY <1>1, Inductive, PTL

\* global_ticks counts the periods since timer_init, whatever the period and however
\* late timer interrupts are taken.
THEOREM TicksCountTime == Spec => []TicksExact
<1>1. IInv => TicksExact
  <2>1. SUFFICES ASSUME IInv, stie PROVE
          /\ global_ticks * PERIOD <= time - start
          /\ time < stimecmp => time - start < (global_ticks + 1) * PERIOD
      BY DEF TicksExact
  <2>2. global_ticks * PERIOD \in Int /\ (global_ticks + 1) * PERIOD \in Int
      BY <2>1, TrapAssumption DEF IInv, Types
  <2>3. QED
      BY <2>1, <2>2 DEF IInv, Types, Clock
<1>2. QED
    BY <1>1, Inductive, PTL

\* timer_wait(n) never returns before n - 1 whole periods have passed.
THEOREM WaitsAreLong == Spec => []WaitIsLong
<1>1. IInv => WaitIsLong
    BY DEF IInv, Waiting
<1>2. QED
    BY <1>1, Inductive, PTL
=============================================================================
