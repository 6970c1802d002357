---------------------------- MODULE IrqSpinLock ----------------------------
(***************************************************************************)
(* The interrupt-safe spin locks: IrqSpinLock of                           *)
(* src/kernel/framework/sync/irq_spinlock.rs and the lock_irqsave pair of  *)
(* src/kernel/framework/sync/spinlock.rs, on several CPUs.                 *)
(*                                                                         *)
(* Each CPU runs one thread and, when interrupts are on, may be            *)
(* interrupted by a handler that takes the same lock.  A thread makes no   *)
(* step while a handler runs on its CPU.                                   *)
(***************************************************************************)
EXTENDS Integers, FiniteSets

CONSTANT CPUs

\* How the lock is used: SpinLock::lock_irqsave; IrqSpinLock::lock alone; or
\* IrqSpinLock with try_lock as well.
Uses == {"irqsave", "lock", "try_lock"}

Kinds == {"thread", "isr"}
Contexts == CPUs \X Kinds
Cpu(x) == x[1]
Isr(c) == <<c, "isr">>
Thread(c) == <<c, "thread">>

VARIABLES spin_locked, \* SpinLockInner::locked
          spin_depth,  \* IrqSpinLock::depth
          irq_on,      \* the interrupt flag of each CPU
          wanted,      \* the interrupt flag the thread of each CPU chose
          prev_if,     \* the flag saved in the guard of each context
          spin_pc,     \* where a context is
          use          \* one of Uses: never changes

spin_vars == <<spin_locked, spin_depth, irq_on, wanted, prev_if, spin_pc, use>>

\* IrqSpinLock counts its guards in `depth`, lock_irqsave does not.
CountsDepth == use # "irqsave"

SpinInit == /\ spin_locked = 0
            /\ spin_depth = 0
            /\ irq_on = [c \in CPUs |-> TRUE]
            /\ wanted = [c \in CPUs |-> TRUE]
            /\ prev_if = [x \in Contexts |-> FALSE]
            /\ spin_pc = [x \in Contexts |-> IF x[2] = "isr" THEN "off" ELSE "idle"]
            /\ use \in Uses

SpinGoto(x, label) == spin_pc' = [spin_pc EXCEPT ![x] = label] /\ UNCHANGED use

\* A handler runs to its end before the thread it interrupted goes on.
Runs(x) == x[2] = "isr" \/ spin_pc[Isr(Cpu(x))] = "off"

(***************************************************************************)
(* The CPU and its clients.                                                *)
(***************************************************************************)

\* Interrupt entry clears the flag; the handler goes for the lock.
Interrupt(c) ==
  /\ irq_on[c]
  /\ spin_pc[Isr(c)] = "off"
  /\ irq_on' = [irq_on EXCEPT ![c] = FALSE]
  /\ SpinGoto(Isr(c), "cli")
  /\ UNCHANGED <<spin_locked, spin_depth, wanted, prev_if>>

\* Interrupt return sets the flag again.
InterruptReturn(c) ==
  /\ spin_pc[Isr(c)] = "idle"
  /\ irq_on' = [irq_on EXCEPT ![c] = TRUE]
  /\ SpinGoto(Isr(c), "off")
  /\ UNCHANGED <<spin_locked, spin_depth, wanted, prev_if>>

\* A thread outside the lock turns interrupts on or off for its own reasons.
SetInterrupts(c, on) ==
  /\ Runs(Thread(c))
  /\ spin_pc[Thread(c)] = "idle"
  /\ irq_on' = [irq_on EXCEPT ![c] = on]
  /\ wanted' = [wanted EXCEPT ![c] = on]
  /\ UNCHANGED <<spin_locked, spin_depth, prev_if, spin_pc, use>>

(***************************************************************************)
(* lock() and lock_irqsave().                                              *)
(***************************************************************************)

CallLock(c) ==
  /\ Runs(Thread(c))
  /\ spin_pc[Thread(c)] = "idle"
  /\ SpinGoto(Thread(c), "cli")
  /\ UNCHANGED <<spin_locked, spin_depth, irq_on, wanted, prev_if>>

\* Faulty variant: interrupts stay on while the lock is taken and held.
DisableInterruptsNot(x) ==
  /\ Runs(x)
  /\ spin_pc[x] = "cli"
  /\ prev_if' = [prev_if EXCEPT ![x] = irq_on[Cpu(x)]]
  /\ SpinGoto(x, "spin")
  /\ UNCHANGED <<spin_locked, spin_depth, irq_on, wanted>>

\* disable_interrupts(), with the old flag kept for the guard.
DisableInterrupts(x) ==
  /\ Runs(x)
  /\ spin_pc[x] \in {"cli", "try_cli"}
  /\ prev_if' = [prev_if EXCEPT ![x] = irq_on[Cpu(x)]]
  /\ irq_on' = [irq_on EXCEPT ![Cpu(x)] = FALSE]
  /\ SpinGoto(x, IF spin_pc[x] = "cli" THEN "spin" ELSE "count")
  /\ UNCHANGED <<spin_locked, spin_depth, wanted>>

\* Faulty variant: the lock word is set without looking at it.
SpinRawLockUnchecked(x) ==
      /\ Runs(x)
      /\ spin_pc[x] = "spin"
      /\ spin_locked' = 1
      /\ SpinGoto(x, IF CountsDepth THEN "count" ELSE "held")
      /\ UNCHANGED <<spin_depth, irq_on, wanted, prev_if>>

\* SpinLock::raw_lock: the compare-exchange that succeeds.
SpinRawLock(x) ==
      /\ Runs(x)
      /\ spin_pc[x] = "spin"
      /\ spin_locked = 0
      /\ spin_locked' = 1
      /\ SpinGoto(x, IF CountsDepth THEN "count" ELSE "held")
      /\ UNCHANGED <<spin_depth, irq_on, wanted, prev_if>>

CountDepth(x) ==
  /\ Runs(x)
  /\ spin_pc[x] = "count"
  /\ spin_depth' = spin_depth + 1
  /\ SpinGoto(x, "held")
  /\ UNCHANGED <<spin_locked, irq_on, wanted, prev_if>>

\* IrqSpinLock::try_lock takes the lock first and disables interrupts after.
SpinTryLock(c) ==
      /\ use = "try_lock"
      /\ Runs(Thread(c))
      /\ spin_pc[Thread(c)] = "idle"
      /\ spin_locked = 0
      /\ spin_locked' = 1
      /\ SpinGoto(Thread(c), "try_cli")
      /\ UNCHANGED <<spin_depth, irq_on, wanted, prev_if>>

(***************************************************************************)
(* The guard's destructor, and unlock_irqrestore().                        *)
(***************************************************************************)

SpinRawUnlock(x) ==
      /\ Runs(x)
      /\ spin_pc[x] = "held"
      /\ spin_locked' = 0
      /\ SpinGoto(x, IF CountsDepth THEN "uncount" ELSE "restore")
      /\ UNCHANGED <<spin_depth, irq_on, wanted, prev_if>>

\* Only the release that reads a depth of one restores the flag.
UncountDepth(x) ==
  /\ Runs(x)
  /\ spin_pc[x] = "uncount"
  /\ spin_depth' = spin_depth - 1
  /\ SpinGoto(x, IF spin_depth = 1 THEN "restore" ELSE "idle")
  /\ UNCHANGED <<spin_locked, irq_on, wanted, prev_if>>

\* Faulty variant: interrupts are turned on instead of restored.
EnableInterrupts(x) ==
  /\ Runs(x)
  /\ spin_pc[x] = "restore"
  /\ irq_on' = [irq_on EXCEPT ![Cpu(x)] = TRUE]
  /\ SpinGoto(x, "idle")
  /\ UNCHANGED <<spin_locked, spin_depth, wanted, prev_if>>

RestoreInterrupts(x) ==
  /\ Runs(x)
  /\ spin_pc[x] = "restore"
  /\ irq_on' = [irq_on EXCEPT ![Cpu(x)] = prev_if[x]]
  /\ SpinGoto(x, "idle")
  /\ UNCHANGED <<spin_locked, spin_depth, wanted, prev_if>>

SpinStep(x) == \/ DisableInterrupts(x) \/ SpinRawLock(x) \/ CountDepth(x)
               \/ SpinRawUnlock(x) \/ UncountDepth(x) \/ RestoreInterrupts(x)

SpinNext == \/ \E c \in CPUs : \/ Interrupt(c) \/ InterruptReturn(c)
                               \/ CallLock(c) \/ SpinTryLock(c)
                               \/ \E on \in BOOLEAN : SetInterrupts(c, on)
            \/ \E x \in Contexts : SpinStep(x)

SpinSpec == SpinInit /\ [][SpinNext]_spin_vars

(***************************************************************************)
(* Properties.                                                             *)
(***************************************************************************)

Holders == {x \in Contexts : spin_pc[x] \in {"try_cli", "count", "held"}}

SpinGranted == [x \in Contexts |-> IF x \in Holders THEN "exclusive" ELSE "none"]

SpinAbstract == INSTANCE LockSpec WITH Clients <- Contexts, mode <- SpinGranted

\* irq_spinlock.rs:65: in all its uses the lock is a lock to the threads and
\* handlers of all CPUs, although a handler may come between any two of their
\* steps.
ImplementsSpinLock == SpinAbstract!Spec

\* irq_spinlock.rs:7-9: a handler never waits for a lock that the thread it
\* interrupted holds, which would stop the CPU for ever.  try_lock takes the
\* lock before it disables interrupts (irq_spinlock.rs:183), so this is about
\* the other two uses.
NoSelfDeadlock ==
  use # "try_lock" => \A c \in CPUs : ~(spin_pc[Isr(c)] = "spin" /\ Thread(c) \in Holders)

\* A thread outside the lock has the interrupt flag it chose.
FlagRestored ==
  \A c \in CPUs : spin_pc[Thread(c)] = "idle" /\ spin_pc[Isr(c)] = "off" => irq_on[c] = wanted[c]

\* irq_spinlock.rs:42: dropping the guard restores the interrupt flag.
LockFlagRestored == use = "lock" => FlagRestored

\* So does SpinLock::unlock_irqrestore, which counts nothing.
IrqsaveFlagRestored == use = "irqsave" => FlagRestored

\* Unless a try_lock stops a CPU, everyone who asks for the lock gets it.
SpinReturns == \A x \in Contexts : spin_pc[x] = "spin" /\ use # "try_lock" ~> spin_pc[x] = "held"
=============================================================================
