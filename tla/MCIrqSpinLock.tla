--------------------------- MODULE MCIrqSpinLock ---------------------------
(* The interrupt-safe locks on small instances: see the Irq*.cfg files. *)
EXTENDS IrqSpinLock, TLC

Symmetry == Permutations(CPUs)
=============================================================================
