------------------------------ MODULE MCKernel ------------------------------
(* Small instances of Kernel: two tasks, a semaphore and a queue of one
   message, the clock and a device that interrupts its handler. *)
EXTENDS Kernel

CONSTANTS sem, queue, Device

MCCapacity == [e \in {sem, queue} |-> 1]
MCContent  == [e \in {sem, queue} |-> IF e = sem THEN {"unit"} ELSE {"msg"}]
MCLevel    == [h \in {Tick, Device} |-> IF h = Tick THEN 2 ELSE 1]
=============================================================================
