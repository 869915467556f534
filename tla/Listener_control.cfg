SPECIFICATION Spec
CONSTANTS
  Groups = {g1, g2}
  Boot = boot
  Threads = {t1, t2, t3}
  Runs = {run1, run2, run3}
  Other = other
  None = none
INVARIANTS TypeOK OneListener LoopNeverWaitsForStart
SYMMETRY ListenerSymmetry
