\* Two requests at once: who turns off the light.
SPECIFICATION Spec
CONSTANTS
  Accounts = {a1, a2, a3}
  Threads = {1, 2}
  Explored <- ComingAndGoing
SYMMETRY AccountSymmetry
INVARIANTS TypeOK SeatsCounted NeverEmpty
CHECK_DEADLOCK FALSE
