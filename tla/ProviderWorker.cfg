SPECIFICATION Spec
CONSTANTS
  o1 = o1
  o2 = o2
  a1 = a1
  a2 = a2
  a3 = a3
  Operations = {o1, o2}
  Attempts = {a1, a2, a3}
  Login = Login
  Other = Other
  Nobody = Nobody
SYMMETRY Symmetry
INVARIANTS
  LeaseIsOneThread
  OnceWarmTheSlotDecides
