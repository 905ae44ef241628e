SPECIFICATION Spec
CONSTANTS
  Rows = {r1}
  Primes = {r1}
  Pods = {p1, p2}
  Tasks = {t1, t2}
  Calls = {c1, c2}
  Attempts = 2
  MaxRestarts = 1
  Faults = {"fail", "lost", "crash", "replica"}
  None = None
SYMMETRY Symmetric
INVARIANTS TypeOK RentedOncePerGrant  CreatingRowsAreAttended
CHECK_DEADLOCK FALSE
