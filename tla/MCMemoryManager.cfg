SPECIFICATION Spec
CONSTANTS
  Thread = {t1, t2, t3}
  Nobody = Nobody
INVARIANTS TypeOK SharedMeansLocked LockExact
PROPERTIES ManagersProgress
CHECK_DEADLOCK FALSE
