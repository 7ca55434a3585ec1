SPECIFICATION Spec
CONSTANTS
  Thread = {t1, t2}
  Nobody = Nobody
INVARIANT InternExclusion
CHECK_DEADLOCK FALSE
