SPECIFICATION Spec
CONSTANTS
  Task = {t1, t2, t3}
  InitTask = t1
  TOTAL_PAGES = 14
  NUM_PAG_KERNEL = 2
  NUM_PAG_CODE = 1
  NUM_PAG_DATA = 2
  Value = {a, b}
INVARIANTS TypeOK SpacesAreSeparate NoFrameIsLost ReadsOwnStores
CHECK_DEADLOCK FALSE
