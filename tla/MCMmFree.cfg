SPECIFICATION Spec
CONSTANTS
  TOTAL_PAGES = 16
  NUM_PAG_KERNEL = 7
  PAG_LOG_INIT_DATA = 7
  NUM_PAG_DATA = 2
  NUM_PAG_CODE = 1
  NR_TASKS = 2
  PBASE_RANGE = 32
  PAGE_SIZE = 64
  ENTRY_SIZE = 4
  TASK_SIZE = 64
  task_at = 64
  dir_pages_at = 192
  pagusr_table_at = 320
  TempPages <- MCTempPages
PROPERTY FreeFrameReleases
