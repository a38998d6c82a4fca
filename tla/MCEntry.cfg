SPECIFICATION Spec
CONSTANTS
  MAX_SYSCALL = 11
  NR_WRITE = 4
  NR_GETTIME = 10
  NR_NONE = 12
  Results <- MCResults
  Args <- MCArgs
INVARIANTS
  ArgumentsArrive
  KernelSegments
PROPERTIES
  InterruptTransparent
  WrapperContract
