SPECIFICATION Spec
CONSTANTS
  N = 2
  LastPC = 2
  Mtvec = 2
  Modes = {"M", "U"}
  Machine = "M"
  User = "U"
  Issued = {"alu", "load", "fault", "mret", "csrrw", "csr_mstatus", "csr_mepc", "csr_mie"}
INVARIANTS
  TypeOK
  FrameIsKept
  EnableBitsAreTheLines
  OnlyTrappedWritesDiverge
PROPERTIES
  MretUndoesTrap
  CauseIsTrue
  InterruptIsTaken
