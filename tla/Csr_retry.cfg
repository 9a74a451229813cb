SPECIFICATION Spec
CONSTANTS
  N = 2
  LastPC = 2
  Mtvec = 2
  Modes = {"M", "U"}
  Machine = "M"
  User = "U"
  Issued = {"alu", "mret", "csrrw", "csr_mstatus"}
INVARIANTS
  DiffTest
