SPECIFICATION Spec
CONSTANTS
  Programs <- ReturningHandler
  Formats <- Kernel
  EntryNames <- Unnamed
  NoName = "none"
  Align = 16
  RegArgs = 2
  StackWords = 128
  ByteMax = 3
INVARIANT InterruptReturnsByIretq
