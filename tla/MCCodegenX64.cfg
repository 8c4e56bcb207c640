SPECIFICATION Spec
CONSTANTS
  Programs <- Sources
  Formats <- Targets
  EntryNames <- Entries
  NoName = "none"
  Align = 16
  RegArgs = 2
  StackWords = 128
  ByteMax = 3
INVARIANTS
  TypeOK
  ComputesSource
  FrameDiscipline
  ControlStaysInside
PROPERTY Finishes
