SPECIFICATION Spec
CONSTANTS
  Mangled = Mangled
  Base = 3
  CommonLen = 2
  Sizes <- SomeSizes
  MaxMessages = 3
INVARIANTS TypeOK FramesKept
PROPERTIES AllRead
CHECK_DEADLOCK FALSE
