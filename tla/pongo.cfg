CONSTANTS
  MaxUpload = 4
  Chunk = 2
  Word = 8
  MaxFile = 5
SPECIFICATION Spec
INVARIANTS BootExact InOrder
PROPERTIES OnlyUploadTalks
CHECK_DEADLOCK FALSE
