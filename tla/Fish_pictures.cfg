\* A screen of two rows of three; the lengths of fish.c, and WAIT such that every
\* phase sees the picture change.
SPECIFICATION Spec
CONSTANTS
  Width = 3
  Height = 2
  Slots = 13
  Frames <- MCFrames
  Missing <- MCMissing
  offset = 1
  Length = 15
  HandAt = 4
  HandOn = 7
  HandOff = 6
  WAIT = 20
  Short = 65536
INVARIANTS
  PicturesAlternate
  HandInStep
