\* Blocks of two bytes; files of no, one and a half, and exactly three blocks;
\* reads that end in a block, of more than a block, and of a whole directory name.
SPECIFICATION Spec
CONSTANTS
  BLOCK_SIZE = 2
  MAX_FILES = 3
  FILE_NAME = 4
  Word = 4
  Sizes = {0, 3, 6}
  Names <- MCNames
  RtcNames <- MCRtcNames
  FD_ARRAY_MAX = 5
  RTC_nbytes_write = 4
  Asked <- MCAsked
  Arguments <- MCArguments
  Counts <- MCCounts
  CatSizes = {4, 5}
  Pieces = {1, 3}
  Longer <- MCLonger
  Shorter <- MCShorter
  BIG_NUM = 1000
  USER = 32
  PDE_INDEX = 2
  PDE = 16
CONSTRAINT FewFds
INVARIANTS
  FilesReadInOrder
  DirListsNames
  ProgramsDeliver
  SysErrPasses
