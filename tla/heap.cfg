SPECIFICATION Spec
CONSTANTS
  MEM_SIZE = 44
  SIZEOF_STRUCT_MEM = 4
  MIN_SIZE = 6
  MEM_ALIGNMENT = 2
  Sizes = {0, 3, 7, 15}
INVARIANTS HeapIsLinked NoTwoHoles LentBlocksAreKept RefusedOnlyWhenNothingFits
PROPERTIES Allocates

