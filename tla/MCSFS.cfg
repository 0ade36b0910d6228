SPECIFICATION Spec
CONSTANTS
  Paths = {"p", "q"}
  NoPath = NoPath
  Root = Root
  Byte = {0, 1, 2, 3}
  Writes <- Letters
  Inodes <- ThreeInodes
  NBlocks = 4
  BLOCK_SIZE = 2
  NData = 3
  MaxRead = 3
  Clients = {"crashes", "unlinks"}
INVARIANTS BlocksOwnedOnce WriteIsExact ReadIsExact ReaddirListsFiles
PROPERTIES ImplementsFileStore SuccessLeaksNothing

