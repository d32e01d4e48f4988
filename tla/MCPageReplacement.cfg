CONSTANTS
  Page = {1, 2, 3, 4}
  NoPage = 0
  no_of_frames = 3
  no_of_references = 7
  Algorithms = {"LRU", "FIFO", "LFU", "OPT"}
  FreshPage = {0}
SPECIFICATION Spec
INVARIANTS MemoryFills OptIsOptimal
PROPERTIES LRUIsRecency OldestLeaves
