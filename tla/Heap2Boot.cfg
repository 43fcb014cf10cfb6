SPECIFICATION BootSpec
CONSTANTS
  configADJUSTED_HEAP_SIZE = 6136
  heapSTRUCT_SIZE = 8
  portBYTE_ALIGNMENT = 8
  Requests = {0, 9, 80, 92, 497, 512, 1024, 2048, 2052, 2632, 2640, 2644, 3072, 6128}
  MinimalStack = 512
  GuiStacks = {1024, 2048, 2052, 2632, 2640, 2644, 3072}
  LargestGuiStack = 2640
  TCB_t = 92
  Queue_t = 80
  Later = {0, 9, 497, 6128}
  MaxLater = 3
INVARIANTS
  BlocksTile
  FreeOrUsed
  RequestFits
  BootFits
PROPERTIES
  BestFit
CHECK_DEADLOCK FALSE
