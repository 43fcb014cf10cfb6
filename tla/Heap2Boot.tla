------------------------------ MODULE Heap2Boot ------------------------------
(***************************************************************************)
(* The allocations of the start-up on the heap of heap_2.c: main creates   *)
(* the MAIN task and the scheduler the idle task; MAIN prints a message,   *)
(* which creates the mutex of the log, then creates four tasks and deletes *)
(* itself; the idle task frees its stack and control block some time       *)
(* later.  Meanwhile the GUI task creates a mutex and a semaphore.  What    *)
(* comes after is any sequence of allocations and of frees of their blocks *)
(* on the heap the start-up left.                                          *)
(***************************************************************************)
EXTENDS Heap2, FiniteSets

CONSTANTS
  MinimalStack,             \* configMINIMAL_STACK_SIZE, in bytes
  GuiStacks,                \* GUI_STACK_SIZE, in bytes: several are tried
  LargestGuiStack,          \* up to this the heap has room for all
  TCB_t, Queue_t,           \* the sizes of these structures in bytes
  Later,                    \* sizes asked for after the start-up
  MaxLater                  \* bound: blocks of these in use

ASSUME StackAssumption ==
  /\ GuiStacks \cup {MinimalStack, LargestGuiStack, TCB_t, Queue_t, MaxLater} \subseteq Nat
  /\ GuiStacks \cup {MinimalStack, TCB_t, Queue_t} \cup Later \subseteq Requests

\* The bytes a request takes: with its header, up to the next multiple.
Rounded(n) ==
  ((n + heapSTRUCT_SIZE + portBYTE_ALIGNMENT - 1) \div portBYTE_ALIGNMENT)
    * portBYTE_ALIGNMENT

\* The heap has room for the five small stacks, the six control blocks, the
\* three semaphores and mutexes and the GUI task's stack, with nothing freed.
ASSUME BootAssumption ==
  /\ \A n \in {MinimalStack, TCB_t, Queue_t} : n > heapSTRUCT_SIZE
  /\ 0 \notin GuiStacks
  /\ 5 * Rounded(MinimalStack) + 6 * Rounded(TCB_t) + 3 * Rounded(Queue_t)
       + Rounded(LargestGuiStack) <= configADJUSTED_HEAP_SIZE

VARIABLES
  guiStack,
  main, gui, idle,          \* how many steps each has taken
  mainBlocks,               \* the stack and the control block of MAIN
  later,                    \* the blocks of the time after the start-up
  hook                      \* who is in vApplicationMallocFailedHook

bootVars == <<free, size, asked, xFreeBytesRemaining,
              guiStack, main, gui, idle, mainBlocks, later, hook>>

\* xTaskCreate allocates the stack before the control block.
MainRequests ==
  <<MinimalStack, TCB_t, MinimalStack, TCB_t,    \* MAIN, IDLE
    Queue_t,                                     \* the log's mutex
    MinimalStack, TCB_t, guiStack, TCB_t,        \* TEST, GUI
    MinimalStack, TCB_t, MinimalStack, TCB_t>>

\* The GUI task exists when MAIN has done the first nine of these.
GuiCreated == main >= 9

GuiRequests == <<Queue_t, Queue_t>>

BootInit ==
  /\ Init
  /\ guiStack \in GuiStacks
  /\ main = 0 /\ gui = 0 /\ idle = 0
  /\ mainBlocks = <<>> /\ later = {} /\ hook = {}

\* A call of pvPortMalloc that returns, and one that ends in the hook.
Allocate(n) == TakeWhole(n) \/ TakePart(n)

MainAllocates ==
  /\ "MAIN" \notin hook /\ main < Len(MainRequests)
  /\ Allocate(MainRequests[main + 1])
  /\ main' = main + 1
  /\ mainBlocks' = IF main < 2 THEN mainBlocks \o SetToSeq(Used' \ Used)
                   ELSE mainBlocks
  /\ UNCHANGED <<guiStack, gui, idle, later, hook>>

GuiAllocates ==
  /\ "GUI" \notin hook /\ GuiCreated /\ gui < Len(GuiRequests)
  /\ Allocate(GuiRequests[gui + 1])
  /\ gui' = gui + 1
  /\ UNCHANGED <<guiStack, main, idle, mainBlocks, later, hook>>

MainFails ==
  /\ "MAIN" \notin hook /\ main < Len(MainRequests)
  /\ Fails(MainRequests[main + 1])
  /\ hook' = hook \cup {"MAIN"}
  /\ UNCHANGED <<vars, guiStack, main, gui, idle, mainBlocks, later>>

GuiFails ==
  /\ "GUI" \notin hook /\ GuiCreated /\ gui < Len(GuiRequests)
  /\ Fails(GuiRequests[gui + 1])
  /\ hook' = hook \cup {"GUI"}
  /\ UNCHANGED <<vars, guiStack, main, gui, idle, mainBlocks, later>>

\* prvDeleteTCB in the idle task: the stack, then the control block.
IdleFrees ==
  /\ main = Len(MainRequests) /\ idle < 2
  /\ vPortFree(mainBlocks[idle + 1])
  /\ idle' = idle + 1
  /\ UNCHANGED <<guiStack, main, gui, mainBlocks, later, hook>>

Started == gui = Len(GuiRequests) /\ idle = 2

LaterAllocates(n) ==
  /\ Started /\ Cardinality(later) < MaxLater
  /\ pvPortMalloc(n)
  /\ later' = later \cup (Used' \ Used)
  /\ UNCHANGED <<guiStack, main, gui, idle, mainBlocks, hook>>

LaterFrees(b) ==
  /\ vPortFree(b)
  /\ later' = later \ {b}
  /\ UNCHANGED <<guiStack, main, gui, idle, mainBlocks, hook>>

BootNext ==
  \/ MainAllocates \/ GuiAllocates \/ MainFails \/ GuiFails \/ IdleFrees
  \/ \E n \in Later : LaterAllocates(n)
  \/ \E b \in later : LaterFrees(b)

BootSpec == BootInit /\ [][BootNext]_bootVars

-----------------------------------------------------------------------------
(* Properties *)

\* With a GUI stack of up to this size no task of the start-up ends in the
\* hook, in whatever order they come; the 512 words of the code are within.
BootFits == guiStack <= LargestGuiStack => hook = {}
=============================================================================
