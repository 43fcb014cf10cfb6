# A verification model of the STM32F107VC board firmware

The firmware in `src/` runs FreeRTOS V10.1.0 on an STM32F107VC. A handful of
tasks print on a debug log, read the real-time clock, an ADC and a serial flash,
and drive a display. The difficult part of the code is not in any one function:
it is in what happens between functions, when the kernel preempts a task, a DMA
channel moves a byte, an interrupt sets a flag that somebody polls, or a chip on
the other end of a bus is not ready. This directory models that part in TLA+,
checks it with TLC on small instances, and proves the central properties with
TLAPS for every value of the constants.

Paths below are relative to the repository; `D:18` style references use these
short names:

| short | file |
|---|---|
| main | `src/MainConfig/main.c` |
| DebugMessage | `src/Application/DebugMessage.c` |
| USART | `src/Drivers/CustomDriver/source/USART_Driver.c` |
| SPI | `src/Drivers/CustomDriver/source/SPI_Driver.c` |
| serialflash | `src/Application/serialflash.c` |
| Rtc | `src/BSP/Rtc.c` |
| stm32f10x_rtc | `src/STM32F10x_StdPeriph_Driver/src/stm32f10x_rtc.c` |
| queue, tasks, list | `src/Middleware/FreeRTOS/queue.c`, `tasks.c`, `list.c` |
| heap_2 | `src/Middleware/FreeRTOS/portable/heap_2.c` |
| ff | `src/Middleware/FatFs/ff.c` |
| sdcard, diskio | `src/Application/sdcard.c`, `src/Middleware/FatFs/diskio.c` |
| Periph_it, Delay | `src/BSP/Periph_it.c`, `src/BSP/Delay.c` |

## 1. Inventory

The program is the list of files in `src/MDK-ARM/STM32F107.uvprojx`, built with
armcc and `<Optim>1</Optim>` (-O0). The repository's own logic is in
`Application/`, `BSP/`, `Drivers/CustomDriver/` and `MainConfig/`; everything
else is vendor code. The exceptions to "vendor code is left alone" are the parts the
application's correctness rests on: the kernel's mutex, its delays and notifications
(all that the tasks do between two messages), its heap, which the start-up
fills nearly all of, and FatFs, the one component that keeps data across a power loss.

### 1.1 Components

**Application start** (`main`). State: which tasks exist. `vMainTask` prints a
banner (main:24-26), creates TEST, GUI, WIFI and BDINFO in turn, each followed
by `for (;;)` if the creation fails, and deletes itself (main:40). The order
matters: the banner is what creates the log's mutex while nobody else exists.
Two hooks never return: allocation failure (main:62-65) and stack overflow.

**Debug log** (`DebugMessage`, `USART`). State: the handle `_xSemphrUsart`,
created by the first caller; the buffer `usart_message` of 80 bytes; the
completion flag `usart1_trans_over`; DMA channel 4 and the USART. Operations:
`Debug_Message` = lock, clear, format, transfer, unlock; the transfer programs the
channel, enables the request, polls the flag that the DMA interrupt sets, polls
SR.TC and cleans up. Interaction: all tasks call it; it calls the kernel; an
interrupt writes the flag it polls. Correct when: one task at a time is inside;
the buffer does not change under the DMA channel; a poll never ends because of an
earlier transfer; the line carries whole messages one after another; every
transfer ends and waiting tasks are served.

**Kernel mutex and scheduler** (`queue`, `tasks`, `list`). State: the count of
the mutex, its holder, its event list ordered by priority, the base and the
inherited priority of each task, the ready, blocked and delayed tasks. Operations:
`xQueueSemaphoreTake` in two looks (a critical section, then with the scheduler
suspended), `xQueueGenericSend`, inheritance and disinheritance, the event list,
the choice of the running task. Correct when: it is a
mutex; no wakeup is lost between the two looks; a less urgent task never runs
while a more urgent one waits; an inherited priority ends with the mutex.

**Kernel time and notifications** (`tasks`). State: the tick count, which wraps after
2^32 ticks; a list of delayed tasks for the current round of the count and one for
the next; a copy of the first wake time; the ticks pended while the scheduler is
suspended; for each task whether it waits for a notification or has one. Operations:
the tick, `vTaskSuspendAll` and `xTaskResumeAll` (around every call of the heap),
`vTaskDelay`, `xTaskNotifyWait`, `xTaskNotify`. Hard: the wrap; ticks and wake-ups
while the scheduler is suspended; a notification at the tick of the time-out.
Correct when: a delay lasts exactly the ticks asked for; no tick is lost; nobody
sleeps on a notification that came.

**SPI1 DMA transfer** (`SPI`). State: `spi_trans_over`, two DMA channels, the
request bits of CR2, the shift and data registers. Operations:
`SPIx_TransferDMA`, the interrupt of channel 2. Interaction: the serial flash,
the SD card and the ID read at boot use it, with the chip select around it.
Correct when: a return means all bytes are in memory, in order; the register is
empty between transfers; the completion is that of the polled transfer; the poll
ends.

**Serial flash** (`serialflash`). State: the chip's write enable latch, BUSY and
its memory. Operations: sector erase, page program, read, chip erase, wait for
the end. Correct when: the chip is sent a write only with its latch set and never
while busy, so that a call that returned has had its effect; calls return.

**RTC** (`Rtc`, `stm32f10x_rtc`). State: the 32-bit seconds counter in two
16-bit registers. Operations: read (two accesses), set, date to seconds and back,
start-up with a fixed date at every boot (Rtc:22, 34-41) and an unlimited poll of
the oscillator (Rtc:24). Correct when: a read returns a time the counter had; a
date and its seconds are each other's inverse for every date in range.

**SD card** (`sdcard`, `diskio`). State: card type and status, chip select, two
software timers. Operations: initialise, status, read, write, ioctl, behind a table
of drives of which only the card exists. The functions are in the build, but the
calls in `TEST_Task.c` (lines 57 and 66) are commented out. Hard: the timeouts
race the card's answers; the chip select is low during the initialisation only
(sdcard:266, and lines 298-446, where only CTRL_SYNC selects the card again); the
card may be pulled or exchanged. Correct when: a call returns with the card off
the bus; a drive that is called ready is; a timeout means that the card was busy;
every call returns.

**FatFs volume** (`ff`). State: one sector window with a dirty flag, through which the
FAT and the directory are read and changed; the count of free clusters; the file
objects; the volume on the card. Operations: open, write, seek, truncate, sync,
close, unlink, rename, mount. Hard: a call changes several sectors, each written when
the window happens to move on, some by a later call on another file; the power may
go, or a transfer fail, in between. `TEST_Task.c` has the calls commented out
(lines 57 to 61). Correct when: whatever happens, no cluster is in two files
and none in use is taken for free; what a file was closed with stays.

**Tick timers and delays** (`Periph_it`, `Delay`). State: three counters the TIM6
interrupt decrements, one of them without a guard. Hard: a poll for 0 that misses
it. Correct when: a delay takes the time asked for; a guarded counter stops at 0.

**Heap** (`heap_2`). State: a list of free blocks by size, a size in the header of
every block, the number of free bytes. Operations: `pvPortMalloc`, `vPortFree`, both
with the scheduler suspended. Correct when: the blocks tile the heap and none is
handed out twice or too small; the list stays sorted, on which best fit rests; the
allocations of the start-up (about 5.6 KB) fit `configTOTAL_HEAP_SIZE` of 6 KB.

**GUI task** (`Application/GUI_Task.c`). State: `ui_message`, a task
notification. Operations: `UI_ShowMessage` writes the buffer without a lock and
notifies; the task waits and shows it. No task calls `UI_ShowMessage`.

**emWin port** (`STemWin/OS/GUI_X_FreeRTOS.c`): a mutex created on first use, an
event semaphore.

**Board set-up** (`BSP/Bsp.c`, `IO_Driver.c`, `LED_Driver.c`, `KEY_Driver.c`):
pins, clocks and interrupt priorities. Correct when: each driver writes the pins
it configured, and no two drivers share one.

**LCD driver**, **ADC**, **EEPROM**: register strobes, one conversion value, and
the page arithmetic of an EEPROM whose bus is never initialised.

**Application tasks** (`TEST_Task.c`, `BoardInfo_Task.c`, `WIFI_Task.c`): loops
of delays, LED writes and calls of `Debug_Message`.

**Not part of the program**: `DHT11.c`, `yeelink.c` (not in the build). **Vendor
code**: STM32 peripheral library, CMSIS, HAL, lwIP, emWin, start-up code.

### 1.2 Who touches what

| shared thing | written by | read or polled by | protection in the code |
|---|---|---|---|
| `_xSemphrUsart` | first caller | all printing tasks | the boot order |
| `usart_message` | printing task | DMA channel 4 | mutex, and the poll before the unlock |
| `usart1_trans_over` | DMA interrupt, printing task | printing task | one transfer at a time |
| `spi_trans_over` | DMA interrupt, SPI caller | SPI caller | one caller at a time, by convention |
| SPI1 and its chip selects | flash and SD drivers | | none |
| RTC counter | the clock, `RTC_SetTime` | `RTC_GetTime` | none; two accesses |
| `Time_ms`, `Time_SD`, `Time_SD_Init` | TIM6 interrupt, drivers | drivers | none |
| tick count, delayed lists | SysTick, any task that delays | SysTick | interrupts masked, or the scheduler suspended and the tick pended |
| notification state and value | the notifier, the waiter | both | interrupts masked |
| sector window of the volume | every FatFs call | every FatFs call | none: `FF_FS_REENTRANT` is 0, one task at a time |
| heap | every task | every task | the scheduler suspended |
| the flash chip's BUSY and latch | driver, the chip itself | driver | waits after every write |

### 1.3 Hazards

`PROJECT.json` lists every hazard at its line with the properties that would
catch it going wrong. For those none covers, or covers in part only, it gives the
reason: an exchanged SD card, the rename's span, a truncation to nothing, a second
`f_close` after a failure, the hint in FSInfo, and the fixed date at every start.

## 2. Modules

Each component has one module with its state as variables, one action per step
of the code that touches shared state, and its properties at the end. A step that
works on local variables only is merged with the next shared access. `MC...`
modules only name the model values of an instance and the values that a `.cfg`
cannot write. Operators called "Mutant of ..." are deliberately wrong variants of
the definition that follows them; they are not part of any specification and serve
to see that the properties notice them.

| module | models | composed with |
|---|---|---|
| `UartLog` | what the log promises (abstract) | instantiated by `DebugUart` |
| `DebugUart` | main, DebugMessage, USART, DMA channel 4 | `UartLog` by refinement |
| `DebugUartProof` | its theorems | `DebugUart` |
| `MutexPromise` | what a mutex promises (abstract) | instantiated by `KernelMutex` |
| `KernelMutex` | queue, tasks, list | `MutexPromise` by refinement |
| `KernelMutexProof` | its theorems | `KernelMutex` |
| `DelayPromise` | what a delay promises (abstract) | instantiated by `KernelDelay` |
| `KernelDelay` | the tick, the delayed lists, pended ticks, notifications of tasks | `DelayPromise` by refinement |
| `SpiDma` | SPI, DMA channels 2 and 3 | its result is the premise of `SerialFlash` |
| `SerialFlash` | serialflash and the W25X16 | commands are atomic, as `SpiDma` justifies |
| `SpiProof` | their theorems | `SpiDma`, `SerialFlash` |
| `RtcCounter` | stm32f10x_rtc:133-153 against the clock | |
| `RtcCalendar` | `RTC_SetTime` against the calendar | |
| `RtcGetTime` | `RTC_GetTime` | extends `RtcCalendar` |
| `RtcProof` | their theorems | the three |
| `SdCard` | sdcard, diskio, the two guarded counters of Periph_it | |
| `SdCardProof` | its theorems | `SdCard` |
| `FatVolume` | ff: window, FAT, directory, FSInfo, the calls that write | a sector write is atomic or fails, as `SdCard` reports it |
| `FatVolumeProof` | its theorems | `FatVolume` |
| `TickTimers` | `delay_ms` and the unguarded counter | |
| `KernelDelayProof` | the theorems about both measures of time | `KernelDelay`, `TickTimers` |
| `Heap2` | heap_2 | |
| `Heap2Boot` | who allocates what at the start, and any calls later | extends `Heap2` |
| `Heap2Proof` | their theorems | both |

A proof module that covers more than one component sees all their names at once; the
specifications of `SerialFlash`, `RtcCalendar`, `TickTimers` and `Heap2Boot` are
therefore called `FlashSpec`, `CalendarSpec`, `WaitSpec` and `BootSpec`, and the place of
the program is `at` in the first and `wait` in the third.

### 2.1 DebugUart

`pc[t]` is the place of task `t`: `absent` before it is created, `app` outside the
log, then `lock` (the test at DebugMessage:18), `create` (line 24), `take` (20),
`memset` (42), `format` (43-45), the six places of `USARTx_TransferDMA`
(`disable`, `program`, `enable`, `poll`, `reset`, `drain`, `clear`) and `unlock`
(32). `str_len` is the local variable of that name: what vsnprintf *would have*
written. `sem` is the handle, `count` and `holder` the kernel's two fields; the
handle is None until a task has created the mutex and then is that task, so that
two creators would have two mutexes. `buffer` says whose message and of which
length is in `usart_message`. `en, tcie, cndtr, tcif` are channel 4, `dmat` and
`srTC` the USART's bits, `inflight` the bytes in its two registers, and `line`, a
history variable, the bytes sent since the channel was programmed.

What the model takes from the code and a casual reader would miss:

- `CreateMutex` leaves the mutex free and the creator continues without it.
  `Unlock` then gives a mutex nobody holds; the give fails because it is full.
- The give is not restricted to the holder: `xQueueGenericSend` does not look.
- The length is not cut to the buffer. `MemoryByte` is the terminator at the
  end of the buffer and `Beyond` after it. With `BufSize = 2` and lengths up to
  3 this occurs in the runs, as it does on the board, where the banner of more
  than 160 characters is longer than the buffer of 80.
- Writing the USART's data register resets SR.TC only after a read of SR. As
  whether such a read has occurred depends on an earlier poll, `DmaMove` may do either.

Tasks interleave freely, whatever their priorities: a superset of what the
preemptive scheduler does, so the safety results do not depend on priorities.

### 2.2 KernelMutex

The processor runs one task: an action of a task has the conjunct `Runs(t)`, "no
ready task has a higher priority". Between equal priorities the choice is free
(time slicing). Take is split where the code splits it: the critical section
(`TryTake`, `TryFails`), and the second look with the scheduler suspended
(`Block`, `TryAgain`), between which other tasks run. Blocking inherits the
priority first and then joins the event list, as queue:1544-1560 does. `Give` is one
critical section: count, disinheritance, removal of the head of the event list.
A woken task does not own the mutex; it starts from the top of the loop, so a
more urgent task may get in between.

Bounds of the abstraction: one mutex (`uxMutexesHeld` is then 1 for the holder, so
the test at tasks:3981 is always true), no timeouts (all takes in the application are
`portMAX_DELAY`), and a task does not delay while it holds the mutex.

### 2.3 KernelDelay

`xTickCount`, `xNextTaskUnblockTime`, the two lists, `xSuspendedTaskList`,
`uxPendedTicks` and each task's `ucNotifyState` are the kernel's variables; a list is a
set, since its order is that of `xItemValue`. `Counted` is `xTaskIncrementTick` with
the scheduler running: the interrupt does it (`Tick`), and so does every turn of the
loop of `xTaskResumeAll` (`Unwind`), which has interrupts masked, so that no
task runs between. `suspender` is the task that suspended the scheduler: to delay
(`CallDelay`, `DelaySleeps`, `xTaskResumeAll`), or for the heap (`Hold`). While
it is suspended the task may notify others, and goes on running although it is on
a delayed list already.

`xTaskNotifyWait` is two critical sections with other tasks in between; a wait
with `portMAX_DELAY` goes to the suspended list, any other to a delayed one, and 0
to neither although the state says "waiting" all the same. What a casual reader
would miss: a waiter whose time is over stays "waiting" until it runs, and
`MakesReady` then takes it out of a ready list and puts it back. `now` is a history
variable: the interrupts that occurred. `Left` is the refinement mapping: the ticks a
task still has to sleep, from its wake time and the list it is on. Which of the
ready tasks runs is free, so the results do not depend on priorities.

### 2.4 SpiDma

Every statement of `SPIx_TransferDMA` that writes a register is a step of the
caller; the transmit channel, the shift register, the receive channel and the
interrupt are actions of their own. Bytes are numbers 1..n so that order and loss
are visible in `memory`. CR2's request bits are set by every transfer and cleared by
none, as in the code. The task may be preempted anywhere, also between SPI:99 and
SPI:118 for two byte times (28 us each). `PollAgain` is the loop of SPI:177: a
transfer that lost a byte stays in it.

### 2.5 SerialFlash

A step is a command from chip select low to high; the chip executes it in its own
time (`ChipFinish`). `quiet` and `before` are history variables: whether the chip
was idle when the call began, and what its pages held. `Restart` resets the processor but not the chip. The chip is
external code: only what serialflash relies on, that a busy chip obeys nothing
but the status read, that a write needs the latch, that the end of a write resets it.

### 2.6 RTC

`RtcCounter` has the counter as two digits in base `Word`, a tick that carries,
and the two accesses of `RTC_GetCounter` as two steps. `RtcCalendar` walks day by
day through the Gregorian calendar and carries the seconds since 1970 along, by
addition: that is the reference. TLC's integers are signed and of 32 bits, so the
seconds are a pair of 16-bit halves, which the counter's registers are too; the
reference's high half may grow without a limit, that of the code's sum
(`SetTimeSum`) is cut to 16 bits, as the multiplication of Rtc:66 is. `RtcGetTime`
converts the counter back. `DayOf` and `SecondOfDay` are the quotient and the
remainder by 86400, taken in two divisions by 128 and by 675; `YearsTake[k]` and
`MonthsTake(y)[m]` are the days gone after so many turns of the two loops, and a loop
ends at the turn that stops and whose predecessor does not. `Turns` bounds the
first: 32 bits of seconds are 49711 days, which end in 2106.

### 2.7 SdCard

A step is one command with its answer, one poll of the busy line, or one look at a
timer; between them TIM6 may tick, and the card may be exchanged (`Swap`). `pc` is
the place in `SD_initialize` or in `wait_ready`, whose byte (`data`, sdcard:86) and
condition (line 88) are two steps with a delay of a millisecond between. `caller`
tells for whom `SD_ChipSelect` waits. The card is external: it answers only when
selected, says when its initialisation is over, may stay busy for ever, and
answers a number of bytes late that is chosen from `Ncr`. `SD_SendCmd` reads ten
bytes in any case, so that number decides how much of R7 or OCR is left for the
loops of lines 231 and 239; `FourBytesAfter` computes exactly that. CMD55 and the ACMD
it announces are one step with one answer. `call` and `ret` are the last function that
returned and its result; `call` is "data" for one that came to its data transfer.
`Transfer` is that transfer with the loops of `rcvr_datablock` and `xmit_datablock` and
their 200 ms and 500 ms in one step that succeeds or fails: as no transfer selects
the card, the code never gets there, and an action for each turn would never occur.

What a casual reader would miss: `SD_initialize` and CTRL_SYNC are the only
functions that select the card; the drives of diskio's table that are commented
out return RES_PARERR, a DRESULT, as a DSTATUS; CTRL_TRIM asks `disk_ioctl` for
MMC_GET_CSD, which is in the default case of `SD_ioctl`, so it returns RES_ERROR
before it sends anything.

### 2.8 FatVolume

`disk` is what is on the card and `view` what FatFs sees: the same with the changed
sector of the window on top. `winsect` and `wflag` are ff's. `Look` moves the window
to read and `Edit` to change; either writes the window back if it has to
move (ff:1054-1075), so what a call changed reaches the card only with the next
move, perhaps by a later call on another file. A step is the part of a call up to
the next such write. `call` is the call in progress and its place in the code; the
steps after the first are `RemoveCluster` (a turn of `remove_chain`'s loop), `LinkNew`
(the end of `create_chain`), `WriteData`, `Unname` (the second half of `f_rename`),
`BackToEntry` (`f_open` after it removed a chain), `SyncWindow` and `SyncInfo`
(`sync_fs`).

Two faults: a transfer fails (`DiskError`, and in `SyncFails`, `SyncInfo` and
`WriteData`), upon which the call returns as the code does, with the half of its work
that is done; and the power goes or the processor is reset at any moment (`Restart`),
upon which the volume is mounted from what is on the card.

What a casual reader would miss: the write of FSInfo is not checked (ff:1104), and a
mount takes the number of free clusters from there; `f_sync` clears FA_MODIFIED
whatever `sync_fs` says (ff:3992); a failed read leaves no sector in the window
(`NoSector`); `f_write` on a full volume returns FR_OK; `remove_chain` stops at an
entry that is free already, and goes on from it as from the end.

The abstractions: `FF_FS_LOCK` and `FF_FS_REENTRANT` are 0, so the caller must not
open a file twice, nor remove or rename an open one, and one task is in FatFs at a
time: the model's callers keep to that. A file is written by whole sectors of one
cluster each. Where `create_chain` starts its search is left open, so any
free cluster may be found; a sector of the FAT it cannot read ends the call as in
`f_write` (`Aborts`). A rename to the same name (ff:4982), which registers a second
entry of that name before it deletes the first, is left out; after any other, the file
is counted as safe under neither name until it is synced again. `cut` ends a behaviour whose card was damaged in
one of the two ways the property leaves out; what follows from the damage is not
examined.

### 2.9 TickTimers

`Time_ms` is modulo `Word`, as the unsigned int of the code. `heldUp` says whether
the task can be kept from the processor for more than a tick while it polls:
`looked` is reset by a tick, and if the task is not held up the next tick needs
it. `elapsed` and `turns` are history variables. The timer runs before the first call,
so `Time_ms` starts with any value.

### 2.10 Heap2 and Heap2Boot

A block is the offset of its header; `size` is the field of the headers, `free` the
list from `xStart` to `xEnd`, `asked` the blocks in use with what was asked for
each. A call is one step, since both functions suspend the scheduler. `TakeWhole` and
`TakePart` are the two outcomes of heap_2:172; with `Fails` the caller is in the
hook, which does not return, so nothing changes. The sum at heap_2:138 would wrap for
requests near 2^32, which no caller makes.

`Heap2Boot` makes the allocations of the start-up: main's and the scheduler's, then
vMainTask's, with the GUI task's mutex and semaphore and the idle task's frees
of the deleted MAIN task at any time they can occur; then, on the heap this leaves, any
allocations and frees of their blocks (`LaterAllocates`, `LaterFrees`). Sizes are those
of the build (128 and 512 words of stack, 92 and 80 bytes for a task's and a queue's
structure).

## 3. Runs

| run | distinct states | question |
|---|---|---|
| `DebugUart` | 17834 | is the log safe, whole and live from the boot on? |
| `KernelMutex` | 496 | is queue.c's mutex a mutex that loses no wakeup and bounds inversion? |
| `KernelDelay` | 291279 | do delays last as long as asked, across the wrap, suspensions and notifications, and does nobody sleep on? |
| `SpiDma` | 424 | do transfers, one after another, deliver and return, and where can a byte be lost? |
| `SerialFlash` | 207239 | does each call find a chip that listens, and leave its effect, resets included? |
| `RtcCounter` | 1539 | what does a read of a ticking counter return? |
| `RtcGetTime` | 47482 | do the two conversions agree with the calendar? |
| `SdCard` | 259656 | whatever the card does, does the driver return, deselect, and know what it has? |
| `TickTimers` | 1561 | does a delay last as long as it was asked to, and if not, how wrong is it? |
| `FatVolume` | 1897643 | with the power going or a transfer failing at any moment, is the card's volume in order, and is what was closed kept? |
| `Heap2Boot` | 57633 | does the start-up fit the heap, in every order, and do blocks tile, fit and stay the best through any calls after it? |
| `SdCardTransfer` | violation | does a transfer with a good card succeed unless it fails on the way? |

### 3.1 What they show

- **DebugUart.** `MutualExclusion`: one task between lock and unlock, the
  unlocked first caller included. `NoStaleCompletion`: while the flag is up, the
  polling task's own transfer is complete. `BufferStableUnderDma`: no step changes the
  buffer while the channel may read it. `LogImplemented`: refinement of `UartLog`,
  so the line carries every byte of one message in order, then the next.
  `TransferEnds` and `WaitersServed`: the polls end and somebody waiting gets in.
- **KernelMutex.** `MutexImplemented` refines `MutexPromise`; `NoLostWakeup`,
  `NoPriorityInversion` and `InheritedOnlyByHolder` as their names say;
  `UrgentServed`: the single most urgent task always gets the mutex, although
  nothing is assumed about the others beyond their being executed.
- **KernelDelay.** `DelaysAreExact` refines `DelayPromise`: whoever asked for d ticks
  sleeps until d ticks are counted, on a clock that does not wrap, and a notification
  ends a wait and never a delay. `NobodyLeftBehind` is the assertion of tasks:218,
  which the build does not evaluate, since it leaves `configASSERT` empty.
  `TickCountDoesNotSlip`: what tasks:2187 says, the count and the pended ticks
  together are the interrupts there were. `AwakeWithNews`: no task sleeps in
  `xTaskNotifyWait` with a notification. `DelayEnds`: whoever sleeps for a time wakes.
- **SpiDma.** What returns ARM_DRIVER_OK is complete and in order, the completion
  is the polled one, and the registers are empty when the caller has the processor back
  (`ReceivedWhole`, `QuietBetween`), however the task is
  preempted. `LostOnlyInSetup`: a byte is lost only if the task is held up
  between SPI:99 and SPI:118; `TransferReturns`: every other transfer returns.
- **SerialFlash.** Erase, program, read and chip erase in any order, with resets of
  the processor inside calls. `EnabledUnlessBusy`: a call that began with an idle
  chip sends its command to an idle chip with the latch set. `EffectInPlace`: such
  a call, when it returned, has had its effect and nothing else has changed. A write
  that found the chip busy, which takes a reset, may be ignored and return all the same.
  The property says too that whatever a write found, it leaves an idle chip with its
  latch reset, so at most one write after a reset is ignored.
- **RTC.** A read is never in the past (`NeverBehind`) and is exact if no carry
  into the high word falls between the accesses (`ExactWithoutCarry`). The
  conversions agree with the calendar for every day from 1970 to 2099: `RTC_SetTime`
  writes the seconds since 1970 (`SetTimeCounts`), none of them lost beyond the 32
  bits of the counter, and from these `RTC_GetTime` shows the date and the time of day
  again (`GetTimeShowsDate`).
- **SdCard.** `DeselectedBetween`: every way out of every function raises the chip
  select. `ReadyIsReady`: a drive that is not marked STA_NOINIT has a card that left its
  idle state and is of the family it was taken for, although the time may run
  out after any command; it claims nothing of a card that was exchanged since, of which
  the driver learns nothing. `TimeoutMeansBusy`: a card that comes ready in the very
  tick in which the time ends is not refused. `CallReturns`: the timers end every loop
  of `SD_initialize` and of CTRL_SYNC. It says nothing of the 200 ms and 500 ms loops
  of the data blocks, which the code does not reach (2.7).
- **FatVolume.** `MediumSound`: whenever the power goes, the card holds no two
  entries or clusters that lead to the same cluster and none that leads to a free one.
  It is false, and not claimed, for a rename between its two entries (ff:4997 to
  5015 mark that span), and for a file cut to nothing by `f_truncate` until its entry
  is written. `DataKept`: a file whose `f_sync` or `f_close` wrote its entry and
  returned FR_OK is found at the next mount, of at least that size, in the same
  clusters, and no other file has written to them, until a call shortens, removes,
  empties or renames it, and as long as no rename was cut short and no mount met a
  damaged volume (`cut`). A second `f_close` after one that failed writes no entry and
  makes nothing safe, whatever it returns (3.4).
- **TickTimers.** `WaitsWholeTurns`: a task that looks in every millisecond waits
  as long as it asked; one that does not never waits too short, and too long only
  by whole turns of the counter (49.7 days each on the chip). `DelayReturns` for
  the first.
- **Heap2, Heap2Boot.** `BlocksTile`, `FreeOrUsed` and `RequestFits` are what a caller
  relies on; `BestFit` needs that the list stays sorted. `BootFits`: with a GUI stack of
  up to 2640 bytes nobody ends in the hook, whenever the GUI and the idle task run;
  2644 are too many. The code's 2048 leave 592 bytes.

### 3.2 Bounds, and why they suffice

- `DebugUart`: three tasks are enough for a creator, a holder and a waiter at the
  same time. Lengths 1 to 3 on a buffer of 2 cover a message inside the buffer, one that
  fills it and one that overruns it; two bytes fit into the USART's registers, so
  length 3 keeps the channel waiting. Transfers repeat without bound.
- `KernelMutex`: three priority levels are needed for inversion, two tasks on the
  middle one for time slicing and for order among equals. No counter is bounded.
- `KernelDelay`: a count of three values wraps every third tick, so that a delay of
  two ticks is begun before, at and after a wrap. Two tasks are not enough for one
  to suspend the scheduler while one delays and one waits; three are. Two pended ticks
  are the first number that differs from "some". Calls are not bounded.
- `SpiDma`: `MaxLen = 5` exceeds the three bytes that data, shift and receive
  registers can hold at once. Transfers repeat without bound. Lengths beyond 65535,
  which CNDTR would cut to 16 bits (SPI:86, 105), are excluded by an assumption: no
  caller asks for more.
- `SerialFlash`: two pages of one sector and one of another separate page and sector
  effects; two values tell a wrong page from a right one. Calls and resets are not
  bounded.
- `RtcCounter`: a register of three values and `HighMax = 2`: carries, and
  reads that last over several. The theorem has no bound on `Word`.
- `RtcGetTime`: every day from 1970 to 2099; the time of day moves by 7919 s (a
  prime) a day, which visits 47482 different seconds of the day, in every
  hour and minute. The seconds pass the sign bit of 32 bits in 2038 and end below
  2^32, in 2099. Nothing repeats; the walk ends with the last day, which is why
  this configuration does not check for deadlock.
- `SdCard`: `Ncr` = 0, 8, 9 are the earliest and the latest answer a card may
  give and the one byte later that the driver still sees; the last is what lets
  the path of a version 2 card be reached at all. `ReadyMs` = 1 and `InitMs` = 2 for
  500 and 1500 ms: what matters is before, at and after 0, for each timer and for
  one against the other. Calls and exchanges of the card are not bounded.
- `FatVolume`: two files (symmetric), two clusters in two sectors of the FAT, two
  entries in two sectors of the directory: whatever two changes a call makes may
  be in different sectors, a volume gets full, and a file of two clusters has a chain.
  One fault at any moment. Calls are not bounded. Explored once as well, without
  an error: two faults (7.6 million states), and three clusters with no fault (2.7
  million). The theorems have no bound.
- `TickTimers`: `Word` = 16 for 2^32. `MaxTicks` ends the following of a delay; a
  task that is held up gets four turns, one that is not never reaches it.
- `Heap2Boot`: the real sizes of the build and the real heap. GUI stacks at and next to
  the size that just fits and the one that just does not. Later, up to three blocks of
  0, 9, 497 or 6128 bytes: nothing, one beyond an alignment boundary, one that leaves a
  fragment too small to split off, and the whole heap. The theorems about
  `Heap2` have no bound. The system may stop in the hook: no deadlock check.

### 3.3 Fairness

Safety runs need none. For liveness:

- `DebugUart`: the DMA channel, the USART and the interrupt make progress (they are
  clocked hardware; interrupts are not masked for ever), and a task with an
  enabled step eventually takes it. The second is justified by the periods: all
  tasks of the board spend nearly all of their time in `vTaskDelay` (250 ms, 1.5 s,
  5 s), so no task is kept from the processor for ever, although the poll in
  USART:147 is a busy wait. No fairness is assumed of `Call`: nobody must print.
  Weak fairness is used throughout. `WaitersServed` says that *some* waiter gets the
  mutex; that each does is not claimed here.
- `KernelMutex`: weak fairness of a task's steps, whose guard contains `Runs(t)`:
  a task that stays runnable is executed. Ticks (`Wake`) and calls are not fair.
- `KernelDelay`: the timer interrupt is taken if it can be taken again and again
  (strong fairness: a pending interrupt waits while it is masked); whoever has
  suspended the scheduler gets to resume it (weak: no other task can run then, and
  neither `vTaskDelay` nor the heap waits for anything there); the loop of
  `xTaskResumeAll` goes on. Nothing is assumed of tasks otherwise.
- `SpiDma`: the task is scheduled, the SPI clock runs, the interrupt is served.
- `SerialFlash`: the caller is scheduled, and the chip finishes what it started.
- `SdCard`: the caller is scheduled and the TIM6 interrupt is served. Nothing is
  assumed of the card.
- `TickTimers`: the timer ticks and the task polls.

### 3.4 Where the code and its comments disagree

One run checks what a comment promises and ends with a counterexample: *transfers
without select* (`SdCardTransfer`). The initialisation leaves the card deselected and
no transfer selects it again, so that each returns RES_ERROR with a good card in the
socket.

The models contain more of the kind, which have no run of their own:

- stm32f10x_rtc:131 says that `RTC_GetCounter` returns the RTC counter value. It
  reads the low half first, then the high half, without a second look: a carry in
  between shows a time up to 18 h 12 min late. `ExactWithoutCarry` says that nothing
  else does.
- ff:3992 clears FA_MODIFIED even if `sync_fs` failed, so that an `f_close` that is
  tried again after FR_DISK_ERR returns FR_OK with nothing more written. `DataKept`
  counts only the calls that wrote the entry.
- ff:4708 frees the clusters of a file that is cut to nothing before its entry is
  written, while `f_unlink` and `f_open` write the entry first. If the power goes
  in between the entry leads to free clusters, or to those of another file by then.
- ff:1104 does not look at the result of the write of FSInfo; a count of 0 left from
  before makes a volume with room look full.
- `src/Drivers/CustomDriver/source/IO_Driver.c` 50-55 and 66-70 configure pin 4 and
  pin 14 of port D and then write pin 4 of port C and pin 14 of port B. Pin 14 of port D
  is the write strobe of the display, an output since LCD_Initialize (Bsp.c:126)
  and an input from SD_CSLow (Bsp.c:129) on.
- SPI:174 places the start of a transfer at line 175, but the request bits of CR2
  are never cleared, so from the second transfer on the transmit channel moves as
  soon as it is enabled at SPI:99. `LostOnlyInSetup` says what that may cost.
- serialflash:107 says that every write is enabled first. `FLASH_EraseChip` does
  not, which is why `EnabledUnlessBusy` leaves it out; and a write enable that is
  sent to a chip still busy from before a reset is lost, hence its premise.
- sdcard:231 reads "32 bit return value of R7 resp", of which the ten bytes
  `SD_SendCmd` always reads contain at least the first: the check of line 232
  fails, and no card of version 2 is initialised (`FourBytesAfter`).
- sdcard:219 returns RES_NOTRDY where line 197 announces the status, which FatFs
  reads as "no disk" besides "not initialised"; STA_NODISK is tested at line 205 and
  set nowhere.
- Periph_it:22 has no guard, unlike lines 23 and 27, and Delay:28 leaves only at
  0. The GUI task has priority 2 and the tasks of priority 3 poll the serial line
  without blocking: `WaitsWholeTurns` says what a missed 0 costs.

## 4. Theorems

Proved with tlapm (Z3, Zenon, LS4), for all values of the constants that satisfy the
named assumptions, which TLC evaluates in the runs.

| theorem | states |
|---|---|
| `DebugUartProof!Typing` | `Spec => []TypeOK` |
| `DebugUartProof!MutualExclusionHolds` | `Spec => []MutualExclusion` |
| `DebugUartProof!NoStaleCompletionHolds` | `Spec => []NoStaleCompletion` |
| `DebugUartProof!BufferStable` | `Spec => BufferStableUnderDma` |
| `DebugUartProof!Refinement` | `Spec => LogImplemented` |
| `KernelMutexProof!MutexTyping` | `Spec => []TypeOK` |
| `KernelMutexProof!WakeupNotLost` | `Spec => []NoLostWakeup` |
| `KernelMutexProof!InversionBounded` | `Spec => []NoPriorityInversion` |
| `KernelMutexProof!InheritanceEnds` | `Spec => []InheritedOnlyByHolder` |
| `KernelMutexProof!MutexRefinement` | `Spec => MutexImplemented` |
| `KernelDelayProof!TypeCorrect` | `Spec => []TypeOK` |
| `KernelDelayProof!NobodyStays` | `Spec => []NobodyLeftBehind` |
| `KernelDelayProof!NewsWakes` | `Spec => []AwakeWithNews` |
| `KernelDelayProof!DelaysExact` | `Spec => DelaysAreExact` |
| `KernelDelayProof!CountNeverSlips` | `Spec => []TickCountDoesNotSlip` |
| `KernelDelayProof!AlwaysWholeTurns` | `WaitSpec => []WaitsWholeTurns` |
| `SpiProof!AlwaysReceivedWhole` | `Spec => []ReceivedWhole` |
| `SpiProof!AlwaysQuietBetween` | `Spec => []QuietBetween` |
| `SpiProof!LossOnlyInSetup` | `Spec => LostOnlyInSetup` |
| `SpiProof!AlwaysEnabled` | `FlashSpec => []EnabledUnlessBusy` |
| `SpiProof!AlwaysInPlace` | `FlashSpec => []EffectInPlace` |
| `RtcProof!ReadNeverBehind` | `Spec => []NeverBehind` |
| `RtcProof!ReadExactWithoutCarry` | `Spec => []ExactWithoutCarry` |
| `RtcProof!SetTimeAlwaysCounts` | `CalendarSpec => []SetTimeCounts` |
| `RtcProof!GetTimeAlwaysShowsDate` | `CalendarSpec => []GetTimeShowsDate` |
| `SdCardProof!Invariant` | `Spec => []IInv`, on which the next three rest |
| `SdCardProof!CardIsDeselectedBetween` | `Spec => []DeselectedBetween` |
| `SdCardProof!ReadyCardIsReady` | `Spec => []ReadyIsReady` |
| `SdCardProof!TimeoutIsOfABusyCard` | `Spec => []TimeoutMeansBusy` |
| `FatVolumeProof!VolumeTyping` | `Spec => []TypeOK` |
| `FatVolumeProof!MediumStaysSound` | `Spec => []MediumSound` |
| `FatVolumeProof!DataStaysKept` | `Spec => []DataKept` |
| `Heap2Proof!HeapTyping` | `Spec => []TypeOK` |
| `Heap2Proof!BlocksAlwaysTile` | `Spec => []BlocksTile` |
| `Heap2Proof!AlwaysFreeOrUsed` | `Spec => []FreeOrUsed` |
| `Heap2Proof!RequestAlwaysFits` | `Spec => []RequestFits` |
| `Heap2Proof!AlwaysSorted` | `Spec => []SortedFree` |
| `Heap2Proof!AlwaysBestFit` | `Spec => BestFit` |
| `Heap2Proof!BootUsesTheHeap` | `BootSpec => Spec`: the five above hold of the start-up |
| `Heap2Proof!BootAlwaysFits` | `BootSpec => []BootFits` |

With these, every safety invariant, action property and refinement that a run checks
is a theorem.

**DebugUart.** Two invariants. `LockInv` has three parts. `BootAlone`: until the
handle is set, only `vMainTask` exists, and once it has gone on it does not come
back to the log. `OneCreator`: only `vMainTask` is ever at `create`. `HeldOnce`:
a task other than `vMainTask` inside the section means the count is 0 and it is
alone. Mutual exclusion alone is not inductive: the first caller holds nothing, so its
exclusion comes from the boot order and that of the others from the count.
`UartInv` is the hand-shake: nothing is pending between transfers, the flag, the
count of the channel and the length of `line` agree at each place, requests are
on only within a transfer, and the buffer is that of the sender. `Refinement` maps the
owner to the task between programming the channel and resetting the flag.
Assumptions: `vMainTask` is a task and is not created by itself, `Order` has no task twice,
every message has a length above 0 (no format of the source is empty; a DMA
transfer of 0 bytes would never complete), the buffer has at least one byte.

**KernelMutex.** `IInv` adds to `TypeOK`: `FreeOrHeld` (the count is 0 exactly
when a task is inside, which is the holder), `Listed` (the blocked tasks are those on
the event list), `Placed` (where such tasks are in the code), `Sorted` (the event
list is in order of priority), `InheritedOnlyByHolder`, and `Covered` (if the
mutex is held, the holder is at least as urgent as every waiter; if it is free and
somebody waits, a ready task is). Inversion follows from `Covered`, which needs
`Sorted` at a give: the task woken is the head, so it covers the rest. The
insertion's facts (`InsertFacts`, `PlaceFacts`, `SortedStays`) rest on the library's
sequence theorems. Assumptions: priorities are natural numbers, `None` is no task.

**KernelDelay.** The invariant says where the wake times are: above the count on the
list of the current round, below it on that of the next, and the copy
`xNextTaskUnblockTime` no later than any of the current round. So at the last value
of the count the current list is empty, which is the kernel's assertion, and
`Left` is positive for every sleeper and one less after every tick, also after the one
that wraps, where the lists change their roles. A tick that does not look at the list
wakes nobody because of the copy. `Noted` ties the state of the notification to where
the task is. `TickCountDoesNotSlip` is a remainder by a number without a value, which the
provers do not calculate with; `NoSlip` says instead that the interrupts less the ticks
counted and pended are a multiple of the round of the count, and a step that wraps either
counter changes the multiple by one. Assumptions: the greatest tick is above 0, `None` is
no task.

**TickTimers.** `WaitInv`: in the loop, what is counted down and what is left in `Time_ms`
are together what was asked for and some whole rounds of the counter, none of them if the
task looks in every millisecond, since a counter it has looked at is not 0. Assumption:
delays are below the counter's word.

**FatVolume.** `DiskInv`: what is on the card is what FatFs saw at an earlier moment,
and in order; so it is enough that what FatFs sees *now* is in order at every moment
(`ViewInv`), for then every write leaves a sound card. But the directory FatFs sees
lags behind: an entry gets its first cluster only when the file is synced. Order is
therefore stated of `Own`, which takes the first cluster of an open file from its file
object and that of a closed one from its entry, and `FileInv` ties the two together.
The clusters a call has in hand, allocated and not linked yet or unlinked and not free
yet, are in no chain (`CallInv`): without it, freeing the next one could free one
that somebody has. Assumptions: the FAT, the directory and FSInfo are different
sectors; sizes are positive.

`DataKept` needs a second invariant, `Kept`, on top of the first: *both* what is on the
card and what FatFs sees have every safe file in its clusters, for a step may write
either. What could spoil that is a step for another file, so `Kept` also says
where such a step can write: a file object is at a cluster of its own chain
(`FileKept`), and so is the cluster a call in progress is about to write to or to link
at (`CallKept`). "Of the chain" is `Reaches`: in every set of clusters that has
the first and, with a cluster, the next. That is no recursion, and says nothing of how
many steps away. As a cluster has one owner, chains of two entries have none in
common (`ReachesApart`), a cluster nothing refers to is on none (`ReachesWithout`), and
where a chain is cut the part before stays (`ReachesCut`). `CallKept` says further that
an entry on its way to the card has the size of the file object, which makes
`SyncInfo`, where a file becomes safe, leave the invariant true. The last part is about
the code's own walk: `ChainFindsSaved`, `ChainReaches` and `ChainOfFacts` say that
`Chain` and `ChainOf` give the clusters `Kept` speaks of.

**SpiDma.** The bytes of a transfer are in a row (`InARow`): those in memory, then the
ones in the receive, shift and data registers, without a gap up to the last one the
transmit channel fetched. So a byte that comes in finds the receive register taken
only if the receive channel is not set up, and the end of that channel means that the
row is in memory. After a loss at most one byte gets to memory while two or more were
asked for (`Lost`), so the poll never ends and no wrong result is returned. Assumption:
`MaxLen` is at most 65535, what the 16 bits of CNDTR can count.

**SerialFlash.** `LatchInv` holds whatever the chip was doing when the call began: a busy
chip has its latch set, and when it is seen idle behind a write, the latch is
reset. `QuietInv` follows a call that found the chip idle from its command to its end:
the memory is what it was before, or the chip is at work on this very call, or the memory
is what the call should have made of it. Both properties can be read off it. No
assumption on the constants is needed.

**SdCard.** `SelectInv` ties the chip select to the place in the code; `MarkInv` says that
the drive is marked STA_NOINIT all through an initialisation. `KnownInv` is what the
answers so far tell about the card, place by place, as long as it is not
exchanged: behind the loops of ACMD41 and CMD1 the card is awake *if time is left*. It is
for this "if" that the test of the timer after each loop is there, and `finish` then
knows the type only of an awake card. `TimeoutMeansBusy` is inductive with these: between
the read in `wait_ready` and its two tests the timer may end, but the byte stays. The
answers are exclusive cases of the model (`AnswerCases`); writing the proof showed
that an earlier version of `Answers` had two cases of a CASE that overlapped, of which
TLC took the first and the logic either. Assumption: the time-outs are natural numbers.

**RTC.** The counter's invariant says that what was read of the low word is that
of the counter when the read began, and that the counter has not gone back since.
`CalendarInv` has the formula itself, whose step for the three kinds of
day is arithmetic on division by 4 (`SetTimeDays` of the next date is one more); it
needs that the range ends with 2099. `WalkInv` adds that the counter is the number of
seconds, `days` times 86400 and `clock`, whatever the halves; up to 2099 the high
half stays below 2^16, so cutting `SetTimeSum` to 16 bits loses nothing. Back
again, two divisions by 128 and by 675 of that number give `days` and `clock`, and
the loops of `RTC_GetTime` are the formula backwards: the days gone after k turns are a
closed sum (`YearsSum`, `MonthsSum`), so the turn at which a loop stops is the date's,
by the same arithmetic.

**Heap2.** The invariant is the conjunction of the five; none is inductive alone.
Tiling needs that the block that is split is a block of the heap, which is
`FreeOrUsed` and `TypeOK`; that the rest of a split begins at no other header, and
is free once, needs tiling: no block begins inside another. A request fits
because a used block is never split. The facts about the list are lemmas on any
sequence: `UnlinkKeeps` and `InsertKeeps` say that taking an element out, or putting one
in before the first that is not smaller, keeps it without repetition and
ascending. Assumptions: heap size, header and alignment are positive, requests are
natural numbers; that the heap's size is a multiple of the alignment is not needed.

**Heap2Boot.** `BootUsesTheHeap` maps every step to a step of the heap or a stutter, so the
theorems about the heap are theorems about the start-up. `BootAlwaysFits` rests on
`RoomForAll`: one free block is as large as everything that is still to be allocated.
Best fit may take a piece from another block, of those the idle task frees; then
that one only stays larger (`RoomLeft`, `RoomAfterFree`). So the order of the three
tasks does not matter. `BootAssumption` is what this takes: all requests together, each with
its header and rounded up, fit the heap with nothing freed. With the
build's sizes that is so for a GUI stack of up to 2640 bytes, the `LargestGuiStack` of the
configuration, for which TLC evaluates it.

**Induction.** The library's induction theorems have an operator as a parameter, which
none of the provers can instantiate. Where a function is defined by recursion over a
number the proofs use that a set of numbers that is not empty has a least element
(`LeastElement`): the first place where the claim fails has a predecessor where it
holds. That such a function exists at all, which its definition by CHOOSE leaves
to be shown, is proved in the same way, with its beginnings as witnesses (`ChainExists`).

**Only model-checked:** liveness (`TransferEnds`, `WaitersServed`, `UrgentServed`,
`DelayEnds`, `TransferReturns`, `CallReturns`, `DelayReturns`), which is out of the
prover's reach, ENABLED and fairness with it; and the counterexample of
`SdCardTransfer`. The inductive invariants were also model-checked on the instances of the
runs, except `NoSlip`, which quantifies over all integers.

## 5. Not modelled

- *Vendor code*: only the parts named above, as far as the application relies
  on them. The HAL and lwIP have no part in the application's behaviour.
- *Electrical and real time*: durations appear only where one decides an order
  (`heldUp` of `TickTimers`); stack depth, bus faults and clock failures do not appear.
- *Text*: formats and wording, except the length and the overrun of the buffer.
- *Kernel parts nobody in the application uses*: queues with data, takes with a
  time-out, recursive mutexes, timers, event groups, priority changes,
  `xPendingReadyList` (no interrupt of the board wakes a task).
- *FatFs*: subdirectories, reading and listing (they write nothing), seeks beyond
  the end, `f_mkfs`, exFAT and long names (off in ffconf.h), the bytes within a
  sector, and how a mount recognises the volume.
- *Board set-up, LCD, ADC, EEPROM*: straight-line register writes without state that
  a second actor sees. `RTC_Initialize` likewise.
- *GUI*: emWin is a binary library, and `UI_ShowMessage` has no caller.
- *Flash addresses within a page*: the callers pass page starts.
- *ID reads* of the flash: they change nothing.

## 6. Plan

In order of what the board depends on most.

1. `BoardApp`: the tasks with their priorities and periods over `KernelMutex`,
   `KernelDelay` and the abstract log, to replace the fairness of `DebugUart` by the
   scheduler's and the free preemption of `SpiDma` and `TickTimers` by what preempts
   whom.
2. `BlockDevice`: what `FatVolume` assumes of a drive, as an abstract specification
   that `SdCard` implements.
3. Subdirectories and seeks beyond the end in `FatVolume`.

## 7. Running

    tlc -config DebugUart.cfg MCDebugUart.tla
    tlapm DebugUartProof.tla

and likewise for the other configurations and proof modules; `PROJECT.json` says
which module each configuration belongs to.
