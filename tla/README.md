# A verification of mcu_boot_demo

TLA+ models, TLC runs and TLAPS proofs for the bootloader and application in
this repository (GD32F30x, two application slots, a rollback state machine of
its own, MCUboot's direct-XIP loader behind a shell command).

The question the project asks is the one the repository is about: *whatever
image is put into a slot, whatever the operator types, and whenever the board
is reset, does it start the right slot, does the right copy of the code run
there, and does a bad upgrade get undone?* Below it, the parts the programs are
built on: the ring buffer and the receive interrupt, the shell's line editor,
the software timers, and the two libraries that are kept in the repository
without being linked at present, a key-value store in flash and a ZMODEM
receiver.

## 1. The system

### Components, their state and operations

| component | source | state | operations |
|---|---|---|---|
| boot parameter record | `Drivers/bsp/boot_param.c` | one record in the flash page at `0x0803F000` (active slot, trial slot, confirmed, trial count, last booted slot, crc) | load (or default), save (erase, then program half-word by half-word) |
| rollback state machine | `application/main.c` | `handoff_done`, the tick; the record | main loop, `boot_select_app_addr`, `boot_handoff_by_state`, `JumpToApplication`; commands `boot_set_trial`, `boot_set_active`, `boot_param_reset`, `reboot` |
| manual start | `application/upgrade.c`, `application/boot/mcuboot_start.c` | – | `run_app`, `boot` |
| image choice of MCUboot | `application/boot/bootutil/src/loader.c` (`MCUBOOT_DIRECT_XIP`, no revert) | `slot_usage` | highest version first, skip, verify, erase what does not verify |
| hand-off preparation | `application/app_reloc.c` | – | check header, ranges and relocation table; compute stack and entry |
| startup and relocation | `test_app/app/startup_gd32f30x_hd.s`, `test_app/app/app_runtime_reloc.c` | RAM: vector table, `.data`, `.bss` | copy and move the vectors, initialise, relocate the pointers |
| free watchdog | `Drivers/bsp/fwdg.c` | reset flag (hardware), `app_is_invalid_flag` (RAM), the counter | start unless the watchdog caused the reset; feed |
| application | `test_app/app/main.c` | the running slot | feed in the main loop, `app_confirm`, `say_hello`, `reboot` |
| software timers | `Drivers/bsp/timer.c` | tick, list of timers by deadline (`TIMER_SKIP_LIST_LEVEL` 1) | start, stop, detach, `rt_timer_check` |
| shell | `Middlewares/finsh/` | line, two positions, escape state, history (32 characters, 3 lines) | `finsh_thread_entry`, `shell_push_history`, `msh_auto_complete`, `msh_exec` |
| ring buffer, console | `Drivers/ipc/ringbuffer.c`, `Drivers/bsp/usart.c`, `Middlewares/rtt_print/segger_rtt_device.c` | buffer, two indices with mirror bits | put, put_force, putchar, putchar_force, get, getchar, peek, reset; `USART0_IRQHandler`, `usart_read` |
| key-value store | `Middlewares/mykvdb/src/fdb_kvdb.c` | sectors with headers and records, `oldest_addr`, `empty_kv`, a cache of addresses | `kv_set`, `kv_get`, delete, `do_gc`, `flashdb_init` with `check_all_kv` |
| ZMODEM receiver | `test_app/zmodem/zmodem_tabby_rx_min.c`, `zmodem_tabby_rx_rz.c` | scratch buffer, page, counters, `super_mode` | `rz` with `on_begin`, `on_data`, `on_end`; `rz_tabby`, `handle_zfile`, `handle_zdata` |
| on-chip flash, flash map | `Drivers/bsp/bsp_flash.c`, `application/boot/flash_map.c` | flash, open counts | read, erase, write |

The key-value store and the ZMODEM receiver are excluded from the builds; they
are modelled because they are the code here that is hardest to get right over
resets and on a bad line. Not modelled: the CAN driver (commented out). Vendored and not
modelled: `gd_stdlib`, CMSIS, mbedTLS, tinycrypt, SEGGER RTT, the kernel service
functions taken from RT-Thread, imgtool; of MCUboot's bootutil only what decides
which slot `boot` starts.

### How they interact

There is one thread of control and two interrupts: SysTick counts, and the
receive interrupt puts bytes into the ring buffer the shell reads from. The
bootloader's `main` loops over `rt_timer_check`, which runs the shell as a
timer callback, and the test of the tick that starts the automatic hand-off.
Commands therefore run to completion between two looks at the tick, but a
reset may come between any two flash operations. Bootloader and application
never run together: they communicate through the parameter page, through
the reset flags of the clock unit, through the watchdog, which one starts and
the other feeds, and through the entry address and stack pointer of the jump. An
image is linked for one slot and may be programmed into the other: the bootloader
checks whether it can run there, and its own startup code moves its
addresses.

### What is hard about it

* **Resets in the wrong place.** A save is an erase and many programs; the
  decision, the save of the decision and the jump are three steps; a value of
  the key-value store is replaced in four writes, and a garbage collection is many.
* **Who is to blame.** A watchdog reset says *that* something hung; *what* hung
  is inferred from `last_boot_slot`, written by an earlier boot of the board.
* **Two programs reading one hardware flag.** Both call the same `wdt_init`; the
  bootloader must clear what the application will look at.
* **A hand-off that returns.** It has masked interrupts and stopped the tick.
* **A board nobody watches.** After a watchdog reset the bootloader leaves the
  watchdog off.
* **A loader that erases** what it does not like, with the automatic start
  depending on what is left.
* **Addresses that are moved**, by two programs, in a RAM that still holds the last
  run's: once, all of them, and nothing that is only a number.
* **An interrupt in the middle of a read.** The two bits and two indices of the
  ring buffer are written and read one after the other, with interrupts on.
* **Callbacks that change what is being walked.** A timer's function may start,
  stop or detach timers, its own included, while `rt_timer_check` goes on; the
  tick wraps.
* **Keys in any order.** Escape sequences arrive in pieces; the line, the history
  and the completion share arrays that keep old characters.
* **A file that is cut three times** on its way to flash, over a line that loses
  bytes, with errors that are passed on as successes.

The full list, each at its line, is under "hazards" in `PROJECT.json`.

## 2. Modules

    RollbackPolicy        what the state machine promises: five variables
    BootParam             the record and its pure updates
    DirectXip             images, and which of them boot chooses
      BootRollback        the state machine (extends the two above;
                          instantiates RollbackPolicy)
        MCBootRollback    image sets for TLC
        MCBootLiveness    the same with a bound on what comes from outside
        BootRollbackProofs    the inductive invariant and the refinement, proved

    RingBuffer            struct rt_ringbuffer and its operations as operators
      RingBufferApi       one action per function; implements ByteQueue
        RingBufferApiProofs   the refinement, proved
      UsartReceive        the receive interrupt against a read, step by step
        UsartReceiveProofs    its inductive invariant, proved
    ByteQueue             what a ring buffer promises
    LineEditor            the shell's line; implements LineDiscipline
      MCLineEditor        command names for TLC
      LineEditorProofs    the refinement, proved
    LineDiscipline        what the editor promises
    Timer                 the timer list, the tick and rt_timer_check
      MCTimer             three timers for TLC
      TimerProofs         its inductive invariant, proved

    AppReloc              the checks of app_prepare_exec as operators on words
      AppStart            the jump, Reset_Handler and the relocation of the RAM
        MCAppStart        nine images for TLC
        AppStartProofs    its inductive invariant, proved

    KvStore               what a key-value store promises: a map
    KvDb                  the store in flash; implements KvStore
      KvDbInv             the ring of sectors, its records, which are valid
        MCKvDb            record lengths for TLC
        KvDbProofs        the inductive invariant and the refinement, proved
    ZmodemReceive         rz and rz_tabby against a sender and a bad line
      MCZmodem            file sizes for TLC
      ZmodemReceiveProofs its inductive invariant, proved

**BootParam** translates `boot_param_t`, its validity check, default and load,
and the five-field updates that are written out again and again in the code:
`Armed` (`boot_set_trial`), `Committed` (`boot_set_active`, `app_confirm`, the
fallback, and the two rollback branches), `Tried`. Magic, version and crc are
abstracted to whether a page holds a complete record or `Erased`, i.e. anything
that fails those checks: the crc is the last word programmed, so a save that is
cut off leaves no valid record.

**DirectXip** reduces an image to what code can tell apart: how MCUboot's checks
judge its header and signature (`hdr`), what happens when it is started (`run`)
and its version.

**BootRollback** is the whole life of a board. `pc` says where the processor is
(out of reset, main loop, shell callback, inside `boot_load_and_validate_images`,
after the decision, about to jump, in the application's startup, in its main
loop, hung, or in the middle of a save). One action is one command, one branch of
`boot_select_app_addr`, one outcome of the loader's loop body, one kind of reset.
A save is two actions, so that every reset can fall between the erase and the
last half-word; the rest of a handler is part of the same action. The record
that `boot_select_app_addr` keeps in RAM is `param`. Where the code's checks
cannot fail (the sanitising after a successful load, `main.c:181-197`), they are
modelled and proved to change nothing (`CurrentIsLoaded`).

Timing is modelled by order only. The watchdog's 5 s exceed the 3 s window plus
a hand-off, and a command is short, so the watchdog bites where nothing more
happens (a hung application, or a main loop left without a tick) and during the
erase of a whole slot, which does not feed it.

Four history variables (`manual`, `tries`, `elected`, `bitten`) record what
properties speak of; no action's guard reads them except through `manual`, which
stands for the return address of `JumpToApplication` (shell or main loop).

**RollbackPolicy** is the abstract specification: an active slot, perhaps a
trial, a number of starts used, whether the record is being written, and the
slot chosen. Its actions are the sentences of README section "回滚策略建议": arm,
elect, try once more if not yet used up, give up a trial that has been started,
start the active slot, fall back when the chosen one holds nothing, and restart,
which may lose the record only while it is being written. The refinement mapping
(`Policy` in `BootRollback`) counts a record as written from the moment its page
is erased; a reset before the last half-word then is the policy's loss.

**RingBuffer** holds the value of `struct rt_ringbuffer` and what each function
makes of it; mirror bit and index are separate fields as in the header. The pool is
a function of its indices, the two `rt_memcpy` of a transfer that wraps are
`Filled` and `Copied`. **RingBufferApi** calls each function as a whole, as a
single caller does; **ByteQueue** is a bounded sequence that is offered bytes, is
forced to take them, or gives up its oldest. The refinement mapping is the
bytes between the two indices.

**UsartReceive** interrupts `rt_ringbuffer_get` between any two of its loads and
stores: the comparison of the indices, that of the mirrors, the loads of
`data_len`, each byte of `rt_memcpy`, and the stores of mirror and index. The handler
is one action, since nothing it touches runs above it. What the reader and the
writer store lies in different half-words, so neither's read-modify-write of a
bit field undoes the other's. `MayFire` allows one interrupt per call: at 115200 baud
a byte takes 87 us, about ten thousand cycles, and a call takes a few hundred. A byte is
its number, so that order, loss and duplication are visible.

**LineEditor** has one action per kind of byte `finsh_thread_entry` reads, with the
escape state as a variable. Arrays keep what was in them; only the characters
are reduced to a few glyphs and NUL. **LineDiscipline** is a text, a cursor and the
last few different commands. What a submitted line executes is observed in `ran`.

**Timer** keeps `_timer_list` as a sequence and the temporary list of
`rt_timer_check`, which never holds more than the timer being called, as a flag.
The deadline of a timer that is in no list is not kept: nothing reads it before
the next start sets it. `age`, the ticks since the last start, is the history the
properties speak of, and does not wrap. A call of a timer's function is open from
`Call` to `FunctionReturns`, and any timer operation may happen in between.

**AppReloc** is `app_reloc.c` in the arithmetic of its unsigned integers, for any
word width: sums and differences that wrap (`Plus`, `Minus`), the range test, the
header's checks, the test that no word of the flash would need a relocation, and the
two values the jump uses. The scan that looks for the header is abstracted to
the header it finds; the thumb bit is left out.

**AppStart** starts an image in one of two slots, from the bootloader's
`JumpToApplication` to the application's `entry()`, over a flash and a RAM of
words. `CopyVectorTable`, `CopyData` and `FillBss` are the three loops of
`Reset_Handler`, `RelocateWord` is one turn of the loop in
`app_runtime_relocate_from_reset`; a reset may come between any of them, keeps the
RAM, and the other slot may be started next. What a linked image is follows from
`test_app/app/link.ld` and is the assumption `LinkAssumption`: where its vectors,
initial values and table are, and that the table has one entry for every address in
its data. A damaged table (one that runs past the end of memory), an image without a
header and an image whose code holds addresses are images too, and must be refused.
The properties are stated with the place a thing linked at an address has in the
running copy (`Here`), not with the code's differences.

**KvDb** has one step for each write to the flash that a reset can separate from the
next one: in `kv_set` the sector mark, PRE_DELETE of the old record, header, dirty
mark, data, commit and deletion; in `do_gc` the mark, and for each record
PRE_DELETE, copy, commit, deletion; then erase and header. `flashdb_init` and
`check_all_kv` run after a reset; the cache, the arguments and the loop variables
are lost. `Walk` is the way `find_kv` goes from record to record by their lengths,
so that a record it cannot reach is not found. Lengths count units of 16 bytes, and a
value fits into a sector (`KvAssumption`). **KvDbInv** has no part of the code, only
the invariant, which the run checks and `KvDbProofs` proves. **KvStore** is a map
whose calls succeed or fail as a whole, and a reset in a call does one or the other.

**ZmodemReceive** reduces the line to tokens: a header, the description of a file, a
byte of data, the end of a subpacket, each with its escapes and checksum. Receiver
actions are what `recv_header` and `read_subpacket_stream` do with a token, with
`on_begin`, `on_data` and `on_end` called where the code calls them. The flash is
a sequence of bytes that programs only erased half-words. The sender offers one
file, chooses where to end subpackets and how, and waits for the answers ZMODEM lets
it wait for; tokens are lost or damaged, deadlines pass, sectors fail to be erased,
the user cancels, and `rz` is started again with its statics as they were. `check_fireware`, which
the sources call and do not contain, is taken to accept nothing but possibly the
right file.

## 3. Runs

| run | checks | shows |
|---|---|---|
| `rollback` | `TrialBudget`, `StartsElectedOrTrial`, `BlamesTrialOrOperator`, `AppIsWatched`, `BootStartsNewestSigned`, `ImplementsPolicy` | all interleavings of commands, hand-off, application and resets, on flash that reports no errors (about 714,000 states) |
| `rollback_faults` | `TypeOK`, `RecordsWellFormed` | the same with an erase or program that may fail at any time, and with trials that confirm themselves (`APP_AUTO_CONFIRM`) |
| `live_recovers` | `BoardRecovers`, `WindowEnds` | with a good active slot the board ends up in a fed application, whatever the trial does, unless something is started by hand; the window always ends |
| `live_unwatched` (violated) | `BoardRecovers` | not if the operator arms a trial while the watchdog is off |
| `live_dead_window` (violated) | `WindowEnds` | not after a refused `run_app` with the watchdog off: the tick is dead |
| `ring_api` | `TypeOK`, `ImplementsQueue` | every sequence of calls, also longer than the buffer, is that of a queue |
| `usart_receive` | `InOrder`, `NothingLost`, `DropsOnlyWhenFull`, `EveryByteIsRead` | the byte-wise read of the shell and the interrupt do not disturb each other |
| `line_editor` | `TypeOK`, `ImplementsLine` | editing, completion, recall and submission, while no line is filled to its end |
| `timers` | `FlagsAgree`, `NeverEarly`, `InDeadlineOrder`, `KeepsFiring`, `FiresOnce` | whatever functions do to timers, across the wrap of the tick; none is starved by another that is started again and again |
| `app_start` | `TypeOK`, `StartsTheRightCopy`, `HandlersFollowTheImage`, `DataFollowsTheImage` | what the bootloader accepts runs as the copy that was chosen, with its own handlers and its own data, whatever the RAM held and wherever earlier starts were cut off |
| `kvdb` | `TypeOK`, `ReadsTheMap`, `LayoutInv`, `ContentsInv`, `ImplementsStore`, `ProgramsErased`, `NeverFull` | over collections, failing writes and resets the store is a map, but for the five windows in `Unsafe`; ring, records and cache are as the proofs need them (about 433,000 states) |
| `zmodem` | `TypeOK`, `NothingLostOnTheWay`, `BootsWhatWasAnnounced`, `Arrives`, `RzReturns` | no byte is lost between line and flash; what is booted is what was announced, also after errors and in a second run; without a fault the file arrives |

The two violated runs state what a line of the repository's README says; the line
is quoted under "findings". Section 5 names further disagreements the models show.

### Bounds, and why they are enough

* `MaxTrial = 2` is the value in the code. The proofs cover every other one.
* `MCImages` has one image for each combination of header verdict and run
  behaviour that the code treats differently, and three versions, so that the
  newest image can be the good one, a forged one or an unbootable one. Both slots
  range over all pairs, and the probe may put any image into any slot later.
  `FewImages` (blank, crashing, forged but good) is used where flash errors
  multiply the states: no property of that run looks at versions.
* Resets, commands and rearmings are *not* bounded in the safety runs. `tries` is
  capped at `MaxTrial + 1`, one more than the property allows.
* `MaxOutside` (5, less where a violation is shown) bounds commands and resets in
  the liveness runs, where "after that nobody touches the board" is what makes the question meaningful. Five
  are enough to arm a trial, hang it, reset it and type two more commands. The
  elected slot is slot 0, which is also what a lost record falls back to: with slot
  1 elected, a reset in the middle of a save forgets the election (section 5).
* `buffer_size = 4` (256 on the board) has every pair of indices on both sides of
  the mirror, and transfers that end short of, at and beyond the end of the pool;
  `MaxCall = 5` is one more than fits. `MaxBytes = 13` is three laps and a byte.
  The proofs about `UsartReceive` cover every size.
* `FINSH_CMD_SIZE = 4` and two history lines let a name be longer than the typed
  prefix, the history shift, and (with `LongLines`) a line overflow. `LongLines =
  FALSE` stops one character before the line is given up: section 5 says what
  happens from there.
* `RT_TICK_MAX = 15`: the tick wraps again and again in the life of a periodic timer. `MaxLag` bounds how long the main loop may keep a due timer waiting;
  the code needs `init_tick + MaxLag` below half of the range (`TimerAssumption`),
  24 days on the board.
* `app_start` has a memory of 256 bytes (`Modulus = 256`), two slots and nine images
  of twelve words: each kind of address (vector, literal, pointer to the first and
  last word, pointer to RAM, number that looks like an address) occurs relocated
  and, where the linker leaves it, not relocated, and one image is linked for the
  upper slot, so that addresses move down as well as up. The proofs cover every
  other memory map and image.
* `kvdb` has three sectors, as `FLASH_SEC_NUM`, of two records each, three keys
  and two values: all records of the sector that is collected may be live, and the
  reserve has just room for them. `MaxFaults = 2` bounds failed writes and resets within a call or
  a start; resets between calls are not bounded. Keys and values are symmetric.
  The instance satisfies the `Conditions` of the theorems (`MCConditions`), which
  cover every other number of sectors, keys and faults.
* `zmodem` has pages of 2 bytes and sectors of 4, files of 1, 3 and 4: one that the
  erase rounds away, one with an odd tail, one that fits exactly. `Window = 3` tokens
  are under way, `MaxCalls = 2` lets `rz` meet its own statics, and `MaxFaults = 1`
  puts one fault anywhere; the safety properties hold with 2 as well.

### Fairness

`Fairness` assumes that SysTick ticks, that the processor goes on with whatever it
can do next (`BootStep`, `AppStep`), and that an armed watchdog bites in the
end. It assumes nothing of the operator, of resets or of when an image hangs. Weak
fairness is enough, since none of these is disabled by another part of the system
while it waits. `LeaveShell` is under it because the callback returns as soon as
no byte is waiting; an operator who never stops typing is outside the assumption
(and is a hazard listed without a property). `AppHang` is unfair: a "hang" image
may also run for ever.

`UsartReceive` assumes that the shell's timer polls again and again and that a call
that has begun goes on, `Timer` that the tick advances, that the main loop calls
`rt_timer_check` and that timer functions return. Nothing is assumed of the sender
or of who starts and stops timers. `ZmodemReceive` assumes that the receiver, which
polls the line in a loop, reads on, and that a sender that can go on does; nothing
is assumed of the user or of faults. `AppStart` and `KvDb` need no fairness, their properties are
safety.

`CHECK_DEADLOCK FALSE` appears in the liveness configurations of the bootloader (with
no command left and an application running, nothing more has to happen) and in
`Zmodem.cfg`: `rz` waits for headers without a deadline, a sender may stop, and a
board that boots ends the model.

## 4. Proofs

`BootRollbackProofs` proves, for every `MaxTrial > 0`, every set of images that
holds the erased one, with and without flash errors and auto-confirm:

| theorem | property |
|---|---|
| `TypeCorrect` | `TypeOK` |
| `RecordsStayWellFormed` | `RecordsWellFormed` |
| `ApplicationsAreWatched` | `AppIsWatched` |
| `BootStartsTheNewest` | `BootStartsNewestSigned` |
| `TrialsAreBounded` | `TrialBudget` |
| `StartsAreElected` | `StartsElectedOrTrial` |
| `BlameIsJustified` | `BlamesTrialOrOperator` |

Its second part proves `Refinement`: without flash errors,
`Spec => ImplementsPolicy`.

`AppStartProofs` proves, for every word width, memory map, pair of slots and set of
well-linked images:

| theorem | property |
|---|---|
| `RangeIsTrue` | `range_is_valid`, whose sum wraps, is the range test on numbers that do not |
| `TypeCorrect` | `TypeOK` |
| `TheRightCopyStarts` | `StartsTheRightCopy` |
| `HandlersFollow` | `HandlersFollowTheImage` |
| `DataFollows` | `DataFollowsTheImage` |

`UsartReceiveProofs` proves, for every `buffer_size` and for callers that read one
byte at a time (`Lengths = {1}`, as `rt_hw_console_getchar` does):

| theorem | property |
|---|---|
| `ReadsInOrder` | `InOrder` |
| `LosesNothing` | `NothingLost` |
| `DropsAreJustified` | `DropsOnlyWhenFull` |

`ZmodemReceiveProofs` proves, for every file, every size of the scratch buffer, the
page and the flash, and every number of faults:

| theorem | property |
|---|---|
| `TypeCorrect` | `TypeOK` |
| `NothingLost` | `NothingLostOnTheWay` |
| `BootsTheFile` | `BootsWhatWasAnnounced` |

`KvDbProofs` proves, for every number and size of sectors, all sets of keys and values,
every number of faults, and any record lengths that fit:

| theorem | property |
|---|---|
| `TypeCorrect` | `TypeOK` |
| `Invariance` | `IInv`, under `Conditions` |
| `RingInOrder` | `LayoutInv`, likewise |
| `OneRecordPerKey` | `ContentsInv`, likewise |
| `GetReadsTheMap` | `ReadsTheMap`, likewise |
| `NothingTwice` | `ProgramsErased`, likewise |
| `StoreIsAMap` | `ImplementsStore`, likewise |

`Conditions` says that there are at least three sectors, that no sequence of
records ends where the limits of the code disagree (`ClearOfTheLimits`), and that no
reset comes in the five windows. Section 5 says what happens without each of the
last two. With two sectors the code collects the one it is filling, which the invariant
does not describe; TLC finds the properties true there, `NeverFull` excepted.
`FLASH_SEC_NUM` is 3.

Three more modules prove, for every size of the arrays and every set of data:

| module | theorem | property |
|---|---|---|
| `RingBufferApiProofs` | `TypeCorrect` | `TypeOK` |
| | `BufferImplementsQueue` | `ImplementsQueue`, for transfers of every length |
| `TimerProofs` | `FlagsAlwaysAgree` | `FlagsAgree`, for every set of timers and width of the tick |
| | `CallsAreNeverEarly` | `NeverEarly` |
| | `CallsAreInOrder` | `InDeadlineOrder` |
| `LineEditorProofs` | `TypeCorrect` | `TypeOK`, while no line is filled to its end |
| | `EditorImplementsLine` | `ImplementsLine`, likewise |

None of the properties is inductive.

**The bootloader.** `TrialBudget` says nothing of what is on flash, and
`BlamesTrialOrOperator` speaks of a moment after a reset about something before
it. `IInv` adds, in parts that are proved one by one:

* `ControlInv` – which slot, flags and watchdog go with each `pc`; in particular
  the page is erased while a save is running, and the reset flag is set only
  between a reset and `wdt_init`;
* `CountInv` – `tries` is bounded by the count on flash, strictly so between the
  save of the count and the jump;
* `ElectInv` – the record names the elected slot also while it is only in RAM;
* `BlameInv` – a record that says its trial was booted last is right about the
  slot running now, and about the slot the watchdog bit, unless that was started
  by hand.

`BootStartsNewestSigned` is an action property and needs one fact besides: while
`boot` makes its choice, every image that verifies is still among those it chooses
from (`AvailInv`). Only what is not signed is skipped or erased, and the only step
from that loop to a jump takes the newest of what is left.

The lemmas in front of the invariant's parts say what each update does to a record
(`ArmedRecord`, `TriedRecord`, `CommittedRecord`, `DefaultRecord`, `LoadedRecord`),
so that the step proofs never look into one.

**The start of an image.** `LoadInv` says that each image is where it was programmed;
what the bootloader's checks imply about it (the table lies in the image, none of its
entries names a word of the flash that the code reads) is proved once, from `Prepared`
and `LinkAssumption`. `PlaceIsFound` shows that bootloader and startup code,
which add and subtract in different orders and wrap, find the same place. The data
invariant says of the RAM, at loop counter `i`, that the pointers named by the first
`i` entries are moved and the others are not; that an address is named by one
entry only is what keeps it from being moved twice.

**The ring buffer under the interrupt.** `BufferInv` relates mirrors and indices to
the number of bytes held and the pool to their numbers. While the mirror has been
flipped and the index not yet moved, it holds of the index as it will be
(`ReadIndex`), and the byte being read counts as taken (`Released`); `CallInv` adds
what a call knows at each of its steps. In that gap a full buffer looks empty to the
handler, which then writes over the byte that has just been copied, rightly so; a
second interrupt in the same call would go on to overwrite bytes not yet read, and
it is here that the proof needs the baud rate. `LenIsDistance` and
`PutKeepsDistance` are the arithmetic of the mirror, `PutKeepsBytes` and
`TakeKeepsBytes` that of the pool.

**The ring buffer as a queue.** `IInv` adds to the types that on one side of the
mirror the writer is not behind the reader and on different sides not before it
(`Sided`). From it the length is the distance between the indices, and each
function's one or two copies are shown to append to, or take from, the sequence of
bytes between them.

**The timers.** `AgeInv` relates deadlines, which wrap, to ages, which do not: the
difference of tick and deadline is how late a timer is, or that plus the whole range,
and none is later than `MaxLag`. With less than half the range ahead, the unsigned
comparison then decides as the ages do. `CheckInv` says that nothing was started since
`rt_timer_check` read the tick, while no function is being called: this is why the
function called next is not early although the tick has gone on. `OrderInv` is the
order of the list in ages, and `ListInv` says which timers are listed, and that
none is listed twice.

**The line editor.** `LineInv`: before `line_position` there are characters, behind it
only NULs, and the cursor is not beyond it. `HistInv`: every entry of the history is
a text that ends before the array does, so that `strlen` of it is bounded. Each
key's loop over the array is then one operation on the text between. The proofs
assume `Short`: no line is filled to its end, and the array is no longer than a 16-bit
position can say.

**The ZMODEM receiver.** `NothingLostOnTheWay` says nothing between two transfers, yet
`rz` runs again with the statics a failed one left, and `on_end` takes the errors of
`rz_tabby` for successes: it flushes the page and may boot whatever was counted. The
invariant that lasts is `StaticsInv`: what was counted is on the flash or in the page
as it was read, or the page cannot be written, now or later, because a half-word below
it is no longer erased, and then nothing boots. A page that failed once fails for ever
(`FlushFacts`), since nothing but the next ZFILE erases. The lemmas in front say
byte by byte what `onchip_flash_write`, `flash_flush_page` and `on_data` do to what is
kept (`KeptByte`); the odd page that is filled up with FF is why the flushed end may
lie one byte beyond it.

**The key-value store.** `ReadsTheMap` and `ImplementsStore` speak of which records are
valid; that the code finds them depends on where records lie, how the sectors are
marked and what is still in RAM. `IInv` has three parts.

* `TypeInv`: flash and RAM have their types, and each step of `kv_set` and `do_gc`
  holds the addresses it will use.
* `LayoutInv`: going round from `oldest_addr` there are `c` full sectors, one that is
  filled up to where the next record goes, and empty ones (`Ring`, `Filling`); in each,
  records lie end to end (`Tiled`). `Spare` is the reserve: outside a collection there
  is an empty sector behind the one being filled. A collection that is begun again
  after a reset may have used it up; then it goes on writing into the sector that was
  the reserve, and what keeps it from running over is that it has written no more
  than it has read: the next record to move lies at or behind the offset where it
  goes. A copy that is left unfinished breaks exactly this (`gc_commit`).
* `ContentsInv`: two valid records of one key are the old and the new of a `kv_set`
  about to delete the old, or the original and the copy of a collection about to
  delete the original; cached addresses are those of valid records of their key; and the
  record being replaced or moved is prepared for deletion and whole.

That a start finds the same ring again (`Scan`) follows from `Ring`, wherever in the
flash the ring begins; that `find_kv` visits every record (`Walk`) from `Tiled`:
among the records it passed over there would be a first. The refinement then needs
one lemma for what marking a record does to `Store`, and one for each step.
`ProgramsErased` follows from `FreeAt`: the next record goes behind all others.

The assumptions are those of the modules: `MaxTrialAssumption`, `ErasedAssumption`,
`ImagesAssumption`, `FlagsAssumption`; `MemoryAssumption`, `SlotAssumption`,
`LinkAssumption`; `BufferSizeAssumption`, `ApiAssumption`, `TimerAssumption`,
`EditorAssumption`, `ZmodemAssumption`, `KvAssumption`. TLC evaluates each on the instances it checks.

`TrialBudget`, `StartsElectedOrTrial`, `BlamesTrialOrOperator` and the refinement
are stated for flash without errors because the code ignores the result of a save:
with errors the old record may survive and a trial be started uncounted.

Only model-checked: the liveness properties (`BoardRecovers`, `WindowEnds`,
`EveryByteIsRead`, `FiresOnce`, `KeepsFiring`, `Arrives`, `RzReturns`; fairness is
out of the prover's reach), and `NeverFull`, which holds of records of one length and not
of every mixture (section 5).

## 5. What the models say besides

### Disagreements without a run of their own

* **Blame.** `run_app` and `boot` leave `last_boot_slot` as it was
  (`application/upgrade.c:72`, `:111`). A trial can therefore be given up because
  the *active* image, started by hand, hung, where README.md:153 has only the trial
  given up that was started. `BlamesTrialOrOperator` states what does hold.
* **Saving is not atomic.** A reset between erase and the last half-word
  (`Drivers/bsp/boot_param.c:125`) loses the record, and with it a slot elected by
  `boot_set_active`; README.md:142 speaks of a persisted choice.
* **A full line is not cleared.** At `Middlewares/finsh/shell.c:757` only the
  positions are set to 0, where the comment says "clear command line": the characters
  stay in the array. The tab key takes the old line up again, and a shorter command
  runs with the rest of it behind.
* **A full line made by the tab key** is discarded by setting `line_position` to 0 and
  not `line_curpos` (`shell.c:727`); Backspace then counts on below 0. `LineEditor`
  stops describing the array there.
* **Longer reads.** With `Lengths = {1, 2}` `InOrder` is false:
  `rt_ringbuffer_status` compares the indices, an interrupt completes a lap, and
  the mirrors then make an empty buffer look full, so that a longer read copies
  bytes that were never received. No caller in the built program reads more than one
  byte; the ZMODEM port would.
* **Confirmation.** As shipped (`APP_AUTO_CONFIRM` 0, `test_app/app/main.c:15`) no
  trial is ever confirmed without the operator, contrary to README.md:155.
* **The oscillator.** If IRC40K does not stabilise, the thresholds stay 0
  (`Drivers/bsp/fwdg.c:76`), the timeout of 5 s is refused, and the watchdog is started
  all the same, with the timeout it has after a reset.

### The key-value store

`Unsafe` names five moments at which a reset is left out of the run. With any of them
allowed TLC finds a violation, of the property named:

* `turning` – between the mark of a sector as full and the first record of the
  next one, no sector is the one being filled; the start takes this for damage and
  formats everything (`ImplementsStore`).
* `delete_old` – the new record is valid and the old one still in PRE_DELETE. Both
  stay: `check_all_kv` does not drop either, contrary to `Middlewares/mykvdb/README.md:40`,
  and the older one is found first (`ImplementsStore`).
* `gc_commit` – a record is copied and the copy not yet marked as valid. The copy
  stays behind as garbage that the next attempt does not reuse, and when all records of the
  sector are live the reserve overflows (`ImplementsStore`).
* `gc_delete` – a record is copied and its original not yet deleted. Both stay, the
  next attempt copies the original again, and a search may find either
  (`ReadsTheMap`).
* `gc_format` – the collected sector is erased and has no header yet
  (`ReadsTheMap`).

The limits at which `alloc_kv`, `do_gc` and `find_kv` decide that no record
follows differ by up to two units. Records that end one or two bytes short of
the sector's end are written and not found: with `sec_size` 9 or 12 instead of 10 a
value is lost without any fault but a clean restart. A collection that is begun again after
a reset may need more room than is left when everything is live. With records of 3 and 6
units and two keys `NeverFull` is violated: `alloc_kv` gives up after two collections
and a value is refused although the live records take less than a third of the
flash; the other properties hold there. A failing write
of a header is never noticed (`res < 0`, while the errors are positive), and `do_gc`
ignores the result of its copies.

### The ZMODEM receiver

* The checksum of a data subpacket is read and not compared, and the position in a
  ZDATA header ignored: lost, damaged and repeated bytes become part of the file, and
  only their number and the image's own checksum are left to notice.
* ZFIN is accepted without ZEOF.
* After ZFILE, `rz_tabby` waits for headers without a deadline: when ZFIN is lost
  `rz` never returns.
* Errors of `rz_tabby` reach `on_end` as values other than 0, which it takes for
  success; after a failed frame it is called twice.
* The result of the erase is ignored, and sizes are rounded up to 1 KiB and down to
  sectors of 2 KiB, so that the last half of a sector may keep the old image.
* Bytes beyond the announced size are programmed without a bound.
* Deadlines are compared with `now < deadline` and fail when the tick wraps.

## 6. Not modelled

* How MCUboot verifies an image: it verifies or it does not.
* `run_app` on an address that is not the start of a slot, and the fault raised by
  reading an address (the bootloader prints the words there before it jumps).
* `app_prepare_exec`'s scan for the header; the thumb bit. In `BootRollback` an image
  is still one that is accepted or refused (`run = "rejected"`): `AppStart`
  says which.
* Badly linked images, but for those `MCAppStart` lists. Two things the code does not
  check are excluded that way: the size of the vector table against the RAM behind
  `APP_VTOR_RAM_BASE`, and a pointer one past the end of the image, which is not
  moved.
* How a command line is split into arguments, and the commands that only print;
  sending on the serial line, and RTT.
* The flash map of MCUboot: in the direct-XIP program its callers pass offsets and
  sizes bootutil has compared with the slot before, nobody reads its open counts, and
  `flash_area_write` is never called.
* In `KvDb`: headers and marks torn by a reset within one write, bits that rot, and
  values that do not fit into a sector. In `ZmodemReceive`: how a header is encoded (hex
  or binary, escapes, trailers), file names, and program errors that go away;
  `zmodem.c` and `zmodem_upgrade.c`, which are commented out as a whole; and
  `check_fireware`, `do_safe_boot` and `APP_OFFSET`, which the sources use and the
  repository does not define.

Most lines of the repository are not its own: the vendor's peripheral library and
headers, CMSIS, SEGGER RTT, bootutil's swap and revert code (compiled out),
RT-Thread's service functions and imgtool. They are outside the project, so that the
models stand for a small share of all lines and for most of those written for this
program.

## 7. Plan

Done: the rollback state machine with its policy, checked and proved; the start of an
image, checked and proved; the ring buffer against a queue and under the receive
interrupt, with proofs; the line editor against a text with a cursor, with proofs; the
timers and the ZMODEM receiver, with proofs; the key-value store against a map,
checked and proved.

What is left, in the order of what it would add:

1. For lines that are filled, the bounds of the line editor's array, as a theorem.
2. `msh` – how a line is split into a command and its arguments at the limit of
   `FINSH_ARG_MAX`.
3. The flash map, together with MCUboot's way through an image's TLVs.
