# A TLA+ model of the LCCA emulator

The repository holds an emulator for a 64-bit CPU of the author's own design
(`cpu/`), an assembler for it (`asm/*.c`) and guest programs (`asm/*.txt`). The
emulator is a multi-threaded C program: one thread interprets instructions, one
reads the keyboard, one prints, and a timer thread comes and goes. The threads
share registers, rings and flags, some under mutexes, some under none. The assembler
makes two passes over a source file, and what it writes is loaded and executed by the
emulator. This directory models those parts in TLA+, checks them with TLC on small
instances and proves the safety results with TLAPS for every value of the constants.

Paths below are relative to the repository's root (`cpu/risc1.c`, ...).

## 1. The system

### Components, their state and their operations

| Component | Source | State | Operations |
|---|---|---|---|
| CPU loop and interrupt controller | `cpu/risc1.c` 61-134, 175-260 | `c_regs` (PSQ, APSQ, APC, EIM, EIP, IA), `intr_pending`, `intr_msg`, `intr_mutex`, `wake` | `lcca_run`, `intr_internal`, `intr_restore_disp`, `lcca_intr`, `lcca_wake` |
| Timer | `cpu/risc1.c` 136-171, 248-256 | `CR_TIMER`, `timer_active`, `timer_msg` | `timer_thread`, the start at the end of `lcca_run`'s loop |
| Console, keyboard half | `cpu/console.c` | `buffer`, `current_in`, `current_out`, `ctrl_byte`, `buffer_mutex` | `console_thread`; registers 0, 1, 2 of `console_read`/`console_write` |
| Console, printing half | `cpu/console.c` | `prt_buf`, `prt_in`, `prt_out`, `prt_size`, `prt_buf_mutex`, `prt_ready` | `prt_thread`; registers 0 and 3 |
| Guest's console driver | `asm/hello.txt` | the guest's registers, PSQ, the console's registers | `echo_loop`, `tget`, `halt`, `cons_wait`, `cons_get`, `cons_prt`, the EXTN handler |
| Shutdown | `cpu/risc1.c` 227-240, 324-345, `cpu/console.c` 215-227 | `running`, the threads and mutexes | `lcca_run`'s return, `destroy_console`, `main` |
| Translation buffer | `cpu/tlb.c`, `cpu/uthash.h` | 128 entries and a hash table over them | `tlb_set`, `tlb_lookup`, `tlb_invpgid`, `lcca64_xmu_7` |
| Address translation | `cpu/risc2.c` 14-110 | segment registers `CR_OB*`, `CR_OD*`, the translation buffer | `translate`, `translate_linear`, `translate_page` |
| Instruction set | `cpu/risc2.c`, `cpu/risc1.c` 17-120, 204-226 | registers, PSQ, control registers, `pc` | the `lcca64_*` operations, `intr_internal`, `intr_restore_disp`, `error` |
| Bus and MMIO | `cpu/mmio.c` | memory, 4096 units, `cas_lock` (unused) | `read_*`, `write_*`, `fetch_u4b` |
| Blinkenlights | `cpu/blinkenlights.c` | an SDL window, `throttle` | display |
| Assembler | `asm/*.c` | position in the file, `pc`, `err`, labels, output | two passes; one function per form of statement |
| Other guest programs | `asm/*.txt`, `*.bfk` | | |

How they interact: `lcca_run` calls the operation of each instruction, which
translates addresses and goes through the bus to memory or to a unit's `read` and
`write`; the console's `read` and `write` run on the CPU's thread, beside
`console_thread` and `prt_thread`, which share the rings with them. `console_thread`
calls `lcca_intr` with `buffer_mutex` held. The timer thread writes the CPU's
registers with no lock and signals `wake`. At the end `main` cancels and joins the
console's threads, while the timer thread runs on.

### What is hard

* **Signals against tests.** `lcca_run` tests for interrupts without a mutex and waits
  with one; `prt_thread` tests once before it waits, with no loop.
* **Variables with no lock.** `timer_active`, `timer_msg`, `CR_TIMER` and both status
  registers are read, and some written, by two threads.
* **One slot for the interrupted state.** APC and APSQ have no second copy: two
  entries with no instruction between them lose a program.
* **Rings at their limits.** One ring counts its bytes, the other leaves a slot free;
  flow control characters go out partly under the mutex, partly after it.
* **Cancellation.** Threads are cancelled in `getchar`, `write` and `cond_wait`, and
  may hold a mutex, or wait for one, at that time.
* **A hash table over fields that change.** `tlb_set` changes the key of an entry that
  the table links.
* **Translation in parts.** Objects, keys and values of pages are written by separate
  instructions; a fault comes after the mark of a store and before the store.
* **Instructions that an interrupt or a fault can split.** A long immediate is two words,
  a fault of a fetch leaves `pc` where it was and one of a load or store does not, and
  with AE entry and return exchange registers with the program's.
* **Two programs that must agree.** The assembler puts fields where the machine looks for
  them, scales what the machine unscales, writes big-endian what the machine reads so; its two
  passes see different errors and must place labels at the same addresses.

PROJECT.json lists each of these as a hazard, at its line, with the properties that
watch it.

### What makes each component correct

* CPU loop: an interrupt is taken once, with its latest message, only when posted; no
  two asynchronous entries between two instructions; a wait ends on an interrupt.
* Timer: at most one timer thread; a set timer gets one.
* Rings: queues; no byte lost after a poll; no thread asleep on work; the terminal is
  not left stopped.
* Driver: no sleep over a key; every key is read; only an empty line ends the emulator.
* Shutdown: nothing used after `free`; the process ends.
* Translation buffer: answers as an associative memory would.
* Translation: what is translated is what objects and the program's pages grant; a fault
  names the page that repairs it; an object that was stored to is marked.
* Instructions under interrupts: a program runs as if it were alone, and stays without
  privilege.
* Assembler and machine: both passes place the labels alike; what a statement says is what
  the machine does.

## 2. The modules

| Module | Models | Abstract specification |
|---|---|---|
| `Psq` | status word flags and what interrupt entry clears | |
| `Lcca` | `lcca_run`, `lcca_intr`, `timer_thread` | `Mailbox` |
| `PrintRing` | printing half of the console | `ByteQueue` |
| `KeyRing` | keyboard half of the console | `ByteQueue` |
| `ConsoleDriver` | `asm/hello.txt`'s driver and the lines read with it; composes `Lcca` and `KeyRing` | |
| `Shutdown` | return of `lcca_run`, `destroy_console`, exit | |
| `Tlb` | translation buffer with its hash table | `AssocTlb` |
| `Xmu` | `translate*`, the objects, `lcca64_xmu_7`; extends `Tlb` | `AssocTlb` |
| `Word` | `uint64_t` as sets of bits, `EXTn`, `shl` ... `sha` | |
| `Bus` | `cpu/mmio.c` | |
| `Isa` | all instructions, entry, return and `lcca_run`'s round, as operators on a machine | |
| `Exec` | a program and handlers on `Isa`, with interrupts and page faults | `Program` |
| `Asm` | the assembler's two passes | |
| `Toolchain` | composes `Asm` and `Isa`: assemble, load, run | what statements mean (`Means`) |
| `LccaProofs`, `PrintRingProofs`, `KeyRingProofs`, `DriverProofs`, `ShutdownProofs`, `MachineProofs` (`Tlb`, `Xmu` and `Exec`), `AssemblerProofs` (`Word`, `Asm` and the loading of `Toolchain`), `ToolchainProofs` | theorems | |
| `MC*` | instances for TLC | |

The operators named `Name_Variant` after a definition `Name`, each marked "Mutant",
are plausible mistakes in the code of `Name`. Nothing uses them; putting one in the
place of `Name` makes TLC report the property that PROJECT.json pairs with it.

### Lcca

The grain is that of the shared accesses. `cpu` is the place in the loop: `timer`
(the test of `timer_msg`), `ack`, `poll` (the test of `intr_pending`), `extn` (the
`for` loop), `exec`, `asleep`/`woken` in `pthread_cond_wait`, `tail` (the start of the
timer thread), `stopped`. `dev[l]` is a device between `lcca_intr`'s unlock and its
signal. Each statement of `timer_thread` that touches shared state is an action, and
`CR_TIMER ^= ...` is two, a load and a store, for it is not atomic.

The guest is any program: an instruction is one of the writes of the control registers
that matter (`MtcrPsq`, `MtcrApsq`, `MtcrEim`, `MtcrTimer`), a return
(`Rex`), a synchronous trap (`Trap`) or anything else (`OtherInstr`). `CR_TIMER` is two
facts, "the interval is not zero" and "bit 40 is set"; how long a thread sleeps is
"some time". `entries` and `handed` are history variables: asynchronous entries since the
last instruction, and the message that the last EXTN entry put into CR_EIP (the register
itself is the guest's to overwrite, and only the guest reads it).

`Mailbox` keeps the device's place in its call (`dev`), so that only a call of `lcca_intr`
posts, once; a bit that the CPU loop set by itself would be no step of it.

### PrintRing and KeyRing

A critical section is one step; polls of the status register, which take no mutex,
come between any two. In `KeyRing` the section of `console_thread` that calls
`lcca_intr` is three steps (`Store`, `Interrupt`, `Signal`), because it holds
`buffer_mutex` over that call, and the `XON` that `console_read` puts after its unlock
is a step of its own (`SendXon`). `accepted`, `printed`, `typed`, `stored`,
`got`, `flow` and `told` are history variables. What `write` returns is left out, as in
`prt_thread`: a byte that was handed to it counts as printed. `ByteQueue` has the input beside the queue
and the output, so that a byte invented between the two ends is refused. The contents of a fresh ring are arbitrary: `malloc` does
not clear them. Echo is left out: it writes to the terminal only.

### ConsoleDriver

Guest places are the labels of `asm/hello.txt` (`cons_wait`, `cons_get`, `cons_do_w`,
...), with `at` for `pc` and `apc` for `CR_APC`. Every guest action is an action of
`Lcca` (the instruction's effect on the CPU) conjoined with an action of `KeyRing` (its
effect on the console) and with the move of the program counter; `console_thread`'s call
of `lcca_intr` is `K!Interrupt /\ M!Raise(4)`. `WriteCtrl` at the start asks for an
interrupt for every key, as the program does. The driver's own `testedOn` remembers
whether EI was on at the last poll. The timer is off: the driver's handler for it
neither ends a wait nor reads keys.

The caller of `cons_wait` is `tget`, which `echo_loop` calls for a line of at most
`LINE_MAX` characters (126). `line` is its count, X0; RET ends the line and is not one of its
characters. A line is echoed and the next one begun (`LineEnds`, and `Character` for a full
line); for an empty one `echo_loop` goes to `halt`, which sets WS without EI, and the CPU loop
returns (`M!Stop`). A full line is returned without its RET: typed after it, that RET is an
empty line.

### Shutdown

The main thread (which is the CPU), the two console threads and the three mutexes, with
what each thread holds and where it can be cancelled. The rings are reduced to "a key
interrupts or not" and to a number of bytes. `pthread_cancel` is deferred: a thread ends
at `getchar`, `write` or in `cond_wait`, never in `mutex_lock`; one that ends in
`cond_wait` takes the mutex again and keeps it.

### Tlb

A key is a pair of a page tag and a page group; group 0 means "no entry". `hash` is
what uthash keeps: a link to a row and the key (its hash value) at the time of linking.
`Find` demands that both the link's key and the row's key of the moment are the searched
one, as HASH_FIND does. `tlb_invpgid` goes row by row, so that the invariants hold in the
middle of it too. `op` is a history variable, the last instruction with its operands and its
result: `AssocTlb` has it as well, so that a row that changes on its own, or a wrong row that
changes, is no step of it.

### Xmu

An address is a number, its object and page are what division leaves (the sizes are
constants: 2^10, 2^60, 2^64 in the code). `Results` is `translate` as a function of address,
size, access, level and group, with the search of the buffer in it; `Access` is an
instruction that uses it, with its effects: the search, the D flag, the interrupt. `stores`
is a history variable: whether a store to an object began or was translated since its
descriptor was written. The instructions of the buffer are those of `Tlb`, under the test
for privilege; `InvalidateRow` is a step, but nothing runs between two of them.

### Word, Bus and Isa

A word is the set of the positions of its bits: fields, masks and shifts are set
operations, addition is defined by its carries, and the width is 64 without numbers that
TLC could not represent. Where the code has numbers for words (sizes, addresses of bytes,
amounts of shifts), `Num` and `ToNat` convert, by halving and doubling bit by bit; both are
recursive functions, so that they can be reasoned about. `Isa` has one operator per C function; a machine is a record of
registers, control registers, `pc`, memory and the calls it made of units. `ls_2`, `ls_3`,
`ls_a` and `ls_b` differ in tables (`Short`, `Long`) and in the address, and are one operator.
Control register 48 is `pc`, the field behind the array (`GetCr`, `SetCr`). `Garbage` is what
`rand` and `srand` write back, a variable that is never set.

### Exec and Program

`Exec` is a machine whose memory holds a program without privilege and its handlers. Between
any two rounds TIME or EXTN may be taken, and any fetch, load or store of the program may
fault; the fault's two forms (before and after `pc += 4`) are two actions. `View` is the
program, its registers, `pc`, status, objects and memory, as it is in the machine or, while a
handler runs, where the entry put it. `Program` is that program alone: its instructions one
after another, each with the effect (`Executed`) that it has on a machine with nothing else in
it. `retry` and `last` are history variables: the program that a page fault stopped stands on
the instruction before the one that CR_APC names; and a handler may use the registers, if it
gives them back, so the program under it is the one that the entry left. `Private` is the
handlers' own memory. `Disciplined` is the contract between the two sides: what a handler has
to give back and where it returns to (`GivesBack`), and what a program has to leave alone
(`Careful`).

### Asm and Toolchain

A source is a sequence of statements; operands are numbers, registers, labels with what
follows `@`, or texts. `Forms` gives, for each kind of instruction, the operands that it may
have with their ranges and their fields, and `Encoded` puts them there; the `asm_*` functions,
which repeat the same few lines, are rows of it. `ErrorAfter` follows `err` through the
operands, since it is not cleared between statements: a number clears it, the name of a
register does not. `firsts` and `places` are history variables: where each pass found the
statements. `Toolchain` loads the output at 0x10000, as far as `main`'s `fread` takes it
(`LOAD_MAX`, 0x10000 bytes; what is longer loses its end without a word), and executes it.
The properties of what runs are about a file that was loaded whole (`Whole`). `Means` says what each
statement means in terms of registers, labels and integers wider than a word, with no
fields, encodings or shifts of displacements; `MeansWhatItSays` compares it with what
`Execute` makes of the assembled words.

`Means` says nothing of `hvc`, of the instructions of the translation buffer, of `rand`,
`srand` and `trap`; of a field of bits that leaves the word or has a number below zero; nor of
the two sums of the first point below.

What was found there is stated in the model as it is. But for `rex`, nothing written in the
repository contradicts it:

* `sub` with OC: the negation of the least number is itself, and `c + d` may wrap before it is
  added; the test (`cpu/risc2.c:106`) is wrong in those two cases. `Adds` excepts them.
* `trap` is assembled with function 0, which is `svc` (`asm/asminst.c:700`).
* `rex` without operands takes the next word of the file as one. The guest programs know it
  and write `rex 0` ("assembler bug: should just be 'rex'", `asm/hello.txt:751`); the form
  without operands is not in the model.
* `extn`, `extnm` and `bifn` accept numbers from -32 on; a bit below zero fills the field of the
  other number too (`bit | (shamt << 6)`, `asm/asminst.c:911`).
* In the first pass an error stays pending (`asm/asminst.c:936`): a directive with a label after an
  unresolved one does nothing in that pass and something in the second. `LabelsAgree` excepts
  it (`misled`), and a file with a label twice, which ends the first pass there.
* A second pass that ends early, and a label that is there twice, leave a shorter file and exit
  status 0.
* `asciz ""` writes no byte, not even the zero.
* A number in the upper half of the unsigned range of a field is accepted and sign-extended
  by the machine.

## 3. The runs

| Run | Configuration | Shows |
|---|---|---|
| `lcca` | 1 line, 2 messages, 2 timer threads, fairness | `TypeOK`; `OneTimerThread`: the handshake over `timer_active` never has two threads; `OneEntryPerInstruction`; `TakingPending`: the `^=` always clears; `MailboxSpec`: refinement of `Mailbox`; `ServedWhenPolled`: a line the guest keeps enabling is taken; `TimerStarts` |
| `printring` | ring of 3, 2 chars, 7 bytes, fairness | `IndicesAgree`, `SleepsOnlyWhenEmpty`, `ReadyStaysReady`, `ChannelSpec` (refinement of `ByteQueue`), `AllPrinted` |
| `keyring` | ring of 3 slots, DEL, RET and EOF, 4 keys | `NeverLeftStopped`, `FullIsAnnounced`, `ReadyStaysReady`, `QueueSpec` (refinement of `ByteQueue`) |
| `driver` | ring of 3 slots, lines of 2, 4 keys of RET and another, fairness | `CleanWaitSafe`: a wait decided on with interrupts off misses no key; `EndsOnEmptyLine`: no wait and no handler ends the emulator, only an empty line; `KeysRead`: every key is read, unless an empty line ends the emulator before or the guest sleeps for ever as in disagreements 1 and 3 |
| `xmu` | 2 rows, 2 pages, 2 groups, 3 values, 1 object, 2 descriptors | `HashIsIndex`, `KeysUnique`, `AssocSpec` (refinement of `AssocTlb`); `TranslationCorrect`: against rights and pages looked up one by one; `HandlerRepairsFault`: a row with the fault's page is what the retry finds; `DirtyTellsStores` |
| `exec` | one program of calls, loads, stores, long immediates and traps, with and without AE and paging, and 256 programs of one word | `ProgramRuns` (refinement of `Program`); `StackKept`: the handlers' stack pointer survives the exchanges; `UserConfined`; `Disciplined`: the contract holds of handlers that use registers and their stack, and of these programs |
| `toolchain` | 291 files of one statement, 15 of several, one of them longer than `main` loads; 100 starting machines | `LabelsAgree`, `FileFollowsPc`, `DataArrives`, `MeansWhatItSays` |
| `shutdown` | up to 2 bytes, fairness | `NoUseAfterFree`, `QuietExit`: the process ends when no key is on its way into `lcca_intr` |
| `lost_wakeup` | 1 line, 1 message, 1 thread | *violated*: `WaitEndsOnInterrupt` |
| `lost_timer` | 1 line, 1 message, 1 thread | *violated*: `WaitHasTimer` |
| `lost_key` | driver with 3 keys | *violated*: `NeverSleepsOnData` |
| `shutdown_hang` | as `shutdown` | *violated*: `Exits` |

### The four disagreements

1. **Lost wake-up** (`cpu/risc1.c:241`). `intr_pending` is tested before `intr_mutex` is
   taken and not again before the wait. An interrupt that is posted in between signals
   nobody, and the CPU sleeps on an enabled, pending interrupt; `asm/hello.txt:731` calls
   this state "wait state with interrupts". The CPU goes on only by a later interrupt, a
   tick of the timer or a wait that ends without a signal.
2. **Lost timer** (`cpu/risc1.c:163`). A timer thread that has seen a zero interval and
   not cleared `timer_active` yet makes `lcca_run` miss a timer that is set in between.
   It is noticed at the next end of a round of the loop, which does not come when the
   guest waits for that timer. So `TimerStarts` excepts a CPU that sleeps.
3. **Lost key** (`asm/hello.txt:732`). The driver turns interrupts off before it tests
   the status, so that no key comes between the test and the wait ("with interrupts
   off", line 715; "if no data, do wait", 721). But it turns them on to wait and does not
   turn them off before it tests again. A wake-up that brought no key (any `cond_wait` may
   end by itself, and the timer's tick ends one in the emulator) leaves it in that second
   test. `CleanWaitSafe` is what does hold, and `KeysRead`: a key stays unread for ever only
   in such a wait (`UnsafeWait`), or in one that lost its wake-up as above
   (`SleepsOnInterrupt`).
4. **Hang at exit** (`cpu/risc1.c:239`). `lcca_run` returns with `intr_mutex` locked. A
   `console_thread` that is about to call `lcca_intr` waits for the mutex for ever, cannot
   be cancelled there, and is joined by `main`. `QuietExit` is what does hold.

### Bounds, and why they are enough

* **One line** in `lcca`: the emulator has one interrupt source (`CONSOLE_IRQ` = 4).
  `OneEntryPerInstruction` depends on it. The `for` loop of `lcca_run` does not look at EI
  between two lines, so two lines would be entered back to back; theorem `OneEntry` states
  the assumption.
* **Two messages** tell the latest message from an older one; **two thread identities**
  are one more than ever live, so a second thread would be seen.
* **Rings of 3**: both indices wrap (7 bytes go around the printing ring twice, 4 keys go
  past the end of the keyboard ring), and empty, partly filled and full differ. The
  theorems hold for every size.
* **`driver`**: lines of 2 characters, and 4 keys, each RET or not: empty lines, short lines, full
  ones with their RET behind them, and a line after a line. The guest halts in some
  behaviours and is still waiting when the typing ends in others.
* **`MaxTyped`, `MaxPrinted`** bound input, not behaviour: a run that stops there is a
  user who stops typing. Deadlock is checked except where the program may stop: in
  `lcca`, after the CPU has returned with `intr_mutex`, in `shutdown`, where the process
  ends, in `driver` and `lost_key`, where the guest may halt, in `toolchain`, where the assembler ends, and in `exec`, at the bound of `Code`.
* **`xmu`**: two rows, so that a key can be in the other row; operands 1 and 2 wrap around
  them, and one is an identifier of a group. A base that is not that of a page and addresses
  of both pages make sums that wrap. `VIEW View` drops the history variable `op` when no loop
  runs and it has its type: only an action in the loop, and `AssocTlb` within one step, read it.
* **`exec`**: the program has each kind of instruction that an interrupt could harm; the words of
  every opcode and function have two choices of operands, of which one makes an access fail. The
  busiest handler saves registers on its stack, the only 8 bytes in `Private`. `Code`
  bounds where `pc` stays: a program that leaves it is looked at no further.
* **`toolchain`**: `LOAD_MAX` is 56 bytes, so that one program is longer. Operands are the least, the greatest and the middle of each field, registers
  the least and the greatest number, powers, and addresses of memory and of a unit. Execution is
  bounded by twice the number of statements.

### Fairness

Weak fairness of a thread says that the operating system schedules it. `lcca`: the
CPU, the signal half of `lcca_intr` (a device may never raise anything, but once inside it
goes on) and each timer thread. `printring`: `prt_thread`; not the guest. `driver`: the
CPU's thread and `console_thread`; not the typing, and no wait has to end by itself.
`shutdown`: the threads and, for the exit, the user's Return; the guest need not stop. No
strong fairness is used, nor is any lock assumed to be fair.

`ServedWhenPolled` takes as its premise that the loop comes to the poll again and again
with EI on and the line enabled. That is up to the guest, not the emulator.

## 4. The theorems

`TypeOK` is proved inductive in every proof module first; the other proofs rest on it. The
assumptions are the named ones in the modules: ring sizes that are not 0 (for the keyboard,
not 0 or 1: one slot stays free), lines within the 16 slots, page groups that are not 0. For
the assembler they say what a source file is: a sequence of statements whose numbers are
64-bit words and whose texts are bytes (`SourcesAssumption`); that registers, control registers
and `pc` of a machine hold 64-bit words (`MachinesAssumption`), as do a register of a unit
(`UnitAssumption`) and a variable that is never set (`GarbageAssumption`); and that `main`
loads no more than 65536 bytes (`LoadAssumption`).

* **LccaProofs.** `TimerHandshake` is inductive as it stands because its two halves hold
  each other up: with `timer_active` equal to "a thread lives", `Tail` can only start a
  thread when none lives, and `EndThread`, which clears the flag, takes away the only one.
  `TakingStaysPending` gives `ImplementsMailbox`: only with the bit still set is the `^=`
  a removal, that is, the `Take` of a mailbox. `OneEntry` needs `EntriesByPlace`, which says
  where in the loop an entry can already have been made: at `poll` with EI on there was
  none, for a TIME entry clears EI.
* **PrintRingProofs.** `IndicesCorrect` and `NoLostSignal` (a thread that sleeps, sleeps on
  an empty ring: every step that fills the ring also wakes it); with the indices known,
  `ImplementsChannel` shows that writing appends to `Contents` and taking removes its head,
  at any size, by lemmas about `%`. From it `NothingOvertakes`: what was accepted is what was
  printed, followed by what is on its way.
* **KeyRingProofs.** `ImplementsQueue` and `NothingOvertakes` by the same argument over
  `Size`, computed from two indices. `StoppedTerminalGoesOn`, `FullRingInterrupts` and `PollingFindsKeys` are
  inductive together (`KeyInv`), with the types of the indices: the proof follows XOFF, XON and
  the interrupt through the places of both threads and the arithmetic of full and empty.
* **DriverProofs.** The driver is a composition, and `DriverRunsLcca` and `DriverRunsRing`
  say what it is composed of: a step of it is a step of `lcca_run` or leaves it alone, and
  likewise for the ring. So what is proved of `Lcca` for every guest and of `KeyRing` for
  every reader holds of the driver. `CleanWait` needs `WaitInv`: where in the driver the
  wait state and EI can be on, where the handler returns to, that the program asked for an
  interrupt at every key before it ever waits, and that a key in the ring of a driver that
  waits, having tested with interrupts off, has its interrupt on its way or pending. The last
  part alone is not inductive: an entry takes the pending interrupt away, and only the places
  of the handler and of its return show that the driver then tests again. `EndsCorrect` needs
  `LineInv` beside it: what `tget` has counted are characters of one line, the last keys that
  were read, but for the one that it has yet to look at; and with none of them a line begins.
  `WaitInv` has the rest: WS without EI is at `halt` only.
* **ShutdownProofs.** `FreedUnused` from `JoinInv`: what `main` has joined, stays ended.
* **MachineProofs.** First the buffer alone. `HashCorrect` (the table is exactly the index of the rows) and
  `UniqueCorrect` together are inductive: a search has one answer because keys are unique,
  and keys stay unique because `tlb_set` searches first. `ImplementsAssoc` maps the rows that
  `tlb_invpgid` has not reached yet to cleared rows, so that the loop is one step of the
  associative memory.
  Then the translation: an access is a search of the buffer or leaves it alone (`StepIsTlbStep`), so
  `XmuSpec` implies `Tlb`'s `Spec` and its invariants (`XmuUsesBuffer`).
  `TranslationIsCorrect` and `RepairCorrect` rest on them: a search finds a row only if the
  row has the key (`FoundRow`), and the only one that has it. The sizes are arbitrary
  multiples, by lemmas about `\div` and `%`. `DirtyCorrect` is inductive as it stands.
  Then programs. `ProgramsConfined`: each operator of `Isa` is shown to leave the
  control registers as they are, to change LG only, or to be an entry (the `...Tame`
  lemmas), for every word, every memory and every handler. `EntriesHideNothing`: every
  interrupt and fault leaves `View` as it is; the addition and subtraction of 4 to `pc` on words as
  sets cancel (`BackAndForth`). `ReturnGivesBack`: an entry and a return leave program, memory
  and control registers as they were.
  `ProgramsRun` is `ProgramRuns` for every program and every handler that are `Disciplined`; no code of
  a handler is assumed, only what it gives back. The argument relies on one side and guarantees
  the other. For the program's steps, two machines are compared, the one with handlers, objects
  and units and the one that has nothing but the program: where they are `Alike`, each operation
  leaves them alike (`Stays`) or stops both in an entry (`Stops`), and a store to the program's
  memory is the same store with and without the handlers' (`SharedStore`); these are the
  `...Followed` lemmas. For the handlers' steps, `ReturnSeen` says that a return of what the entry
  left shows the program that the entry left, one instruction back if it is repeated. The
  inductive invariant (`BothInv`) adds that under a handler `last` is a machine that an entry
  from a program left. Its second part, `StackInv`, is `StackIsKept`: the stack pointer of the handlers
  is in CR_ASP or, under a handler with AE, in the SP that the entry left.
* **AssemblerProofs.** First words: `WordArithmetic` says that `Num` and addition, negation
  and subtraction of bit sets are those of integers modulo 2^64, which makes addresses
  numbers wherever the assembler counts bytes. `LoadStoreCoding`, `BranchCoding` and
  `LongImmediateCoding`: from the words that the assembler writes the machine takes the
  registers and the number of the source, for every operand that fits. Then the assembler, for every source file. `LabelsStand`
  needs `PassInv`: the first pass, unless it was misled, found each statement so far at the
  address in `firsts` and registered the labels there, and its labels are those of the second
  pass as far as that has come, which therefore goes through the same addresses. A statement
  gets the same size with fewer labels (`Sized`), unless it is one that misleads.
  `FileFollows` rests on `FileInv`: as long as no origin moved `pc`, `pc` is the number of
  bytes written past the start, and each item of data written so far lies at its place in the
  file (`Lies`). Its operand must not change when more labels are defined, which is what
  `Certain` keeps. `StoredIsLoaded`: what a store puts into memory, the load of the same
  size at the same address gets, and no other byte changes. `DataIsLoaded` combines it with
  `FileInv` and with what `main` loads (`LoadInv`).
* **ToolchainProofs**, which extends it. First, what a statement does. `ArithmeticMeans`, `ControlMeans`, `SystemMeans`,
  `FieldMeans` and `MemoryMeans` are `Means` for all statements of their forms: for a statement and a machine
  that are `Ready`, what `Execute` makes of the machine is what the text says. `Ready` is
  three things: registers and control registers are words (`IsMachine`); the word that the
  assembler makes of the statement is in memory where the machine fetches, without a fault,
  and LG is off (`Stands`); and the assembler takes the statement without an error, with
  operands in the range that `asm_eval` checks (`Proper`). The argument is the same for each
  form: the fields of the word lie beside each other (`Filled`, `StorageFilled`), the machine
  takes from each place what was put there (`Decodes`), and the operation, of these
  operands, is the one of `Means`, on bit sets. Sums that trap with OC set rest on
  `WideFits`: the sum of the signed words in 67 bits fits a word exactly if `risc2.c`'s test
  of the signs finds no overflow. `MemoryMeans` rests on `ScaledFits` (the displacement that
  the assembler divided is the text's again after the machine's shift), on `StoredBack` and
  on `ErrorTraps`: the datum is at the address of the text, a store leaves the datum there and
  nothing else, and where the bus refuses there is the trap of that refusal.
  `LongImmediateMeans` takes two rounds: both words stand in memory (`StandsLong`), LG is on
  between them and off after them. Three clauses of `Means` turned out to say too much: that
  `extnm` works for fields past bit 63, that a load names an object past the seventh, and that `rex`
  returns so many words further than its field holds; they now have these limits
  as hypotheses.
  Last, programs. `MachineStays`: whatever a loaded machine executes, code or data, it stays a
  machine of words; each operation is shown to make words of words (the `...Machine` lemmas),
  and `RoundInv` says in addition what the machine became of the one in which the last
  statement began. `ProgramsMean`: `MeansWhatItSays` for every source file and every machine
  it is started on, from three inductive invariants, `FileInv`, `RoundInv` and `CodeInv` (each
  instruction of the second pass so far lies in the file, as far from its beginning as its
  address is from where the file is loaded, and was assembled with labels that stay what they
  are). Its hypothesis is `Undisturbed`, about the machine in which the last statement began:
  no origin moved the statement away from its bytes; where the machine fetches it, without a
  fault, the bytes of the file are still there; its operands are of the ranges that its form
  asks for (a label may be any number); and it does not turn LG on, unless it is a long
  immediate (`mtcr` and `rex` can). Without it the property says nothing that could be proved:
  a program may overwrite its own code. In the run `toolchain` it holds in every state in
  which a statement of the file was executed.

Only model-checked:

* All liveness (`ServedWhenPolled`, `TimerStarts`, `AllPrinted`, `KeysRead`,
  `QuietExit`): the prover handles neither fairness nor ENABLED.
* That given handlers and programs are `Disciplined`: it depends on their code.
* That the statements of a given program are `Undisturbed`: it depends on where its stores go.

## 5. What is not modelled

* **Echo, the C library's buffers and EOF of the terminal driver.** In particular
  `putchar` of XON may stay in a buffer; `NeverLeftStopped` is about the order of the calls.
  `putchar` is a cancellation point too; at shutdown it would only end `console_thread` earlier.
* **Undefined behaviour of the unlocked accesses** beyond the interleavings of single loads
  and stores: all are aligned words, which the targets load and store whole.
* **Timer in `ConsoleDriver` and `Shutdown`.** Left out as said above; that it runs on
  after `main` has returned is a hazard with no property.
* **`tlb_destroy`**, at exit, and uthash's buckets: a table that finds what is linked.
* **Blinkenlights:** a window that reads registers and sets `throttle`, which only slows
  the CPU down.
* **Tokens of a source file** (`asm/asmfile.c`): characters, quotes, comments and commas.
  What they leave for the rest is modelled; mistakes in them are not. Nor are labels of more than
  16 characters, for which `register_label` has no room (`asm/asmlabel.c:48`).
* **The random generator's state and the host's calls** (`simdbg_0`): the model records that the call
  was made. **Error codes of units:** the console and the lights return none.
* **Guest programs** other than the console driver; of `asm/hello.txt`, also what comes
  before `init_intr`, `tput` and the timer's handler.

## 6. The plan

Done, with their theorems: `Lcca` and `Mailbox`; `PrintRing`, `KeyRing` and `ByteQueue`;
`ConsoleDriver`; `Tlb` and `AssocTlb`; `Shutdown`; `Xmu`; `Word`, `Bus`, `Isa`,
`Exec` and `Program`; `Asm` and `Toolchain`. Left, in order:

1. The guest's memory allocator (`asm/hello.txt`), against a set of free blocks.
2. `Shutdown` with the timer thread that runs on.
