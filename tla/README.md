# A verification project for the traps kernel

The repository is a small RISC-V (Sv39, one hart, QEMU `virt`) kernel in C: it
boots into S-mode, builds its page tables, sets up traps, the PLIC, the timer
and the serial port, and runs a shell (`uptime`, `echo`, `alarm`). This
directory holds TLA+ modules translated from its source, the TLC configurations
that check them on small instances, and theorems that TLAPS proves for every
value of the constants. `PROJECT.json` is the index: which definition models
which lines, what each run checks, the known hazards, the findings.

Paths below are relative to the repository.

## 1. Inventory

| Component | State | Operations | Module |
| --- | --- | --- | --- |
| receive path (`src/drivers/serial.c`, `src/trap.c`, loop of `src/kmain.c`) | `dev.buf`, `dev.len`, `dev.sl`, `input_buf`, `read_bytes`, saved `flags` | `serial_init`, `serial_irq_enable`, `serial_irq`, `serial_read` | `RxPath` |
| hart CSRs (`src/trap.c`, `src/timer.c`, `include/arch/csr.h`) | `sstatus`, `sie`, `sip`, `stvec` | `trap_setup`, `hart_irq_*`, `timer_irq_enable/disable`, trap entry, `sret` | `Hart` |
| PLIC and driver (`src/drivers/plic.c`) | priorities, threshold, enables, pending, claimed | the five `plic_*` functions | `Plic` |
| UART (external; registers in `include/kernel/serial.h`) | FIFOs, FCR, IER | RBR, THR, LSR, FCR, IER accesses | `UartRx`, `UartTx` |
| spinlock (`include/arch/spinlock.h`) | the lock word | `spin_init`, `spin_trylock`, `spin_lock`, `spin_unlock`, the `irq` and `irqsave` pairs | `Spinlock`, `RxPath`; `SpinlockSmp` |
| trap stub (`src/trap_entry.S`, `src/ktest/trap.S`, `handle_trap`, `handle_exception`) | registers, the frame on the stack, `sepc` | save, call, restore, `sret` | `TrapFrame` |
| shell and timer alarm (`src/kmain.c`, `src/timer.c`) | `command_buf`, `command_index`, `stimecmp` | one step per character, per access to the port, per command | `Console` |
| page allocator (`src/alloc.c`), `BUG()` (`src/panic.c`) | `list`, `next`, `initialized`, `bug_behavior` | `alloc_init`, `alloc_get_page`, `alloc_zero_page`, `alloc_free_page`, `bug_set_behavior` | `Alloc`, `AllocClient` |
| virtual memory (`src/mm.c`, `include/arch/pgtable.h`, `include/kernel/mm.h`) | the page tables, `kernel_root_ptb`, `satp` | `vm_init`, `vm_map_page` | `Mm` |
| boot (`src/boot/init.S`, `src/entry.S`, `linker.ld`) | M-mode CSRs, early page table, `.bss`, `_hartid`, `_kernel_dtb` | M-mode set-up, `mret`, `kstart` | `Boot`; initial states of `Hart`, `Mm` |
| formatting (`src/printf.c`) | format, cursor, state, the buffer | `vsnprintf` and what it calls, `printk`, `snprintf` | `Printf` |
| device tree parser (`src/dtb.c`, `src/ktest/startup.c`) | a cursor into the flattened tree | the search for a node and for a property | `Dtb` |
| strings (`src/string.c`) | none | `strlen`, `strcmp`, `strncmp`, `strncpy`; `strtou64` | `Strings`, `Dtb`; `Console` |
| test kernel (`src/ktest/`) | `ktest_arg` | choice of the suites to run | `Dtb` |

How they interact. The main context (`kmain`) and the trap context share one
hart. They share memory (`dev`, guarded by a spinlock and by masking) and two
devices: the UART and the PLIC. An interrupt goes UART, PLIC gateway, `SEIP`,
`trap_entry`, `handle_trap`, `handle_irq`, claim, `serial_irq`, complete, `sret`.
The timer interrupt prints to the same UART transmitter the shell uses. `mm.c`
takes pages from the allocator and then moves the allocator to the direct map.

What is hard, and makes each component correct:

* the hand-over of bytes from `serial_irq` to `serial_read`: no byte lost,
  duplicated or reordered, no self-deadlock on the lock, no byte without an
  interrupt, interrupts enabled again afterwards;
* level interrupts: what stays asserted interrupts again; a handler that does
  not remove the cause starves the shell;
* the alarm: not early, not lost, not printed twice; printing from two contexts
  never overruns the transmitter, nor loses the place in what was interrupted;
* the allocator: one owner per page over any sequence of calls;
* the page tables: the hardware's walk sees exactly what was mapped, at every
  step; no table is ever a free page; also after a reset;
* the trap stub: a trap is invisible to what it interrupts;
* the lock among harts, each with an interrupt handler that takes it too;
* text goes into fixed buffers: what is printed is what was meant, and nothing
  is written behind them;
* the parser knows the tree as bytes only: lengths, padding and values that look
  like tokens must not lead it astray;
* the boot switches privilege, address space and stack at once.

## 2. Modules

**`RxPath`** composes `Hart`, `Plic`, `UartRx` and `Spinlock`. Two program
counters, `mpc` for `kmain` and the functions it calls, `tpc` for the trap; a
step is one access to state that the other context or a device can see, so
`hart_irq_save` is two steps and `serial_read` is one step per byte copied.
`Main(from, to)` is enabled only if no trap is running and no interrupt is
pending, enabled and unmasked: a RISC-V hart takes such an interrupt before its
next instruction. A byte is its arrival number, so that properties can speak
about order; `consumed` is the number of the next byte the shell must get.
`Process` stands for everything the shell does with a byte; what matters to
interrupts is that an `alarm` command may rearm the timer.

**`ByteQueue`** is the abstract specification: a FIFO. `RxPath` implements it
with the bytes in `input_buf`, `dev.buf` and the UART, in that order, as queue.

**`Console`** models the shell from the banner on, with `timer_irq` as second
context and `UartTx` as the device both print to. Input comes character by
character, as `ByteQueue` delivers it. A keyword is one character, a printed
message is one character or two; the commands, the truncation of long lines,
`strtou64` (sign skipped, other characters give 0, wrapping) and 64-bit
arithmetic modulo `Word` are kept.

**`Alloc`** has the allocator's operations; **`AllocClient`** drives them with a
caller that frees only what it holds, gives the allocator only unused memory,
and also makes the calls that must be refused. Addresses are page numbers.

**`Mm`** extends `Alloc`: `vm_init` as a program, `vm_map_page` with one action
per iteration of its loop. `Walk` is the hardware's page walk, used both as the
reference in the properties and to find out what a pointer of the kernel
reaches once `satp` is written. After `vm_init`, `vm_map_page` may be called with
any of the arguments in `LaterCalls`; the theorems hold for every such set. The
kernel ends with `.data` here; what `linker.ld` places behind it (`.data.rel.ro`,
`.eh_frame`, symbol tables) is not mapped by `vm_init` and left out.

A reset of the machine (`Reset`, at any moment) starts the kernel again with the
RAM behind its sections as it was; the sections are loaded anew.

**`TrapFrame`** extends `Hart`. The stub saves one register per step into a
stack of 4-byte words; the layout is a parameter, so that one module is
`src/trap_entry.S` and `src/ktest/trap.S`. The interrupted code and
`handle_trap` are any code that respects the calling convention: they leave any
register file and any words on their part of the stack. An instruction in
`Faulting` raises an exception; `handle_exception` changes nothing.

**`SpinlockSmp`** has a main thread and a handler per hart and one lock. A
failed `amoswap` is a stutter. `Spinlock` is the same lock inside `RxPath`.

**`Printf`** has one action per state of `vsnprintf`. Characters are
one-character strings; chars have `BYTE` values, so that sign extension and the
wrapping of the `u8` width and of `size_t` are kept. `ideal` collects what the
format and its arguments stand for, computed from integers (only `Digits`, the
loop that divides by the base, is common to it and to `number`). The buffer is
followed by other memory, where writes past its end go.

**`Strings`**, **`Dtb`**. The tree is a sequence of bytes; the recursion of
`dtb_match_node_name_rec` is a depth, for its only state that outlives a call is
`ptr`. The right answers are defined on the list of nodes, not on the bytes.
After the parser, the test kernel copies the boot argument and selects suites.

**`Boot`** goes from reset to `kmain()`: one action per CSR that `init.S`
writes, and the four parts of `kstart`, whose fetches and stores go through the
tables and the PMP that `init.S` set up; one that does not succeed leads astray,
for there is no trap handler yet. The size of `.bss` is any number of words.

The `MC*` modules fix constants that a `.cfg` cannot write; every other value is
in the configurations. Operators named `X_Something` with a comment "Mutant" are
faulty variants of `X`; each breaks a property of a run, as `PROJECT.json` lists.

## 3. Runs

| Run | Bounds | Shows |
| --- | --- | --- |
| `rx_safety` | buffer 2, FIFO 2, 5 bytes | the safety properties of the receive path, refinement of `ByteQueue!Spec` included; every byte reaches the shell unless the buffer gets stuck full |
| `rx_full` | buffer 2, FIFO 2, 3 bytes | **violated**: a full buffer is never flushed |
| `alloc_safety` | list of 4, 3 regions | one owner per page, no leak, frees accepted |
| `console_safety` | lines over all kinds of character, 5 typed, buffer 4, 4 ticks, `stimecmp` at the last tick at the start, transmit FIFO 2 | terminator fits, transmitter never overrun, an alarm in the middle of an echo leaves the echo complete and in order, alarms not early, the latest printed, shell not starved |
| `alarm_twice` | one alarm command | **violated**: `alarm 0` prints twice |
| `mm_boot` | 4 entries per table, 3 levels, up to 4 kernel pages at 2 positions, 1 reset, later calls for every address with 2 pages and 2 permissions | tables translate as mapped; tables are never free pages; the first boot succeeds; the kernel is not overwritten, after a reset either |
| `printf_formats` | all formats of up to 4 of 11 characters, 6 numbers, 2 strings, buffer 5 with stale content | `vsnprintf` returns, stays in the format, is exact if the text fits |
| `printf_size` | commands of up to 9 characters, buffer 9 | **violated**: writes past the buffer |
| `trap_transparent` | all 30 registers, the real layout, 2 stack depths, 2 instructions | traps are invisible; interrupts are served during repeated exceptions |
| `smp_safety` | 3 harts | mutual exclusion, no self-deadlock, `SIE` restored; somebody always gets the lock |
| `dtb_parse` | trees of 2 and 3 nodes, 0 or 1 NOP, 3 shapes | the boot arguments are found, the right suites run |
| `boot_safe` | `.bss` of 0 to 8 words, pages of 4 | `kmain()` is reached in S-mode, `.bss` cleared, `.rodata` intact |

Further configurations reproduce the other findings of section 4. They are run
by hand (`tlc -config X.cfg M`), and each ends with the violation of its one
property. `PROJECT.json` does not list them as runs.

| Configuration | Module | Property, violated | Bounds |
| --- | --- | --- | --- |
| `AllocExhausted.cfg` | `MCAllocClient` | `ExhaustedMeansNone`: "no more free pages" with one left | list of 3 |
| `AllocZero.cfg` | `MCAllocClient` | `ZeroPageReturns`: a failed `alloc_zero_page` writes to page 0 | list of 3 |
| `AlarmReplaced.cfg` | `MCConsole` | `EveryAlarmPrinted`: the first of two alarms is lost | two alarm commands |
| `AlarmWraps.cfg` | `MCConsole` | `AlarmNotEarly`: the alarm of a large argument comes early | one alarm command, time modulo 16 |
| `EchoSplit.cfg` | `MCConsole` | `EchoExact`: output interleaved | one alarm, one echo |
| `MmMapLater.cfg` | `MCMm` | `MapNeverFaults`: `vm_map_page` after `vm_init` faults | as `mm_boot` |
| `MmReset.cfg` | `MCMm` | `BootNeverPanics`: the boot after a reset panics | as `mm_boot` |
| `TrapKtest.cfg` | `MCTrapFrame` | `RegistersKept`: registers change | the layout of `src/ktest/trap.S` |
| `DtbNoChosen.cfg` | `MCDtb` | `NeverReadsNull`: address 0 is read | trees without `chosen` |
| `KtestArg.cfg` | `MCDtb` | `InsideBuffer`: `strncpy` writes behind the buffer | buffer 4 |
| `BootDtb.cfg` | `MCBoot` | `DtbSaved`: the device tree's address is overwritten | as `boot_safe` |

Why the bounds suffice. Five bytes fill a buffer of two, leave bytes in the FIFO
and let the buffer be emptied and filled again; both devices and both contexts
wrap around all their states. The buffer's size plays no other part than being
reached, and the theorems remove the bound. Five characters are two alarm commands, one of
them with a number, the least for which one alarm can meet the other, or an echo
longer than the buffer. `stimecmp` is not set by the boot: its first value is the
last tick, so that an alarm nobody asked for may come into that echo, and every
earlier alarm command still finds the interrupt enabled. A transmit FIFO of two is the smallest
for which a stale poll is harmless (with one it is not: the FIFO must be on,
which `serial_init` sees to). The lists of 3 and 4 pages meet exhaustion, empty
and full. In `mm_boot` the sections straddle the border of a last-level table,
and the serial page shares its tables with the null page. One reset is enough:
what a second one finds is what the first one found. That the kernel survives
a reset is a result for kernels within one last-level table (2 MB, the real one
is far smaller): with `KernelStarts = {2}` and `MaxKernelPages = 10` TLC finds a
boot after a reset in which an old root entry makes `vm_map_page` take a page of
the kernel for a table. Four characters make every
conversion with a flag and a length, and `%` followed by the end of the format,
at every distance from the end of a buffer of five; the alphabet has one
character for each case the parser distinguishes, and 6 for a width that wraps.
The trap stub is not scaled down. Three nodes are a child, a sibling and a
grandchild; the names have lengths on both sides of a word boundary.

`CHECK_DEADLOCK FALSE` is in the configurations of `Alloc`, `Console`, `Mm`,
`Printf`, `Dtb` and `Boot` only. `Printf`'s clients stop after `MaxCalls` calls,
`Dtb` and `Boot` are programs that end, and so is `vm_init`; after a panic or a
kernel page fault nothing runs; and when time and typing have reached their
bounds, a shell that waits for input has nothing to do.

Fairness. `RxPath`: weak fairness of the main context and of the trap context,
each as a whole: the hart never stops executing, and which context it executes
is decided by the interrupt condition, not by fairness. Nothing is assumed of
the bytes or the timer. `Console` adds that time passes and the serial line
transmits; nobody has to type. `EveryByteConsumed` leaves out the behaviours in
which the buffer is full while another byte waits (`Stuck`): there liveness
fails, as `rx_full` shows.

`TrapFrame` assumes that the stub and the faulting instruction are executed, and
strong fairness of the interrupt, because the hart looks for one after every
`sret`. `SpinlockSmp` assumes that each hart goes on with what it has begun;
nobody has to want the lock and no interrupt has to come. It says that somebody
gets the lock, not who: `amoswap` promises no order. `Printf`, `Dtb` and `Boot`
assume that the hart executes the next instruction.

## 4. Findings

1, 3 and 10 have a run; the others are reproduced by the further configurations
of section 3.

1. `serial_irq` with a full buffer does not read RBR (`src/drivers/serial.c:46`).
   The level stays asserted, the PLIC forwards it again at completion, and the
   hart re-enters the trap at every `sret`. QEMU's PLIC sets a request pending
   when the line is updated, so the storm shows there only as far as the UART
   raises its line again; the model follows the PLIC's specification.
2. `alloc_get_page` refuses the last page (`src/alloc.c:45`).
3. `alarm 0` prints twice (`src/kmain.c:56-57`): the timer interrupt is already
   enabled, fires, is disabled by the handler, and is enabled once more with the
   condition still true.
4. A second `alarm` replaces the first (`src/timer.c:23`).
5. The alarm is printed inside the output of `echo` (`src/timer.c:29`). What is
   kept is `EchoResumed`: the characters of the echo, in order.
6. `vm_map_page` cannot be used after `vm_init` (`src/mm.c:216`): it follows
   physical addresses, and uses direct-map addresses as page numbers. Only the
   tests in `src/ktest`, which the build leaves out, do so.
7. The root page table is not cleared (`src/mm.c:77`). After a reset with RAM
   kept, the boot follows the old entries and panics.
8. `alloc_zero_page` clears address 0 when no page is left (`src/alloc.c:62`)
   and `BUG()` has been told to log only, as the tests do.
9. `alarm` with a large argument wraps (`src/timer.c:23`).
10. `snprintf` does not keep to the size it is given (`src/printf.c:300`).
11. `src/ktest/trap.S:9` stores `t0` across the slots of `tp` and `t1`.
12. `dtb_node_match_property` starts at address 0 when no node was found
    (`src/dtb.c:246`). The parser also finds nothing when a NOP precedes the
    root, which `BootargsRight` and `SuitesRun` leave out as "NOP first".
13. `strncpy` always writes byte `n` of its buffer (`src/string.c:36`), and does
    not terminate a shorter copy; the test kernel's buffer is zero beforehand.
14. `_hartid` and `_kernel_dtb` are one word (`linker.ld:38-39`, `src/entry.S:42`).

11 to 13 are in code that the kernel's build leaves out or does not call.

## 5. Proofs

`RxPathProofs` proves, for all values of the constants allowed by the named
assumptions in `Plic`, `UartRx` and `RxPath`: `TypeOK`, `InOrder`,
`HandlerNeverSpins`, `NoLostInterrupt` and `InterruptsRestored`. None of the invariants is inductive. `IInv` adds what
ties them together: how `mpc`, `tpc`, `sstatus` and `lock` go together (traps
only from unmasked places, the lock held exactly in the two critical sections,
so `flags` always holds `SIE`), how the PLIC's registers follow from the boot
phase, that what has been copied to `input_buf` equals the driver's buffer, and
that a request for a byte is pending, claimed, or about to be forwarded again.
Each action is one step of `Invariance`, with one step per conjunct it can
disturb. The assumption that `IRQ_SERIAL` is an interrupt number, and so not 0,
is needed for the claim.

`AllocProofs` proves `NoDoubleOwner`, `NoLeak` and `HeldCanBeFreed` for every
list size and set of regions. The strengthening says that the free part of the
list is injective, disjoint from what is held and kept, that free and held pages
together are the region, and that `next` is the number of held pages.

`SpinlockSmpProofs` proves `MutualExclusion`, `NeverSpinsOnOwnHart` and
`IrqStateRestored` for any set of harts. Mutual exclusion needs that the lock
word is 1 while a thread is in the critical section (`LockWord`); the other two
need that interrupts are off from `hart_irq_disable` until they are restored,
and while a handler runs (`Masked`), and that `flags` is what `sstatus` was at
the call, which an interrupt before `hart_irq_disable` does not change
(`FlagsKept`).

`RxPathProofs` also proves the refinement, `Spec => ImplementsQueue`: by `InOrder`
the mapped queue is the run of numbers from `consumed` to the last arrival, so a
step that keeps both numbers keeps the queue, the arrival of a byte appends one,
and the step of the shell that takes a byte removes the first.

`TrapFrameProofs` proves `TypeOK`, `RegistersKept` and `Transparent` for every
layout with `LayoutOK` (slots of two words inside the frame, disjoint), every
stack and every handler that respects the calling convention. `IInv` says, phase
by phase, what is already in the frame, what is still in the registers, and that
the words above the frame are those of the interrupted code. `Transparent` needs
`sepc` to be saved unless no handler skips the fault. `KernelTransparent` shows
that `src/trap_entry.S` meets these hypotheses; `KtestLayoutBroken` that
`src/ktest/trap.S` does not.

`ConsoleProofs` proves `TypeOK` for every size of the command buffer and every
input, `NoOverrun` if the transmit FIFO has room for more than one byte, and
`AlarmNotEarly` as long as no deadline wraps (`[](due < Word)`; finding 9 is what
happens otherwise). `TxInv` says how full the FIFO may be at each place of the
two contexts: after a poll of the shell that an interrupt makes stale, the
handler has polled again before each character. `AlarmInv` ties `stimecmp` to
the deadline and says that inside `timer_irq` its time has come. That `strtou64`
stays in range goes by the least counterexample (`WFMin`), for induction with an
operator parameter is not available.

`BootProofs` proves `BssCleared` and `RodataIntact` for every size of `.bss`,
stack and pages. `EntryInv` says that `a0` is the hart's number until it is
saved, and that from the first store on `.bss` is zero up to the cursor, which
is even; so the double word that covers an odd end of `.bss` ends before
`.rodata`, which is page-aligned.

`PrintfProofs` proves, for every set of formats and arguments and every size of
the buffer and of the integers:

* `FormatNotOverread`: the cursor is at most at the terminator in every state
  that reads, and an incomplete conversion goes back to a `%` inside the format;
* `ExactIfFits`. `TextInv` says that, as long as `ideal` is shorter than the buffer
  and no specification was invalid, the buffer begins with `ideal` and `bufp` is
  its length. `TruncateValue` shows that shifting left and right again gives the
  integer that the low bytes stand for, `NumberFits` that `number`, which counts
  its room down in three places and wraps, loses no character when the text is
  shorter than the room. What the digits of a number are is not part of it;
* `TypeOK`, while `bufp` is in the modelled memory (`MEM` is a bound of the model):
  the width stays a `u8`, the room at least one. The recursive functions of the
  width and the digits are shown to exist, and to have natural numbers as values,
  with `Induction` on sets, which stands in for the induction theorems.

`MmProofs` proves, for tables, RAM and address spaces of every size:

* `TypeOK`, for any contents of RAM and any number of resets (`TInv` adds
  the types of the calls to come and the order of the sections in RAM);
* `FirstBootSucceeds`, if the list and RAM have room for two tables per page of
  the kernel (`Room`; the real list has 32768 pages). `BootInv` says that after `n`
  pages have been taken they are the `n` pages behind the kernel, each a table of
  a known level whose entries lead one level down, to tables taken too, and that
  the list holds the pages behind them, physical or moved to the direct map.
  `Succeeding` adds that the calls left are for the addresses not mapped yet, and
  `BootInv` that every table has the prefix of the addresses it translates, so
  that a leaf is found only where its own address was mapped; hence no call finds
  its page mapped;
* `TranslatesAsMapped` until a reset, with the same `Room`: without it a panic, or
  the fault after it, may leave a call half done. `WalkIn(m, v)` is the hardware's
  walk as a function of the memory. `TransInv` has five parts: what the calls are
  for (`MapInv`); that root entries lead to low addresses (`RootOK`); that
  `vm_map_page()` is at the table the hardware would read next for the address of
  the call (`PathOK`), so that the entry it writes is the one that decides that
  address and, by the prefixes, no other that is mapped; that the walk gives what
  was asked for so far (`TransOK`), which a new, empty table does not change; and
  the state once `satp` is written (`LateInv`): there `vm_map_page()` finds the root
  through the direct map, but follows an entry of it as a physical address, which
  the new tables do not map (`LateDeref`). Where the root has no entry, it enters
  a new, zeroed page by its direct-map address, which does not fit in a PTE: the
  entry still leads the hardware nowhere, and what `pte_next_ptb()` makes of it
  is no address (`TruncatedAddress`), so that the call faults next (finding 6);
* `TablesNotFree`, and `KernelNotOverwritten` until a reset, from `BootInv` before
  `satp` is written and `LateInv` after it; they need no `Room`.

RAM that is zero is what power-on gives on the emulated machine; finding 7 is
what happens without it. `MmAssumption` holds of the real values (512 entries,
32 gigapages of direct map, 4 of kernel, RAM from 2 GiB on; `VA_SIZE` = 2^52 is a
multiple of `PPN_SIZE` = 2^44, which is more than the 2^27 pages that three levels
span: `TruncatedAddress` needs both; the list of 32768 pages behind the kernel is
within the direct map).

Only model-checked, and why:

* liveness (`EveryByteConsumed`, `LatestAlarmPrinted`, `ShellReturns`,
  `InterruptsServed`, `LockIsTaken`, `CallReturns`, `SuitesRun`, `Boots`) is beyond
  TLAPS;
* `EchoResumed` says what is left of a sequence after `SelectSeq`, which is defined
  by recursion over it;
* `BootargsRight` and `SuitesRight` of `Dtb` say what a parser makes of a flattened
  tree: induction over the tree, which `FlattenSeq` builds recursively;
* that `bufp` of `Printf` stays below `MEM` in the runs: it depends on how long
  the texts of an instance are;
* the properties of `Mm` after a reset, when the root holds old entries
  (`KernelNotOverwritten` then holds only for small kernels, finding 7).

## 6. Not modelled

* the suites of `src/ktest` and their runner (`ktest/test.c`): they are test
  code outside the build; what they assert is used as a statement of what the
  kernel promises;
* `memcpy`, `memset64`, `strstr`, `serial_irq_disable`: no callers;
* `dump_ptbs`, `dump_pte`, `dtb_dump_header` and other functions that only print;
* log levels, and the wording and layout of messages;
* weak memory: `.aq` and `.rl` are taken to order the accesses of a hart as the
  program does;
* several harts in anything but the lock: the kernel runs on one;
* misaligned words: sizes of sections are whole words in `Boot`.

## 7. Plan

1. That the digits of a number, read in its base, are the number: needs the powers
   of the base, of which the provers know no law.
2. That each step of the parser in `Dtb` stays inside the tree.
