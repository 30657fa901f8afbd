# SimpleOS kernel: TLA+ models and proofs

TLA+ specifications of the SimpleOS kernel (C, x86_64), model-checked with TLC on small
instances and, for its core data structures, proved with TLAPS for every value of the
constants. Source paths below are relative to `src/src/`. `PROJECT.json` holds the same
information in machine-readable form: the lines each definition models, the runs, one
mutant for each property, the hazards and the theorems.

## 1. The system

The kernel boots on one processor (the BSP), brings up the others (APs) as helpers of the
compositor and then runs a few threads on the BSP only.

| Part | Source | Interacts with |
|---|---|---|
| Boot sequence | `kmain.c`, `limine_requests.c` | initialises everything below in a fixed order |
| Physical pages, page tables, heap | `mm/pmm.c`, `mm/vmm.c`, `mm/heap.c` | the heap grows by pages mapped one by one |
| Threads | `sched/thread.c`, `sched/switch.S`, `arch/x86_64/exception.c`, `syscall_entry.S` | timer interrupt, system calls, the compose barrier |
| System calls, VFS, initrd | `arch/x86_64/syscall.c`, `fs/*` | a ring-3 demo program; configuration files |
| SMP and parallel composition | `arch/x86_64/smp.c`, `compositor/parallel.c` | the compositor thread publishes frames to the APs |
| Compositor | `compositor/{compositor,surface,damage}.c`, `rect.h`, `gpu/display*.c` | surfaces of dock, terminals, hint and cursor |
| Window manager, dock, input routing | `wm/`, `desktop/`, `input/` | a poller thread turns clicks into windows |
| Input drivers | `drivers/{keyboard,mouse,usb_xhci_mouse,virtio_tablet,i2c_dw,i2c_hid_mouse}.c` | interrupts, and polls from the compositor and dock threads |
| Hardware tables and registers | `arch/x86_64/{acpi,apic,ioapic,pic,pit,gdt,idt,serial}.c`, `pci/` | at boot |
| Drawing | `compositor/{blit,blit_simd,font,path,path_raster,gradient,anim}.c` | called by clients and by the bands |
| Configuration | `gpu/display_policy.c`, `ui/ui_theme.c` | read once; the theme again on a serial command |

What makes this code hard to test is concurrency without locks (threads are preempted by
the timer, APs spin on shared counters, devices write rings while the driver reads them),
incremental state (damage, the snapshot of the previous frame, the free list, page tables
and the TLB), configuration applied line by line, deadlines that are missed, and counters
and rings that wrap.

## 2. Modules

| Module | Models | State and actions |
|---|---|---|
| `FramePaint` | abstract: what `parallel_compose()` promises | bands of a frame, each painted at most once; return when all are |
| `ParallelCompose` | `parallel.c`, `smp.c`, boot order | each load, store and atomic operation of BSP and APs is a step; the BSP can be preempted outside of the barrier |
| `Scheduler` | `thread.c`, `switch.S`, interrupt and syscall entry | kernel stacks as sequences of activations; `thread_yield()` and `thread_exit()` in steps; timer and keyboard interrupts; ring 3 |
| `Pmm` | `mm/pmm.c` | bitmap as a set, count, hint; init, page, run, free |
| `AddressSpace` | abstract: what `vmm.h` promises | one translation per page, changed page by page by the calls |
| `PageNumbers`, `PageTables` | entries and walks of `mm/vmm.c` | a page is its four indices; a table is a function from indices to entries |
| `Vmm` | `mm/vmm.c`, page growth of `heap.c` | extends `Pmm`; `vmm_map()` one table or leaf a step, `vmm_unmap()`, the TLB |
| `EarlyBoot` | `acpi.c`, mappings of `apic.c`, `ioapic.c`, drivers, user pages | extends `Vmm`; `acpi_init()` maps each firmware table before it reads it |
| `Allocator` | abstract: what `kmalloc()`/`kfree()` promise | live regions, disjoint |
| `Heap` | `mm/heap.c` | block list by address; split, growth, both coalescing steps, second free |
| `Rect`, `Damage` | `rect.h`, `damage.c` | operators; `MCDamage` drives them |
| `Blit` | `blit.c`, `blit_simd.c`, `compose_band()` | clipping, blending, corners and row kernels as operators; CPUs take the bands of a picture in any order |
| `Compositor` | `compositor.c`, `surface.c`, `display_server.c`, copy in `display.c` | client calls, and `compositor_frame()` step by step; a cell records the layers painted on it |
| `Desktop` | `window_manager.c`, `input_routing.c`, `simple_desktop.c` | each window manager call is a function of the manager's state; mouse and poller interleave |
| `Input` | `keyboard.c`, PS/2 half of `mouse.c`, read of stdin | the 8042's one output buffer, two interrupt handlers, pollers and a reader; `ring_push()` in steps |
| `Xhci` | `usb_xhci_mouse.c`, `hid_boot_parse.c` | the rings with cycle bits and links; the driver's scan and polls against a concurrent controller |
| `Files` | `tar.c`, `initrd.c`, `vfs.c`, file calls of `syscall.c` | a mount entry by entry, then descriptors of several threads |
| `ConfText` | how both readers of configuration walk through text | text is a sequence of tokens; operators |
| `DisplayPolicy` | `display_policy.c`, size in `display_init()`, `lapic_timer_init()` | the parser line by line and what follows from its outcome; operators |
| `Theme` | `ui_theme.c` | palettes, assignment of tokens, both parsers, load; operators |
| `Pacing` | `compositor_thread_body()`, `display_vsync_wait_after_present()` | the deadlines of frames and refreshes as the time left to them, and a clock |
| `BootConfig` | `kmain()` from the mount on, `ui_theme_serial_poll()` | extends `Files`, `Theme` and `Pacing`; each step of the boot uses what the one before it left |
| `Tablet` | `virtio_tablet.c` | the event queue with indices that wrap, decoding, scaling |
| `I2cBus` | `i2c_dw.c` | transfers of several threads, command by command, on one controller: FIFOs, abort, timeouts, a disable that is not obeyed |
| `Pointers` | `mouse_init()`, `mouse_poll()`, `i2c_hid_mouse.c` | extends `Tablet` and `I2cBus`; the order in which drivers are tried |

`MC*` modules give the constants values for TLC. `*Proofs` modules hold theorems.
`ParallelCompose` refines `FramePaint`, `Heap` refines `Allocator` and `Vmm` refines
`AddressSpace`. `EarlyBoot` composes the frame allocator with the page tables and their
users, `BootConfig` the files with the configuration and the pace of the frames,
`Pointers` is built from `Tablet` and `I2cBus`, and `MCCompositor` runs `Blit` beside
`Compositor`.

A definition has the name of its function in the code where that is possible. An operator
ending in a variant of another's name and defined before it (`ClampNone`, `OffNever`...)
is that definition with a plausible bug. Nothing uses it except the mutants of
`PROJECT.json`: a property must fail when the definition is replaced by the variant.

## 3. Runs

`tlc -config X.cfg MCModule` in this directory.

| Run | Configuration | Question | Properties |
|---|---|---|---|
| `compose_barrier` | `ComposeBarrier` | Does the barrier hold under every interleaving of BSP and APs? | `ReturnsAfterAllDone` `BandsCoverBox` `PaintsFrames` (refinement) `FrameFinishes` (liveness) |
| `sched` | `Sched` | Do yields, preemption and exits keep every thread's context? | `ResumesSavedContext` `RunQueueIsRing` `SavedContextsApart` `EntryStackIsOwn`; liveness `ReaderServed` `EveryoneRuns` |
| `memory_boot` | `MemoryBoot` | Do frames, page tables and TLB stay right from the bootloader's tables to the drivers' mappings? | `FramesExact` `ContigFindsFirst` `TlbFresh` `HeapPagesOwn` `ReadsMapped` `MapsPages` (refinement) |
| `heap_lists` | `HeapLists` | Does the block list stay sound and implement an allocator? | `HeapSound` `GrantsApart` (refinement) |
| `compositor_frames` | `CompositorFrames` | Does incremental repainting show what a full repaint would, and does a band paint the right pixels? | `ScreenShowsScene` `CursorOnTop` `BlitExact` |
| `desktop_policy` | `DesktopPolicy` | Can windows, focus or clicks get confused? | `RestoreRemembers` `FocusIsLive` `OneTerminalPerPress` |
| `input_paths` | `InputPaths` | Are keys kept in order, and is everything read in the end? | `KeysInOrder` `InputDrained` (liveness) |
| `xhci_mouse` | `XhciMouse` | Does enumeration end and does each report arrive once? | `ReplyIsMine` `ReportsOnce`; liveness `ScanEnds` `ReportsHandled` |
| `files` | `FilesTree` | Is everything made from the archive what the archive says: tree, descriptors, policy, theme, pace? | `TreeMatchesArchive` `DescriptorsInOrder` `PolicyWhole` `ThemeWhole` `FramesPaced` `FramesGoOn` (liveness) |
| `pointer_setup` | `PointerSetup` | Does setup settle on one working backend? | `EventsInOrder` `PointerFollows` `ReadsExact` `SetupSettles` (liveness) |
| `sched_nested_irq` | `SchedNestedIrq` | ... and is `thread_yield()` safe wherever the timer hits? | `YieldIsSafe` is **violated** |
| `damage_overflow` | `DamageOverflow` | Is damage kept when the list is full? | `NothingLost` is **violated** |

What the properties of the larger runs say:

- `memory_boot`: the bitmap is exact and `alloc_hint` passes no free frame (`FramesExact`);
  the run search misses nothing (`ContigFindsFirst`); the TLB holds nothing the tables do
  not (`TlbFresh`); a page of the heap is mapped to a frame nobody else has
  (`HeapPagesOwn`); every byte of a firmware table is mapped when it is read
  (`ReadsMapped`); a call changes the translations of its own pages, one at a time
  (`MapsPages`).
- `files`: `PolicyWhole` and `ThemeWhole` compare what was loaded with the list of settings
  the file was spelled from, not with the text: all settings count, the last of a key
  winning, or none. `FramesPaced` bounds how long the thread waits and how fast it catches
  up. `FramesGoOn` says that the mount ends, the boot goes through and painting never
  stops.
- `compositor_frames`: `BlitExact` compares the picture with one computed pixel by pixel
  from the scene, without clips, rows or bands.

- `sched`: the timer hits wherever interrupts are on. `torn` records that it has hit between
  two steps of a switch; the properties are claimed up to then, and `YieldIsSafe` of
  `sched_nested_irq` shows what follows. `ReaderServed`: a thread that waits in
  `sys_read(0)` when a key is pressed stops waiting, although the interrupt that brings the
  key can only be taken while another thread runs.
- `heap_lists`: a second free of a pointer is part of the run. It changes nothing (the block is
  free or part of a free block), or it panics, if a later split has written a header over the
  magic; `HeapSound` allows that panic and no other.
- `xhci_mouse`: any wait of the driver may time out, whatever the controller does, so
  `ScanEnds` holds with a controller that is dead. Two threads poll; `ReportsOnce` and
  `ReportsHandled` are claimed until one reads an event the other has read and not yet
  advanced over (`overlap`).
- `pointer_setup`: two threads poll. `EventsInOrder` and `PointerFollows` are claimed until a
  poll of the tablet begins while another is under way (`overlap`). On the I2C bus nothing
  keeps two transfers apart and a disable may not be obeyed, since `i2c_dw.c:93` and `:99`
  ignore the timeout; `ReadsExact` speaks of transfers that own the controller (`own`): their
  first disable was obeyed and no other transfer began before their result was used.

The two violations are disagreements between the code and its own comments:

- `thread_yield()` (`sched/thread.c:173`) sets `current` before it switches, with
  interrupts on. A timer interrupt between the two saves the running stack pointer in the
  wrong thread. `sched/thread.h:50-53` says the function is safe from a thread body and
  from the timer handler.
- `damage_add()` (`compositor/damage.c:43`) stores the new rectangle over `rects[0]` before
  it unites the list, so the old `rects[0]` is lost. `damage.c:41-42` and `damage.h:11-12`
  say correctness is preserved.

## 4. Bounds

Each bound is a constant of the module, named for what it is in the code.

- `compose_barrier`: two APs, so that one can be late while the other is not; boxes of 0, 3
  and 8 rows give no band, one band, and as many as `MaxBands` allows; `W32 = 3` makes the
  epoch and the totals wrap.
- `sched`: the idle thread, a kernel thread that loops, one whose body returns and a ring-3
  thread: every kind of switch between them occurs. `worker` stands for any thread whose
  body returns to `thread_trampoline()`. States after the first interrupt inside a switch are
  not explored further (`Untorn`): every property of the run holds of them.
- `memory_boot`: tables of two entries in four levels, pages of two bytes. Five machines:
  firmware tables that straddle pages, with RSDT and XSDT, none at all, memory that runs
  out in the middle of a mapping, and large pages in the direct map; four more only
  exercise the allocator, with the bitmap in the first or a later region, a hole, memory
  above the last usable frame, and no region large enough. `MaxCalls = 11` lets a page be
  mapped, cached, unmapped and mapped again after the boot. The addresses of the heap end at
  `HeapTop`, which no run of at most `MaxCalls` calls reaches: with two entries in a table
  the indices of pages soon repeat, and the heap has its pages for itself.
- `heap_lists`: at most four pages of 8 bytes after `Base`, a header of 4 bytes; sizes
  0, 1, 3 and 11 split, fit exactly, and force growth.
- `compositor_frames`: a row of three cells and surfaces of two, placed partly and wholly
  off screen. One dimension is enough for what is repainted, because `Rect` is proved for
  two. Four workloads together make every client call; `UserMax = 2` makes z reach the
  clamp and tie. Pictures for `Blit` are of four by three pixels under two surfaces that
  stick out on any side, with radii 0 to 2, in one band or two; rows are of up to 19
  pixels, two groups of eight and a tail; the root is checked up to 2000.
- `desktop_policy`: four window numbers and three compositor slots, so that both limits are
  met; six workloads together make every call. The smaller screen is the smallest the dock
  accepts in width.
- `input_paths`: a ring of three slots wraps and runs full with five keys.
- `xhci_mouse`: command and interrupt rings of four TRBs and an event ring of three wrap
  several times with five reports; four scenarios with no fault, one fault, one stray event,
  or both, at any point; timeouts have no bound. Exploration ends at the first overlap of two
  polls (`Apart`), where the claims end.
- `files`: four archives with blocks of two bytes, two threads with two descriptors each, and
  counts that include the largest, which wraps in `vfs_read()`;
  display.conf with any two of eleven settings, legal and not, in three spellings, and cut
  by the buffer; TOML and JSON themes with any two of eight tokens, light and dark, whole,
  cut and with an error at the end; two scripts on the serial line; three rates of refresh
  with and without vsync and TSC. The floors of the two periods (`PerFloor`, `VsyncFloor`)
  and the frequency of the TSC are scaled down so that a period has a few ticks. Deadlines
  are kept as the time left, so the clock has no bound.
- `pointer_setup`: 13 events over indices modulo 8, FIFOs of two bytes, touchpads at the first
  and last place probed, and one whose reports do not fit the FIFO. States in which two polls
  of the tablet or two transfers are under way together are not explored further (`Apart`):
  the tablet's claims have ended there, neither transfer owns the controller, and a later
  one whose disable is obeyed starts from an empty controller. One whose disable is not
  obeyed is explored.

`CHECK_DEADLOCK FALSE` is set where the system really stops: a panic or an exhausted bound
(`memory_boot`, `heap_lists`), or devices that have nothing left to send (`xhci_mouse`,
`pointer_setup`, `files`).

## 5. Fairness

- Barrier: APs run with interrupts off and never stop (weak fairness for each). The
  compositor thread can be preempted again and again, but each turn executes instructions
  (strong fairness for the BSP's step); it is in the run ring, so it is resumed.
- Scheduler: the CPU executes (weak); a pending timer or keyboard interrupt is kept by the
  local APIC until it is accepted, and a kernel thread makes progress between interrupts
  (strong).
- Input: the controller delivers, the keyboard's interrupt is taken, the poller and the
  reader run. Nothing is assumed of the mouse's interrupt: `mouse.h` says it may not come.
- xHCI: driver and pollers run. Nothing is assumed of the controller, except in
  `ReportsHandled`, which names its assumption (`ControllerWorks`): it works off what it is
  given, with success or failure, and failures are bounded in each scenario.
- Boot and frames: `kmain()` runs on, the clock ticks, and the compositor thread gets its
  turns, since it is in the run ring (`EveryoneRuns` of `Scheduler`). The fairness of the
  configuration steps is written without `ENABLED` (`BootSpec`), which TLC would evaluate
  for every state by parsing the files again.
- Pointer setup: the boot code runs on. Nothing is assumed of the devices, since every
  wait there is a bounded number of spins.

## 6. Proofs

`tlapm XProofs.tla`. All constants are arbitrary within the named `ASSUME`s.

- **`ParallelComposeProofs`**: `BarrierSafety` and `PaintRefinement`, for any number of APs,
  bands and any modulus of at least 2. `ReturnsAfterAllDone` alone is not inductive: it
  needs that `done_count` is the number of APs that finished the current epoch
  (`BarrierInv`), that the flag is up throughout (`FlagInv`), the boot order (`BootInv`),
  that single-CPU frames leave nothing to claim (`NarrowInv`), and that each band is
  unclaimed, held by one CPU, or composed once (`TileInv`). Both theorems assume
  `SettleFirst \/ VirtualBox`; see section 7. `BandsExact` proves `BandsCoverBox` without
  that assumption: there are never more bands than rows (`RowsInv`), so every quotient
  grows by at least one from a band to the next.
- **`SchedulerProofs`**: `SwitchResumes`, `QueueStaysRing`, `ContextsStayApart` and
  `EntriesOnOwnStack`, for any threads in any order of creation. One invariant (`SInv`)
  serves all four: a stack is a base with interrupt frames on it and at most one frame that
  leaves the CPU, on top (`Stacks`); every thread but the running one has saved a context
  it can be resumed from (`OthersWait`); the stack that the next entry from ring 3 will use
  is that of the running user thread (`EntryStacks`); and the queue is a ring in which a
  user thread follows the idle thread (`Ring`). `SInv` holds until
  the timer hits inside a switch, so what is proved by induction is `~torn => SInv`; `torn`
  never becomes false again. One assumption, `UserLast`; see section 7.
- **`MemoryProofs`**: the frame allocator first. `PmmSafety` (with `FramesExact` and the
  count) for every memory map, and `SecondPassIdle`: the second pass of `pmm_alloc_page()`
  is never needed. The invariant (`IInv`) ties bitmap, count, hint and the frames handed
  out together. Then lemmas about trees of tables with any number of entries: writing a
  leaf changes the translation of one page, linking in an empty table that of none. On
  them rest `MemorySafety`, `MemoryCount`, `TlbSafety` and `TablesRefine`, for every
  memory map, every size of the tables, every tree the bootloader leaves and any calls.
  The invariant (`MInv`) joins `IInv` with four facts: the tables are a tree of the
  right depth with one parent each, the walk of `vmm_map()` stands at the table its page
  needs (`WalkInv`), the frames of new tables are in use (`TablesHeld`), and the TLB agrees
  with the tables. Without `TablesHeld` a frame of the heap could become a table.
- **`BootProofs`**: the users of the page tables, on top of `MInv`. `HeapPagesApart` proves
  `HeapPagesOwn` and `TablesMappedFirst` proves `ReadsMapped`, for every memory map, every
  machine and any calls. Neither is inductive: both speak of the time between calls, and what
  they say is built up while a call is under way. `HeapInv` therefore gives a page of the heap
  its frame from the moment it is taken, says that this frame is in use and is no table, and
  that a call under way either maps the last page of the heap or stays off the heap.
  `ReadInv` says of each range that `acpi_init()` still reads that every page of it leads to
  its frame or is yet to be mapped by the call under way, and that until `lapic_init()` every
  call maps a range of the firmware, so that mapping a table again over an earlier one writes
  the same translation. Both rest on one fact about steps: a page keeps its translation until
  a call names it (`CallStays`, `LeafTrans`, `UnmapTrans`). `LayoutAssumption` is what they
  need of the address space: the direct map starts at a page boundary, two pages in it have
  different indices, and nothing else is mapped or unmapped at the addresses of the heap,
  which end at the bound `HeapTop`.
- **`StructureProofs`**: two data structures. Of the heap's list, `HeapSafety` (with
  `HeapSound`) and `HeapRefinement` for every header size, alignment and page size. The
  argument is about lists: taking, appending, merging and freeing a block keep a list tiled
  and coalesced (`TakeList`, `AppendList`, `MergeList`, `FreeList`). The steps then follow,
  with the bounds on rounding (`NeedBound`, `GrowthBound`). A split takes the magic from the
  places its new header covers, none of which is the start of a block. Of the keyboard's ring,
  `TypingInOrder` proves `KeysInOrder` for every size of the ring, every
  traffic and any pollers. The invariant counts: head and tail are the numbers of characters
  pushed and taken, modulo the size, and the slots between them hold the characters between
  those numbers (`RingInv`). With another driver for the pointer no poller gets past the
  entry of `mouse_poll()` (`PortInv`), so the interrupt handler is the only one that pushes.
- **`DisplayProofs`**: rectangles, pixels and pace.
  `UnionCovers`, `IntersectExact`, `OverlapsIffShared` over all integers; 32-bit overflow of
  coordinates is outside the model. `ClipExact` for all coordinates; `MulRounds`: the
  multiplication without division is the rounded quotient its comment gives, for all bytes;
  `BlendFits`: the cut at 255 is never needed; `KernelsAgree`: the 16-bit lanes of the SSE2
  and AVX2 kernels give the pixel of the plain loop. The argument is one division with
  remainder (`Rounded`). `PaceSafety` proves `FramesPaced` of the compositor thread alone
  (`PaceSpec`), for every period: what the thread may still catch up with is what its
  deadline lies back (`BucketInv`), and the deadline of vsync is a refresh (`VsyncInv`).
  So the periods that the run `files` scales down lose nothing.
- **`PointersProofs`**: three theorems about the whole of `Pointers`, for every machine.
  `TransfersExact` proves `ReadsExact` for every FIFO depth, every message length and any
  number of threads: while a transfer owns the controller, the commands left and the bytes
  received determine each other unless a byte was lost (`CountInv`, `DataInv`), and a lost
  byte is missed at the end; a transfer that begins takes ownership from all others
  (`BusInv`). `TabletInOrder` proves `EventsInOrder`:
  the ring indices are the numbers of events sent and of buffers returned, modulo 2^16, and
  the buffers in the used and the available ring are pairwise different (`QueueInv`,
  `Circulate`). It needs that 2^16 is a multiple of the queue's size, which is why
  `setup_vq()` rounds to a power of two. `PointerFollowsReports` proves `PointerFollows`:
  what the driver's globals hold is what the newest event of each kind says (`AxisInv`,
  `BtnInv`), and while the tablet is active no transfer of the touchpad is under way that
  could move the pointer (`PtrInv`). The last two hold for any number of pollers up to the
  first overlap: until then at most one of them is not idle (`Solo`), and a step of that one
  is the only step of a poller (`SoloInv`).
- **`DesktopProofs`**: `WindowsGoBack`, `FocusNamesAWindow` and `OnePressOneTerminal` prove
  `RestoreRemembers`, `FocusIsLive` and `OneTerminalPerPress` for any number of windows,
  surfaces and desktops, every screen and every grace period. None of the three is inductive.
  The invariant (`DesktopIInv`) has two parts. `ManagerInv` is kept by every call of the
  window manager, one lemma each: numbers are given out in order and used once, a surface
  belongs to one window, so a call that names a window changes that window's surface only
  (`Numbered`); a window that is not maximised stands where `wm_restore()` would put it; the
  focus names a window that exists. `Counted` is about the dock: a press that the poller has
  not seen yet is not counted yet, so terminals opened and the press pending together are at
  most the presses made. The two meet in `Numbered`: of the terminals' surfaces only the first
  `n` belong to a window, so the one that is created next belongs to none.

Lemmas about numbers stand at the head of the modules that need them: a set of naturals has a
least element (first fit, first free frame), quotients grow (bands), and what remainders do
under addition (rings).

`BarrierSafety` also proves `BarrierNotPreempted`, that the timer never takes the BSP away
inside a frame, which no run checks.

Assumptions on constants (`ASSUME` in the modules) say what the code's types say: bytes are
0 to 255, sizes and depths are positive, queue sizes are powers of two up to 16, a machine's
settings have their types. `Desktop` adds that every surface is created for one window and
that the poller's grace is at least one poll.

Only model-checked:

- all liveness, since fairness is beyond this prover;
- `ContigFindsFirst`, `isqrt_u32()` and `BlitExact`: a scan, a loop or a whole picture is a
  recursive function, and what it computes for every input needs induction over data;
- the same holds of what parsers and mounts make of a text (`TreeMatchesArchive`,
  `PolicyWhole`, `ThemeWhole`);
- everything about `Compositor`: damage is a recursive operator (`Damage`), which the prover's
  arithmetic backend does not accept in a module;
- `DescriptorsInOrder` and everything about `Xhci`, for which no proof has been attempted.

## 7. What the passing runs leave out

Each passing run is under assumptions that the code does not enforce. Without them the
property fails; the change that shows it is given. None of them is a run of its own.

| Assumption | Without it | To reproduce |
|---|---|---|
| No timer interrupt inside a switch so far (`torn`) | a wrong context is resumed | run `sched_nested_irq` |
| User threads are created last (`UserLast`), so that no other thread switches to one but the idle thread | `thread_exit()` switches without setting `TSS.rsp0` and `syscall_kernel_rsp` (`thread.c:194`): the next entry from ring 3 lands on the stack of the thread that ended | `Sched.cfg` with the user thread before `worker` in `Order`: `EntryStackIsOwn` |
| APs reach their spin loop before the first frame after `smp_init()` | an AP's pass for a boot frame counts as done of the next one (`parallel.c:89`, against `parallel.h`) | `ComposeBarrier.cfg` with `SettleFirst = FALSE`, `W32 = 16`: `ReturnsAfterAllDone` |
| Clients act between frames only | a surface added during a frame is marked seen without being painted (`compositor.c:283`, against `:57-58`) | `CompositorFrames.cfg` with `Interleaved = TRUE`, `Workloads <- OnlyArrival`: `ScreenShowsScene` |
| same | a colour set as a frame begins is never shown (`compositor.c:358`, against `compositor.h:35-37`) | the same with a workload of `"bg"` only |
| A removed surface is not added again | it counts as painted (`compositor.c:56-58`) | `ReAdd = TRUE` |
| No partial mark after a full one | the rest stays stale (`surface.c:121`, against `surface.h:80-81`) | `PartialAfterFull = TRUE` |
| The PS/2 mouse does not own the pointer (`KeysInOrder`) | `mouse_poll()` and the keyboard's interrupt both push to the ring | drop `backend = "other"`; PS/2 traffic with keys `<<16, 17, 16>>` and mouse bytes `<<9>>` |
| | a mouse byte is decoded as a key (`mouse.c:392`, against `mouse.h:33-34`) | `InputPaths.cfg` with `Traffic <- RaceTraffic`: `MouseNeverTypes` |
| No two polls of the pointer overlap (`overlap`, `own`), although compositor and dock both poll (`cursor.c:39`, `simple_desktop.c:130`, `:134`) | an event of the tablet, or a USB report, is decoded twice | `PointerSetup.cfg` and `XhciMouse.cfg` without `CONSTRAINT`, and `EventsInOrder` or `ReportsOnce` without `~overlap` |
| The controller obeyed the first disable of the transfer (`own`) | a read returns bytes of an earlier transfer (`i2c_dw.c:93`) | `PointerSetup.cfg` and `ReadsExact` without `x.own` |
| A theme with an error sets no family longer than the built-in one | `baseline_palette()` copies the default family without its end, so the tail of the other stays behind it (`ui_theme.c:169-171`, against the message at `:644`) | a family of three words in `Tokens` of `MCFiles`: `ThemeWhole` |
| No value of display.conf is empty | `skip_ws()` runs on into the next line and takes its text (`display_policy.c:127`) | an empty value in `Settings` of `MCFiles`: `PolicyWhole` |
| `color.bg.base` is not 0 | the boot replaces it by a default (`kmain.c:148`), a reload does not (`kmain.c:41`) | a base of 0 in `Tokens`: `ThemeWhole` |
| `ReportsHandled` speaks of decoding | decoded USB reports never reach the pointer: the result of the decoder is tested the wrong way round (`usb_xhci_mouse.c:1262`) | `XhciMouse.cfg` with `ReportsMovePointer` |

Further notes:

- The USB model takes failed transfers not to halt the endpoint; the driver has no code
  for a halted one.
- `kfree()` accepts a second free of a block, because its header's magic stays
  (`heap.c:116`), also when the block was merged into another; it panics only if a split has
  written another header over it since. The heap stays consistent, which `heap_lists`
  checks; but the misuse is not always noticed. A second free after the address has been
  handed out again is not modelled: it is a free of the new owner's block.
- `vmm_map()` and `vmm_unmap()` store a leaf and drop its page from the TLB in one step of
  `Vmm`; a preemption between the two is not modelled.
- A read whose count wraps in `vfs_read()` (`vfs.c:64`) copies until it leaves what is mapped;
  `Files` stops there with the panic of the page fault.
- Nobody clears the tokens of the pointer capture and of a drag when their window goes
  (`input_routing.c:27`); outside of that file nobody reads them, and no
  property is about them.
- `DamageOverflow.cfg` with `MaxRects = 16` passes, for `NothingLost` and `AreaIsPixels`:
  on that grid damage is lost only through the overflow.
- Raising windows at `SURFACE_Z_USER_MAX` makes ties (`compositor.c:116`), so the raised
  window need not be on top; `CursorOnTop` is not affected.
- A file longer than its buffer (512 bytes for the policy, 8192 for the theme) is cut
  silently, also in the middle of a line; what is before the cut counts. In a TOML theme a
  `#` ends the line also inside of quotes (`ui_theme.c:357-365`, `:467-474`), and only the
  quotes of a family are taken off; so a colour counts only if it is spelled with `0x` and
  not quoted. `Counted` in `MCFiles` says so; in JSON every spelling counts.
- "byte-for-byte" (`blit_simd.c:20`) holds of the colours: where a source pixel is fully
  transparent the kernels set the unused byte of the screen's pixel and the loop does not.
- `map_phys()` (`acpi.c:82`) says that mapping again is harmless; if the bootloader has
  mapped the tables with large pages, `vmm_map()` panics instead. `memory_boot` has such a
  machine.
- Without an initrd the policy is not loaded and the theme finds no files; the model has an
  empty archive for it.
- Comments that are out of date: `usb_xhci_mouse.h:5-7`; the message at `mouse.c:321`,
  which announces drivers that `pointer=virtio` does not try; `display_policy.h:6`, where
  `auto` lacks I2C; `mouse.h:9-10`, which says there is no I2C touchpad driver.

`PROJECT.json` lists the hazards that weigh most. Others met while reading, which no
property covers yet:

- Sizes near 2^64 wrap in `kmalloc()` (`heap.c:95`); sizes in
  a tar header are not compared with the archive's length (`tar.c:132`).
- `pkt_i` of a PS/2 packet is advanced by poll and interrupt (`mouse.c:356`); a keyboard byte
  with bit 3 set that the pointer path reads is dropped (`mouse.c:346`); a wheel mouse whose
  id comes late sends packets of four bytes to a driver that expects three (`mouse.c:238`).
- The residue of a USB transfer is read after its event was given back
  (`usb_xhci_mouse.c:1258`).
- The upper halves of the tablet's ring addresses are written as 0 (`virtio_tablet.c:313`).
- `wm_restore()` and `wm_maximize()` show a window also when its desktop is not the active
  one (`window_manager.c:166`).
- `kmalloc()` and `kfree()` take no lock although threads are preempted (`heap.c:99`).
- `timer_hz` keeps the requested rate when the clamp in `lapic_timer_init()` changed it
  (`apic.c:107`), and the wait for the PIT there has no bound (`apic.c:88`).

## 8. Not modelled

- Glyphs, paths and gradients (`font`, `path`, `path_raster`, `gradient`): they fill the
  pixels of a surface before it is shown. `Compositor` lets a paint give a surface any new
  contents.
- Animations: no code creates one.
- `cursor_tick()` and `boot_input_hint_tick()`: each moves or draws one surface, which is a
  client call of `Compositor`.
- The redraw of the desktop after a theme reload, for the same reason.
- The PCI scan and register programming of interrupt controllers, descriptor tables, SIMD
  set-up, serial output and `kprintf`: hardware access and formatting.
- Memory ordering weaker than sequential consistency: shared counters of the barrier use
  acquire/release operations and x86 is strongly ordered; each access is one step.
- Physical addresses above 4 GiB, the RESTART bit of I2C and the bytes of descriptors.
- The spelling of numbers, colours and names in configuration files: a word is one token.

## 9. Plan

1. Proofs for `Compositor` (the snapshot invariant behind `ScreenShowsScene`) and for the
   rings of `Xhci`.
2. A preempted `kmalloc()`, once the code says what may call it.
3. Halted endpoints in `Xhci`.
