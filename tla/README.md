# A TLA+ model of framehopunwind

framehopunwind is a stack unwinder for a JIT runtime: a C interface over a
vendored copy of the `framehop` crate. Any thread, also one suspended at an
arbitrary instruction and a signal handler, walks a stack with
`fh_cursor_init` / `fh_step` / `fh_cursor_fini`, which take no lock and allocate
nothing, while other threads load and unload images and register and deregister
JIT code.

This directory holds TLA+ modules translated from `src/` and `vendor/framehop/`,
the TLC configurations that check small instances, and TLAPS proofs for every
value of the constants. `PROJECT.json` maps every definition to the lines it
models, and lists runs, mutants, hazards, findings and theorems.

    tlc -config snap_safety.cfg MCSnapshots       # one run
    tlapm WalkProofs.tla                          # one module of proofs

## 1. The system

### Components

| Component | Code | Operations | Model |
|---|---|---|---|
| slot pool | `src/state.rs`, `src/cursor.rs` | `init`, `thread_registered`, `ensure_slots`, `claim_slot`, `release_slot` | `SlotPool`, `PoolCrowd` |
| snapshots | `src/state.rs` | `acquire_snapshot`, `with_writer`, `is_hazarded`, `reclaim` | `Snapshots`, `AtomicSnapshot` |
| JIT registry | `src/modules/{mod,jit}.rs` | `register_jit_eh_frame`, `deregister_jit`, `deregister_jit_eh_frame` | `JitRegistry` |
| refresh (ELF, Windows) | `src/modules/{mod,elf,pe}.rs` | `refresh` | `StaticRefresh` |
| dyld callbacks | `src/modules/{mod,macho}.rs` | `init_callbacks`, add, remove, end of batch | `DyldImages` |
| modules of images | `src/modules/{elf,macho,pe}.rs` | the `dl_iterate_phdr` callback, `build_image`, `image_key`, `build_pe_module` | `Images` |
| JIT sections | `src/modules/jit.rs`, `vendor/framehop/src/dwarf.rs` | `register_jit_eh_frame`, `..._auto`, `try_new`, lookup | `JitIndex` |
| module list | `vendor/framehop/src/unwinder.rs` | `add_module`, `remove_module`, `find_module_for_address`, `max_known_code_address` | `ModuleList`, `ModuleBag` |
| rule cache | `vendor/framehop/src/{unwinder,rule_cache}.rs` | `with_cache`, `lookup`, `insert`, `next_modules_generation` | `RuleCaching` |
| walks | `src/{cursor,stackbounds,sigreturn,capture,arch}.rs` | `cursor_init_bounds2`, `step`, `get_reg`, `cursor_fini`, `fh_capture_context`, contexts of signals and threads, `restore` | `Stepping` |
| unwind rules and DWARF rows | `vendor/framehop/src/{dwarf,x86_64,aarch64}` | `exec`, `translate_into_unwind_rule`, the generic path, `strip_ptr_auth` | `Frames`, `X86`, `Arm64` |
| Mach-O compact unwind information | `vendor/framehop/src/{macho,x86_64/macho,aarch64/macho}.rs` | `unwind_frame`, `rule_for_stub_helper` | `Compact` |
| instruction analysis | `vendor/framehop/src/{x86_64,aarch64}/instruction_analysis/` | detection of prologues and epilogues | `Compact` |
| PE unwind information | `vendor/framehop/src/{pe,x86_64/pe,x86_64/register_ordering}.rs` | `unwind_frame`, `for_sequence_of_offset_or_pop`, `encode`, `decode` | `Pe` |

What is left out is in section 6.

### How they interact

A walk claims a slot of the pool (`claim_slot`), protects the current snapshot
with the slot's hazard cell (`acquire_snapshot`), walks with the slot's rule
cache, and releases both (`release_slot`). A snapshot is a boxed `Unwinder`,
that is a module list with a generation. `with_writer` clones it, lets the
registry change the clone, swaps it in and frees the retired ones no hazard
names. `refresh`, the dyld callbacks and the JIT calls are the users of
`with_writer`, each under the `REGISTRY` mutex. A step looks up the module of an
address, finds a rule or a row for it, and computes the registers of the caller
from the words of the stack.

### What is hard here

* Two walks race for a slot; a scan without a lock passes slots that are freed
  behind it; the pool grows during a scan and during the writer's hazard scan.
* `fh_cursor_fini` may be called on a stale copy of a cursor, after the slot was
  recycled.
* A freed snapshot's address is reused, so a successful recheck of `CURRENT`
  does not by itself say that nothing happened in between.
* `release_slot` is four separate stores.
* The loader changes the set of images between the steps of `refresh`, and dyld
  between the registrations of the two callbacks.
* JIT addresses, `.eh_frame` buffers and image addresses are reused.
* A slot's cache outlives the walk and the snapshot it was filled under.
* Chunks of the module list split and disappear; starts collide; relative
  addresses are 32 bits.
* Images come in any layout, at any slide, with sizes in their headers that reach
  past their end, and their sections are read in place.
* A thread is stopped between any two instructions, inside a prologue, an epilogue
  or a signal handler on another stack; a return address points past a call that
  may be the last instruction of its function.
* Compact unwind information describes only the bodies of functions, and several
  functions by one entry; what a prologue or epilogue did is guessed from the
  instructions around the program counter.
* The stack that is walked may hold anything: sums overflow, frames form cycles,
  reads fail half way through a rule.
* One row is evaluated on two paths, cached rule and generic, which must agree.

These are the hazards of `PROJECT.json`. Each entry there names the properties that
would catch it going wrong, or says in a note which part of it, or that all of it, is
left uncovered and why: the code does what the hazard says (a cached failure, a
longjmp past fini, trampolines that name each other, a Windows entry whose read
fails), an assumption excludes it (equal fingerprints, JIT code at the start of an
image), or the model could only repeat its own definition (reads at the ends of the
address space).

## 2. Modules and correspondence with the code

**SlotPool.** One action per shared atomic access: the `compare_exchange` of `in_use`
in `claim_slot`, together with the load of the slot's entry of `SLOT_CHUNKS` that
precedes it at the head of a chunk, the `fetch_add` of `seq`, the `compare_exchange`
of `seq` in `release_slot` and the store that frees the slot; `allocated` is
`SLOTS_ALLOCATED`, which the writer of `SLOT_CHUNKS` keeps equal to the slots
published. `Walkers` are the walks (a
registered thread runs up to `SLOTS_PER_THREAD` at a time), `Stale` are finis of
copies of a cursor, `Growers` the calls of `fh_init` and `fh_thread_register`.
`nonce` is the cursor's nonce; odd sequences mean claimed. Details of the
abstraction: a failed compare-exchange reads the latest value; the relaxed load of
`nonce_matches` sees the thread's own claim, which is the only thing its result
depends on. **PoolCrowd** adds a history variable: for each scan, the most processes
that were scanning or answerable for a slot at one moment since it began.

**Snapshots** extends SlotPool: a claim is followed by the load of `CURRENT`, the
store of the hazard and the recheck, then by the snapshot copied into the slot;
`Fini` runs the stores of `release_slot` one by one. The writer's swap is one
action (`Publish`), and `reclaim` one action per hazard cell it loads. A
snapshot's contents are its version number; boxes live at reusable addresses.
All accesses of `CURRENT` and of the hazards are SeqCst in the code, which is
what interleaving actions model. The one exception is the first load of
`CURRENT`, an acquire load: it may return any value of `CURRENT` that the walk has
not already seen overwritten, which `view` and `hist` model. A walk that starts
before `fh_init` sees no snapshot and fails, as in the code.

**AtomicSnapshot** is the promise: one register of versions, each walk reads one
version atomically and keeps it.

**JitRegistry** holds the registry maps as functions with `None` and the
published list as a count of modules for each key, since `add_module` does not
replace and `remove_module` removes any one module with the start.
**StaticRefresh** composes it with `refresh` and a loader that maps and unmaps
images at any time: the count check, the enumeration (atomic under
`dl_iterate_phdr`; list, then pin one by one on Windows), the diff against
`static_mods` and the publication. **DyldImages** composes it with the callbacks;
the batch is a set of entries, each with the number of images mapped when it was
made, which is the order of the code's list as far as entries of one key go.
The lock `REGISTRY` is held by one operation at a time, so a whole JIT call is
one action; its `with_writer` is the `Publish` of Snapshots.

**Images** says what the module of one image holds: an image is what the loader
shows of it (program headers, load commands or section headers) with a slide, and
the three actions are the functions that build a module of it, the decoding of
`.eh_frame_hdr` included. A section of a module is where its bytes start in
memory, where the module says they start, and how many there are. **JitIndex** is
the numeric side of a JIT registration. In both, addresses are numbers, and
subtractions wrap or are checked as in the code. What the code relies on and does not
check is assumed by name: link addresses that do not wrap, sections that lie in
segments and an `.eh_frame_hdr` whose field fits its format (`SegmentsAssumption`,
`ElfAssumption`, `MachOAssumption`, `HeaderAssumption`), and that images are mapped
whole (`Loaded`). The section headers of a PE image may say anything
(`PeAssumption`).

**ModuleList** keeps the chunks as sequences. The standard library's binary
searches return any of several equal elements, so `Search` is the set of their
possible results, and actions choose. **ModuleBag** is its promise, a bag of modules:
a module counts as often as it stands in the list.

**RuleCaching** models lists and rules as constants (`RuleFor[list][address]`),
so nothing depends on how a rule is found; `readable` is the outcome of the
generic path on the walk's stack.

**Frames**, **X86** and **Arm64** are pure operators, from the registers of a frame
and the readable words of the stack to the registers of its caller: checked and
wrapping sums of `Word`, reads, the evaluation of CFA and register rules
(Frames), and for each architecture the rules, their execution, the translation
of a row into a rule and the generic path. An outcome says what the Rust `Result`
says, and also what is left in the registers when a rule fails half way. Of the
registers, those the cursor reports or the rules compute with are kept: ip, sp,
fp, on aarch64 lr with its authentication mask. The 16-bit fields of a rule are
`U16s` and `I16s`; a rule's list of pops is a sequence.

**Compact** has what happens at an address of a Mach-O image: the order in which
stubs, stub helpers, function starts, the instructions and the opcode are
consulted, the opcodes of each architecture and the detection of prologues and
epilogues. A function's code is a sequence of instructions, each given by what the
detectors decode of it, so a push is a push whatever its encoding, and offsets count
instructions; in `__stub_helper` they count bytes, as the rules there do. The
parser is the crate `macho_unwind_info`: an entry is an input.

**Pe** has the rules made of unwind operations or of the rest of an epilogue, with
the packing of popped registers into 16 bits and back, and the path for the
others, which changes the registers operation by operation. The parser, the
recognition of an epilogue and the meaning of an operation are the crate
`pe_unwind_info`, modelled from its use.

**Stepping** is the walk: the cursor's calls over `with_cache` and
`unwind_frame_impl`, the two stack windows, the trampoline. `Info` gives the unwind
information found for an address, which is the other modules' result; `Found`
resolves a compact entry to its rule or row. The rule cache is transparent
(RuleCaching), except that a failure of the generic path leaves the fallback rule
behind: `fell`.

**WildStack** lets Stepping loose on any memory, registers and windows.
**Machine** instead runs a thread of compiled code, instruction by instruction,
with signals on either stack and traps, and stops it anywhere to walk it: the thread
is the environment, and `chain` is its call stack as it really is. `MCMachine` holds
its programs with the unwind information a compiler emits for them: DWARF rows,
Windows entries (a frame pointer, saved registers, a chained entry, an epilogue cut
anywhere, a machine frame) and Mach-O entries (frame based, frameless, indirect,
collapsed, without text bytes, tail calls, stubs and stub helpers).

## 3. Runs

| Run | Module | Shows |
|---|---|---|
| `pool` | MCSlotPool | exclusive slots, slots kept, a claim fails only if more processes than slots were in the pool at one moment of its scan; two registrations, a stale fini and too few slots for all |
| `snap_safety` | MCSnapshots | no use after free, no leak, released slots clean, refinement of AtomicSnapshot; the pool grows under the writer's scan, addresses are reused, a fini is stale |
| `snap_live` | MCSnapshots | `cursor_init` and `cursor_fini` return although the writer may stop anywhere; a writer that runs returns whatever the hazards; a registered thread is never turned away |
| `refresh` | MCStaticRefresh | the two JIT maps are inverse and the list shows exactly the registered keys; an unchanged count means an unchanged set of images; after a refresh every image that stayed mapped, and none other, is published; ELF and Windows |
| `dyld_mirror` | MCDyldImages | after the batch the published list mirrors dyld, and unmapping waits for publication |
| `cache_rules` | MCRuleCaching | no step uses a rule of another module list |
| `modules` | MCModuleList | the list stays sorted and implements a bag (no module lost, repeated or taken out with another), with equal starts and chunk splits; lookups and the highest code address are exact while the modules are disjoint |
| `jit_index` | MCImages | lookups in a JIT section find the FDE that covers an address, whatever base the section is registered at; the sections of the modules built of ELF, Mach-O and PE images lie in the image and line up with it; a module is removed by the key it was added under |
| `walk_exact` | MCMachine | a walk of a thread stopped at any instruction reports its call stack, every frame with ip and sp, and ends at the first function |
| `walk_any` | MCWildStack | over any memory: registers stay in range, the stack pointer moves up and no two steps in a row leave it in place, walks end, a failed step leaves the last frame in place, and a cached rule means what its row means |
| `jit_nodata`, `arm_pac` | MCJitIndex, MCMachine | disagreements between code and documentation, section 5 |

Every property has a mutant in `PROJECT.json`: a change of the modelled code under
which TLC finds it violated.

### Bounds

*Concurrency.* `MaxSeq` bounds the sequence number of a slot: 4 allows two walks of
one slot, so that it is recycled under a stale cursor. `MaxPublish` bounds publications:
three suffice for an address to be published, freed and published again while a
reader holds it. `MaxEvents` bounds the loader's events; four allow an image to be
replaced by another at the same address within one refresh, and three do in
`dyld_mirror`, where JIT code may take the address of an image in between.
`MaxGeneration` lets
the counter of generations run out, which the code refuses to wrap. `SLOT_CHUNK`,
`MODULE_CHUNK` and `CACHE_ENTRY_COUNT` are 1 or 2 instead of 16, 64 and 509, so that
growth, splits and evictions happen at once.

*Images and JIT sections.* In JitIndex `Word` is 8 and `U32_MAX` is 4, so that the
32-bit limit lies inside the address space as it does on 64-bit machines. Images
lie in a `Space` of 64 addresses with the layouts and slides of `MCImages`.

*Walks.* `Word` is 512 in `walk_exact`, which is room for the code, two stacks and a
hash above the code addresses; the 16-bit fields of a rule have `U16` = 32 values.
The stacks hold seven and six words on x86_64 and eight each on aarch64, enough for
calls nested two or three deep with what they save, and for a signal frame. In `walk_any` `Word` is 256 and `U16` is 4, so
that fields overflow and sums wrap; its stacks, registers and windows include both
ends of the address space, and its words point at, before and behind each other, so
that there are cycles of frame pointers. An instruction is one byte. A call and what
follows it are then neighbours, which the lookups one byte back rely on; the
offsets into stub helpers are the real ones.

Deadlock checking is off where the system really stops: in the pool and snapshot
runs the walks and publications are bounded, and in the walk runs a walk is done.

### Fairness

`snap_live` assumes weak fairness of each walk's own steps and nothing of the
writer: a sampler may suspend the thread that holds `WRITER`. `WriterReturns`
takes weak fairness of the writer's own `reclaim` steps as its premise, and
nothing more of the readers than the run does; it holds because `reclaim` keeps
a hazarded snapshot instead of waiting for it. So neither side waits for the
other. A reader's retries are bounded by the publications that overlap it.

`walk_any` assumes that the caller keeps calling `fh_step` until it returns 0
(`WF_calls(Call)`), which is the loop the header prescribes. `WalkEnds` excepts
walks that pass signal frames for ever, and those over x86_64 rows that keep the
return address elsewhere than below the CFA: `DidNotAdvance` compares a frame with
the one before only. The safety half of it is proved: `Rank`, twice the stack
pointer and one more for a frame reached through the word below it, rises with each
other frame (`SpMovesUp`) and has a bound (`RankBounded`).

## 4. Proofs

Eight modules; every theorem holds for every value of the constants that satisfies
the named assumptions.

**SlotPoolProofs.** `HolderInv` says who holds each slot (a claimed slot has one
holder, with the slot's nonce if it is a walk, and a stale fini holds a slot only
between a won compare-exchange and the freeing store). It gives
`PoolTypeCorrect`, `SlotsExclusive` and `WalksKeepSlots`. `ScanFailsOnlyInCrowd`
needs a counting argument, because a scan never sees the pool at one moment. It may
fail with a slot free, in a pool that never was full: with two slots, one walk holds
the first, two others pass it, it is freed, one of the two takes the second slot and
the other fails. `PeakInv` says that a process that passes slot `i` leaves its holder
behind, so that of the `crowd` of a scan at most `crowd - i` are at slot `i` or
beyond, for every `i` up to where the scan has come; at the end of the pool the scan
itself is one of them. `CrowdInv` is the same bound with the processes that are
entitled to run in place of those inside; `RegistrationSuffices` adds to it
`GrowthInv`, which relates `REGISTERED_THREADS`, the targets computed from it by
concurrent registrations and the size of the pool.

**SnapshotsProofs.** `SnapInv` is `TypeOK`, `HolderInv`,
`BoxInv` (which addresses are current, retired or free, once each) and
`HazardInv`. The latter is the hazard-pointer argument: if a validated hazard names
an address that is no longer current, it is retired, and the writer's scan for
that address has not yet passed the slot. It gives `SafeReclamation`,
`WalksReadTheirSnapshots`, `CurrentStaysAlive`, `WriterAccounts`, `FreeSlotsClean`,
and, with `StepIsPoolStep` and one lemma per action, `Refinement`: the code's protocol
implements AtomicSnapshot.

**StaticRefreshProofs.** `JitRegistryCorrect`: the three invariants of the JIT maps
together are inductive (`JitInv`). `RefreshCorrect`, `MapsSurviveRefreshes`,
`HandlesSurviveRefreshes` and
`RefreshIsCurrent` hold under the hypothesis `Hyp`, that different images have
different fingerprints and that no image has the start address of JIT code.
`RefreshInv` relates what the enumeration has seen so far to what the loader did
since (`ScanAgrees`, `Past`), and the stored counts to the registry
(`CountsAgree`).

**DyldProofs.** `DyldInv` says for every key that was not unloaded between the two
registrations which image the callbacks hold for it (`Held`): the batch has an entry
of it and nothing else at the key until `macos_end_batch`, `static_mods` and the
published list have it from then on. `JitAt` has to be part of it, as
`remove_module` takes any module with the start: images and JIT code may use the same
addresses, but not at the same time, so there is one to take. It gives
`DyldMirrored` and `PublishedStaysMapped`, for any number of keys and images.

**ModuleListProofs.** The list's invariant is `Good`: chunks are not empty, not too
long, without repetition and ascending, and each is `Apart` from all that come after
it. One lemma for each change of the list (`ReplaceChunk`, `InsertIntoList` with
`HalfChunk` for the split, `DropChunk`) keeps it and gives the modules afterwards;
`SearchIs`, `Around` and `PlaceIs` say which places the two binary searches may come
to, any of several equal starts included, and `NoneMissed` that a module that is
there is not missed. They give `ListTypeCorrect`, `ListStaysSorted`,
`RemoveAlwaysFinds`, `MaxCodeAddressIsMax`, `LookupIsExact` and `ListIsABag` (the
list implements ModuleBag, and by `OneCopy` each module is in it once), for any `MODULE_CHUNK`, modules and addresses. That a
binary search returns what `Search` says of a sorted sequence is the standard
library's documentation.

**LookupProofs.** Three small systems and the modules of images. `RuleCacheCorrect` and `GenerationsNameLists`,
from `CacheInv`: generations in caches and unwinders are
below the counter, a generation names one list, and entries agree with every
unwinder of their generation. `JitLookupsLineUp`, from `IndexInv`: the index is the
one `try_new`
makes for the module's base. An address is found since of FDEs that do not overlap
only the one with the last start at or below the address can cover it
(`SearchFinds`), and the range that `fde_pc_range` computes includes them all
(`RangeIncludes`). `RemovedIsAdded`, from `AddedInv`: `build_image` files a module
under the last `__TEXT`, which is also the first that `image_key` finds if there is
one. `SectionsMapped` and `SectionsAligned`, from `SectionsInv`, which adds to the two
properties that the image is as the loader left it. All sums here wrap, so the argument
is one of congruence (`Cong`: equal up to a multiple of `Space`). An address
found by comparison with the wrapped ends of a segment lies in that segment as it was
linked (`SegmentHolds`), a section in a segment is mapped with it (`HeldIsMapped`,
`SlidLinesUp`), and `DecodeFinds` says that each of the pointer formats, extended
to the width of an address, gives back the link address of the `.eh_frame`.

**WalkProofs.** The inductive invariant `WalkInv` is the type invariant and that the
stack is one of the world's; the work is in the operators. One lemma for each kind of
rule, row and entry says that from registers in range and any memory it yields an
outcome in range, and where sp may end up: `CompactType` and `FoundType` for what a
lookup gives, in particular that instruction analysis only makes rules whose
16-bit fields fit, then a lemma for `exec` and one for the generic path of each
architecture. On x86_64 `X86ExecFresh` and `X86GenericFresh` add that a caller's ip is
the word below its sp and that one of the two has changed: of two frames in a row with
one sp, the second would have the ip of the first, which `DidNotAdvance` refuses.
They give `WalkTypeCorrect`, `FramesMoveUp`, `RankBounded` and `EndKeepsFrame`, for any
words, field widths, stacks, windows and unwind information but that of Windows,
whose generic path checks no progress (`WorldOK`).

**PathProofs.** `PathsAgree`: for any aligned row and any stack, where the rule that a
row is translated into finds a caller, the generic path finds the same
(`X86RowAgrees`, `ArmRowAgreesSp`, `ArmRowAgreesFp`, one for each base of the CFA).
Division of offsets by 8 or 16 and its truncation are where the two could differ.

Where an argument needs a least or a greatest number (the first module at or above
an address, the last start below it, the last entry of a batch), it comes from
`LeastNatural`, that is from the well-foundedness of the naturals.

Model-checked only:

* liveness and the other uses of `ENABLED`, which the proof system does not support;
* `ReportsCallStack`, which is about given programs and the unwind information that
  a compiler emits for them;
* Windows entries, whose operations are recursive functions of their codes;
* what recursively computed data are for every input (the packing of registers, the
  sums over a prologue): the library's induction theorems take an operator, which the
  installed provers cannot instantiate.

## 5. Findings

Two are violation runs.

* `jit_nodata`: `register_jit_eh_frame` returns success for a module whose FDE
  index cannot be built, and which then has no unwind data (`jit.rs:74`).
* `arm_pac`: the generic path of aarch64 returns lr with its authentication hash,
  which `exec` strips (`aarch64/dwarf.rs:93`). The walk reports the address with the
  hash and finds no module for it.

The others were met while modelling; the models behave like the code there, and
the properties state the exception.

* The module of an unloaded image stays published if its address has become a JIT
  key (`modules/mod.rs:161`); excluded by `KeysDisjoint`, a part of `Hyp`.
* An image unloaded between the registrations of the two dyld callbacks stays
  published (`modules/macho.rs:67`): the exception `missed` of `MirrorsDyld`.
* A failure of the generic path leaves a fallback rule in the cache, so that a later
  walk takes a signal frame for an ordinary one (`unwinder.rs:437`): `fell`.
* `image_key` takes the first `__TEXT` of an image, `build_image` the last. They
  agree because linkers write one.
* x86_64 stub helper: the rule for byte offset 7, before `push r11`, pops two words
  where one was pushed (`x86_64/macho.rs:152`). The address is `blind` in
  `MCMachine`.
* aarch64 prologues: stepping back stops at the instruction that sets x29, so that
  at a `sub sp` after it nothing is undone. The programs have no such prologue.
* `autibsp` before a plain `ret` is not taken for an epilogue; `retab` is. Without
  text bytes the `ret` of a frameless function gets the rule of the body.
* PE, generic path: a read that fails half way leaves changed registers, on which
  the fallback rule then runs; nothing checks that the frame is above its callee. A
  machine frame is not reported as interrupted, so the interrupted address is
  looked up one byte back.

Two differences of wording: the header says that each registration adds two slots
to `fh_init`'s number, where the code grows the pool to a number that does not
depend on it; and the README says that sections are copied, where those of loaded
images are read in place.

## 6. Not modelled

| What | Why |
|---|---|
| null checks of `lib.rs`, its stubs for other architectures | forwarding without state |
| CFI byte code, ELF and Mach-O load commands byte by byte | crates outside the repository, or fields read at fixed offsets; their results are inputs |
| encodings of instructions | the detectors are modelled on decoded instructions; bytes of one instruction that look like another are not in the model |
| `macho_unwind_info`, `pe_unwind_info` | crates outside the repository; what they find is an input, what an operation does is modelled from its use |
| the scan of the vDSO for the trampoline | its result is the constant `TRAMPOLINE` |
| fields of signal contexts and thread states | the C library's layout; the registers taken are modelled |

Assumptions inside the models: the 64-bit sequence counter does not wrap; distinct
fingerprints, since a collision is indistinguishable to the code;
`GetModuleHandleEx` by address gives the module listed at this base unless it was
replaced; well-formed sections have FDEs that are not empty, do not overlap and do
not wrap; a frame register of Windows is rbp. The branch of `macos_remove_image`
that finds a JIT key at an image's address is unreachable because mappings are
exclusive.
