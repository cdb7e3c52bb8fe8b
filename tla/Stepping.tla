------------------------------ MODULE Stepping ------------------------------
(* A walk: cursor_init_bounds2, step and cursor_fini of src/cursor.rs over
   with_cache and unwind_frame_impl of vendor/framehop/src/unwinder.rs, on either
   architecture. The slot and its snapshot are SlotPool and Snapshots; here a walk
   has them.

   Info gives the unwind information that covers a lookup address: a row,
   "uncovered" (an FDE was found but it does not cover the address), an entry of
   compact unwind information (Compact) or of Windows (Pe), a rule that one of these
   has, or "nothing". Addresses outside its domain are in no module. The rule cache
   returns what a miss computes (RuleCaching), with one exception that is kept: fell
   has the addresses whose entry is the fallback rule because unwinding failed there
   before. Entries are evicted at any time. *)
EXTENDS Compact, Pe

CONSTANTS Info,          \* [architectures -> [lookup addresses -> unwind information]]
          max_code_addr, \* of the snapshot
          TRAMPOLINE,    \* the kernel's signal trampoline on aarch64 Linux, or 0
          Page,          \* 0x1000
          FALLBACK_SPAN

InfoOf(Rules) == [is : {"rule"}, rule : Rules] \cup [is : {"row"}, row : Rows]
                 \cup [is : {"uncovered", "nothing"}]
ASSUME InfoOK ==
  /\ DOMAIN Info \subseteq {"x86_64", "aarch64"}
  /\ \A m \in DOMAIN Info : \A a \in DOMAIN Info[m] :
       /\ a \in Address
       /\ \/ Info[m][a].is = "pe"
          \/ Info[m][a] \in CompactInfo(m = "x86_64")
          \/ Info[m][a] \in InfoOf(IF m = "x86_64" THEN X86Rules ELSE ArmRules)
  /\ ptr_auth_mask(max_code_addr) \in Address

VARIABLES arch,          \* the build: "x86_64" or "aarch64"
          stack,         \* [word addresses -> values]: memory that can be read
          live,          \* the cursor is live
          regs, cur_addr, cur_ip, done, windows,    \* the slot's SlotInner
          fell,          \* the slot's cache, see above
          out            \* what the last call of step returned and wrote

walk == <<live, regs, cur_addr, cur_ip, done, windows, fell, out>>

\* FrameAddress
InstructionPointer(a) == [address |-> a, first |-> TRUE]
ReturnAddress(a) == [address |-> a, first |-> FALSE]
address_for_lookup(f) == IF f.first THEN f.address ELSE f.address - 1

-----------------------------------------------------------------------------
(* Stack windows. A window is a pair <<lo, hi>>. *)

saturating_add(a, d) == IF a + d < Word THEN a + d ELSE Word - 1

saturating_sub(a, d) == IF d <= a THEN a - d ELSE 0

\* From what the pthread library says of the calling thread's stack: addr is its low
\* end on Linux and FreeBSD and its high end on macOS, 0 if it cannot be told.
query_bounds(os, addr, size) ==
  IF os = "windows" \/ addr = 0 \/ size = 0 THEN <<0, 0>>
  ELSE IF os = "macos" THEN <<saturating_sub(addr, size), addr>>
  ELSE <<addr, saturating_add(addr, size)>>

\* bounds are those the walking thread registered, or <<0, 0>>.
stack_window(sp, bounds) ==
  IF bounds[1] # 0 /\ bounds[2] # 0 /\ sp >= bounds[1] /\ sp < bounds[2] THEN bounds
  ELSE LET lo == sp - (sp % Page) IN <<lo, saturating_add(lo, FALLBACK_SPAN)>>

InWindow(a, w) == a >= w[1] /\ saturating_add(a, 8) <= w[2]

\* A read outside the memory that is mapped faults; the embedder catches the
\* fault and abandons the walk, so that it counts as a failed read.
read_stack ==
  [a \in {a \in DOMAIN stack : a % 8 = 0 /\ \E i \in 1 .. 2 : InWindow(a, windows[i])} |-> stack[a]]

-----------------------------------------------------------------------------
(* One frame *)

exec_on(R, rule, first, rd) ==
  IF arch = "x86_64" THEN exec_x86(rule, first, R, rd) ELSE exec_arm(rule, first, R, rd)
exec(rule, first, rd) == exec_on(regs, rule, first, rd)
unwind_row(row, first, rd) ==
  IF arch = "x86_64" THEN unwind_row_x86(row, first, regs, rd)
  ELSE unwind_row_arm(row, first, regs, rd)
fallback_rule == UseFramePointer
rule_if_uncovered_by_fde ==
  IF arch = "x86_64" THEN JustReturnIfFirstFrameOtherwiseFp ELSE NoOpIfFirstFrameOtherwiseFp

\* What a module says of an address in it. A compact entry gives a rule, refers to
\* a row or fails.
FromCompact(r) ==
  CASE r.is = "NoRule" -> [is |-> "nothing"]
    [] r.is = "Dwarf" -> [is |-> "row", row |-> r.row]
    [] OTHER -> [is |-> "rule", rule |-> r]
Found(a, first) ==
  IF Info[arch][a].is # "compact" THEN Info[arch][a]
  ELSE FromCompact(compact_unwind_frame(arch = "x86_64", Info[arch][a], first))

\* The outcome of a miss: a module is found or not, its callback fails or not.
unwind_with(info, first, rd) ==
  CASE info.is = "rule" -> ExecRule(info.rule)
    [] info.is = "uncovered" -> ExecRule(rule_if_uncovered_by_fde)
    [] info.is = "row" -> unwind_row(info.row, first, rd)
    [] info.is = "pe" -> pe_unwind_frame(info, first, regs, rd)
    [] info.is = "nothing" -> Failed(regs)
unwind_frame_impl(a, first, rd) ==
  IF a \notin DOMAIN Info[arch] THEN Failed(regs) ELSE unwind_with(Found(a, first), first, rd)

\* A hit and a miss end in the same exec. A failure becomes the fallback rule, on
\* the registers that it left.
Finish(r, first, rd) ==
  CASE r.is = "ExecRule" -> exec(r.rule, first, rd)
    [] r.is = "Err" -> exec_on(r.regs, fallback_rule, first, rd)
    [] r.is = "Some" -> r
with_cache(f, rd) ==
  LET a == address_for_lookup(f)
  IN  Finish(IF a \in fell THEN ExecRule(fallback_rule) ELSE unwind_frame_impl(a, f.first, rd),
             f.first, rd)

\* The address whose cache entry this frame turns into the fallback rule, if any.
FallsBack(f, rd) ==
  LET a == address_for_lookup(f)
  IN  IF a \in DOMAIN Info[arch] \ fell /\ Info[arch][a].is \in {"row", "compact", "pe"}
         /\ unwind_frame_impl(a, f.first, rd).is = "Err"
      THEN {a} ELSE {}

-----------------------------------------------------------------------------
(* The calls *)

\* FhContext::zeroed; lr is unused on x86_64.
zeroed == [ip |-> 0, sp |-> 0, fp |-> 0, lr |-> 0]
context_from_os(present, cpu) ==
  IF ~present THEN zeroed ELSE [cpu EXCEPT !.lr = IF arch = "x86_64" THEN 0 ELSE @]
\* Called at cpu.ip, and returns to the next instruction.
fh_capture_context(cpu) ==
  [cpu EXCEPT !.ip = @ + 1, !.lr = IF arch = "x86_64" THEN 0 ELSE cpu.ip + 1]

make_regs(ctx, mask) ==
  IF arch = "x86_64" THEN [ip |-> ctx.ip, sp |-> ctx.sp, fp |-> ctx.fp]
  ELSE [lr |-> strip_ptr_auth(mask, ctx.lr), sp |-> ctx.sp, fp |-> ctx.fp, mask |-> mask]

\* Window w2 is ignored if empty; w1 too, and then the window is derived from sp.
cursor_init_bounds2(ctx, bounds, w1, w2) ==
  /\ ~live              \* the caller calls cursor_fini first
  /\ live' = TRUE
  /\ regs' = make_regs(ctx, ptr_auth_mask(max_code_addr))
  /\ cur_addr' = InstructionPointer(ctx.ip)
  /\ cur_ip' = ctx.ip
  /\ done' = FALSE
  /\ windows' = << IF w1[1] < w1[2] THEN w1 ELSE stack_window(ctx.sp, bounds),
                   IF w2[1] < w2[2] THEN w2 ELSE <<0, 0>> >>
  /\ UNCHANGED <<fell, out>>

\* cursor_fini, as far as a walk goes: the handle is dead, the cache stays.
cursor_fini == live /\ live' = FALSE /\ UNCHANGED <<regs, cur_addr, cur_ip, done, windows, fell, out>>

Outputs(ret, ip, sp) == out' = [ret |-> ret, ip |-> ip, sp |-> sp]

is_trampoline(ip) == arch = "aarch64" /\ TRAMPOLINE # 0 /\ ip = TRAMPOLINE

NextAddr_Return(ra, interrupted) == ReturnAddress(ra)
\* Past a signal frame the caller stopped at this very instruction.
NextAddr(ra, interrupted) == IF interrupted THEN InstructionPointer(ra) ELSE ReturnAddress(ra)

unwind(rd) == IF is_trampoline(cur_ip) THEN restore(regs, rd) ELSE with_cache(cur_addr, rd)

\* rd and r are names for one value each: TLC computes a bound variable once.
StepFrame ==
  /\ live /\ ~done
  /\ \E rd \in {read_stack} : \E r \in {unwind(rd)} :
       LET more == r.is = "Some" /\ r.ra # 0
       IN  /\ Outputs(IF more THEN 1 ELSE 0, cur_ip, regs.sp)
           /\ regs' = r.regs
           /\ done' = ~more
           /\ cur_ip' = IF more THEN r.ra ELSE cur_ip
           /\ cur_addr' = IF more THEN NextAddr(r.ra, r.interrupted) ELSE cur_addr
           /\ \E evicted \in SUBSET fell :
                fell' = (fell \ evicted)
                        \cup (IF is_trampoline(cur_ip) THEN {} ELSE FallsBack(cur_addr, rd))
  /\ UNCHANGED <<live, windows>>

\* A step of a walk that has ended, and of a cursor that is not live.
StepEnded == /\ live => done
             /\ Outputs(IF live THEN 0 ELSE -1, 0, 0)
             /\ UNCHANGED <<live, regs, cur_addr, cur_ip, done, windows, fell>>

step == StepFrame \/ StepEnded

get_reg == IF live THEN [ip |-> cur_ip, sp |-> regs.sp] ELSE [ip |-> 0, sp |-> 0]

-----------------------------------------------------------------------------
(* Properties *)

\* Registers and addresses stay 64-bit values through every rule, although the
\* sums in exec and in the evaluation of a row are computed from stack contents
\* (unwind_rule.rs and dwarf.rs check or wrap each of them).
WalkTypeOK ==
  /\ arch \in DOMAIN Info
  /\ regs \in IF arch = "x86_64" THEN X86Registers ELSE ArmRegisters
  /\ cur_ip \in Address /\ cur_addr \in [address : Address, first : BOOLEAN]
  /\ ~cur_addr.first => cur_addr.address > 0
  /\ live \in BOOLEAN /\ done \in BOOLEAN
  /\ fell \in SUBSET DOMAIN Info[arch]

\* A walk reports raw code addresses: a return address that it follows carries no
\* authentication hash (unwindregs.rs, strip_ptr_auth).
ReturnAddressesStripped ==
  arch = "aarch64" /\ ~cur_addr.first => cur_ip = strip_ptr_auth(regs.mask, cur_ip)


=============================================================================
