------------------------------ MODULE WildStack -----------------------------
(* A walk over any memory at all: a corrupt stack, a frame pointer that is a
   scratch register, code without unwind information. What the unwinder still
   promises here is that a walk makes progress and ends. *)
EXTENDS Stepping

CONSTANT World           \* [architectures -> [stacks, contexts, windows, fallen]]: the
                         \* memory, the registers and windows a walk may start
                         \* with, and what earlier walks may have left in fell

ASSUME WorldOK ==
  \A m \in DOMAIN Info :
    /\ \A s \in World[m].stacks : Memory(s)
    /\ World[m].contexts \subseteq [ip : Address, sp : Address, fp : Address, lr : Address]
    /\ World[m].fallen \subseteq SUBSET DOMAIN Info[m]
    /\ \A a \in DOMAIN Info[m] : Info[m][a].is # "pe"      \* see Pe

VARIABLE calls           \* the parity of the number of calls made

vars == <<arch, stack, walk, calls>>

Init == /\ arch \in DOMAIN Info
        /\ stack \in World[arch].stacks
        /\ fell \in World[arch].fallen
        /\ live = FALSE /\ done = FALSE
        /\ regs = make_regs(zeroed, Word - 1)
        /\ cur_ip = 0 /\ cur_addr = InstructionPointer(0)
        /\ windows = << <<0, 0>>, <<0, 0>> >>
        /\ out = [ret |-> 0, ip |-> 0, sp |-> 0] /\ calls = 0

\* The caller goes on until step has returned 0.
Call == ~done /\ calls' = 1 - calls
Start == /\ Call
         /\ \E cpu \in World[arch].contexts, present \in BOOLEAN, w \in World[arch].windows :
              cursor_init_bounds2(context_from_os(present, cpu), <<0, 0>>, w[1], w[2])
         /\ UNCHANGED <<arch, stack>>
Step == Call /\ StepFrame /\ UNCHANGED <<arch, stack>>

\* Then it may release the cursor, and it may step it once more before or after.
StepAgain == done /\ StepEnded /\ UNCHANGED <<arch, stack, calls>>
Fini == done /\ cursor_fini /\ UNCHANGED <<arch, stack, calls>>

Next == Start \/ Step \/ StepAgain \/ Fini

Spec == Init /\ [][Next]_vars /\ WF_calls(Call)

-----------------------------------------------------------------------------
(* Properties *)

\* The unwind information of the current frame, if it is a row.
CurrentRow(P(_)) ==
  LET a == address_for_lookup(cur_addr)
      info == Found(a, cur_addr.first)
  IN  a \in DOMAIN Info[arch] \ fell /\ info.is = "row" /\ P(info.row)
AtSignalFrame ==
  IF arch = "x86_64" THEN CurrentRow(LAMBDA row : row.signal) ELSE is_trampoline(cur_ip)
OnlyGeneric ==
  CurrentRow(LAMBDA row : IF arch = "x86_64" THEN translate_x86(row) = NoRule
                          ELSE translate_arm(row) = NoRule)
\* On x86_64, rows whose return address is not the word below the CFA
ReturnsElsewhere ==
  arch = "x86_64" /\ CurrentRow(LAMBDA row : row.ra.is \notin {"Missing", "Undefined"}
                                             /\ row.ra # Offset(-8))

\* What grows from frame to frame, up to 2 * Word: the stack pointer and, while it
\* stays in place, whether the frame was reached through the word below it (x86_64).
AtReturn == arch = "x86_64" /\ Read(read_stack, (regs.sp - 8) % Word) = regs.ip
Rank == 2 * regs.sp + (IF AtReturn THEN 1 ELSE 0)

\* A step never moves the stack pointer down: every frame lies at or above the one
\* it called, whatever the stack holds. The exceptions are the two frames whose sp is
\* not a consequence of the one before: a signal frame, and a first frame on the
\* generic path. And a step that leaves the stack pointer in place is the first of
\* a walk on aarch64, and on x86_64 has no other of its kind after it, so that walks
\* are bounded: the rank rises, but for rows that do not keep the return address
\* below the CFA (x86_64/dwarf.rs:76 and 81, x86_64/unwind_rule.rs:126, 210 and 244,
\* and their aarch64 counterparts). Code described by Windows entries is left out by
\* WorldOK: their path (pe.rs) has no such checks.
SpMovesUp ==
  [][Step /\ ~done' /\ ~AtSignalFrame /\ ~(cur_addr.first /\ OnlyGeneric)
     => /\ regs'.sp >= regs.sp
        /\ Rank' > Rank \/ ReturnsElsewhere \/ (arch = "aarch64" /\ cur_addr.first)]_vars

\* Every walk ends, also over a stack whose frame pointers form a cycle, unless it
\* passes signal frames for ever or, on x86_64, rows that do not keep the return
\* address below the CFA. This is what the checks for DidNotAdvance and those for
\* movement backwards achieve together; Windows entries, which have none, are left
\* out by WorldOK.
WalkEnds == <>[](~AtSignalFrame /\ ~ReturnsElsewhere) => <>(live /\ done)

\* When a step ends the walk, get_reg goes on showing the frame that the step
\* reported, also if unwinding it failed half way through popping registers. The
\* stack pointer is an exception if the unwinder found a null return address, and
\* Windows entries, whose operations change the registers one by one, are left out by
\* WorldOK.
FoundNull == \E r \in {unwind(read_stack)} : r.is = "Some" /\ r.ra = 0
LastFrameStays ==
  [][Step /\ done' => get_reg'.ip = out'.ip /\ (FoundNull \/ get_reg'.sp = out'.sp)]_vars

\* A row means the same on both paths: if the cached rule of a row finds a caller,
\* the generic evaluation of the row finds the same one, with the same registers.
\* On aarch64 the generic path may refuse it, as a deeper frame must there restore
\* every register. (Offsets are aligned: the rule divides them. Addresses are in the
\* lower half, far from its end: the generic path computes with i64.)
Aligned(row) ==
  LET At8(rule) == rule.is = "Offset" => rule.offset % 8 = 0
  IN  /\ row.cfa.is = "RegisterAndOffset" =>
           row.cfa.offset % (IF arch = "aarch64" /\ row.cfa.reg = "sp" THEN 16 ELSE 8) = 0
      /\ At8(row.fp) /\ At8(row.ra)
Same(ex, generic) ==
  IF arch = "x86_64" THEN generic = ex
  ELSE generic.is = "Some" => generic.regs = ex.regs /\ strip_ptr_auth(regs.mask, generic.ra) = ex.ra
RuleAgrees(row, first, rd) ==
  LET x86  == arch = "x86_64"
      rule == IF x86 THEN translate_x86(row) ELSE translate_arm(row)
  IN  rule # NoRule /\ Aligned(row) /\ {regs.sp, regs.fp} \subseteq 0 .. Half - 16 * U16 - 1
      /\ ~(x86 /\ row.signal) =>
        \A ex \in {exec(rule, first, rd)} : ex.is = "Some" =>
          Same(ex, IF x86 THEN generic_x86(row, first, regs, rd) ELSE generic_arm(row, first, regs, rd))
RulesAgreeWithRows ==
  live => \A rd \in {read_stack} : \A a \in DOMAIN Info[arch] :
            LET info == Found(a, cur_addr.first)
            IN  info.is = "row" => RuleAgrees(info.row, cur_addr.first, rd)

=============================================================================
