-------------------------------- MODULE Arm64 -------------------------------
(* One frame of an aarch64 stack: the cacheable rules and their execution
   (vendor/framehop/src/aarch64/unwind_rule.rs), the translation of a row and the
   generic path (aarch64/dwarf.rs), pointer authentication (unwindregs.rs,
   src/cursor.rs) and the signal frames of Linux (src/sigreturn.rs).

   The return address of a frame is in a register, lr, until the function saves
   it; its high bits may hold a hash. A mask of low bits is its greatest value. *)
EXTENDS Frames

CONSTANTS Bits,                             \* of an address: 64
          SIGCONTEXT,                       \* offsets in the kernel's rt_sigframe
          SIG_FP, SIG_LR, SIG_SP, SIG_PC

ASSUME ArmOK == /\ Bits \in Nat /\ Word = 2 ^ Bits
                /\ {SIGCONTEXT, SIG_FP, SIG_LR, SIG_SP, SIG_PC} \subseteq Nat

ArmRegisters == [lr : Address, sp : Address, fp : Address, mask : Address]

strip_ptr_auth(mask, p) == p % (mask + 1)

\* u64::MAX >> max_code.leading_zeros()
Masks == {2 ^ k - 1 : k \in 1 .. Bits}
ptr_auth_mask(max_code) ==
  IF max_code = 0 THEN Word - 1
  ELSE CHOOSE m \in Masks : m >= max_code /\ \A n \in Masks : n >= max_code => m <= n

set_lr(regs, lr) == [regs EXCEPT !.lr = strip_ptr_auth(regs.mask, lr)]

-----------------------------------------------------------------------------
(* Rules. OffsetSp is AOffsetSp here: it counts in 16 bytes, not 8. *)

NoOp == [is |-> "NoOp"]
NoOpIfFirstFrameOtherwiseFp == [is |-> "NoOpIfFirstFrameOtherwiseFp"]
AOffsetSp(n) == [is |-> "OffsetSp", sp16 |-> n]
OffsetSpIfFirstFrameOtherwiseStackEndsHere(n) ==
  [is |-> "OffsetSpIfFirstFrameOtherwiseStackEndsHere", sp16 |-> n]
OffsetSpAndRestoreLr(n, l) == [is |-> "OffsetSpAndRestoreLr", sp16 |-> n, lr8 |-> l]
OffsetSpAndRestoreFpAndLr(n, f, l) ==
  [is |-> "OffsetSpAndRestoreFpAndLr", sp16 |-> n, fp8 |-> f, lr8 |-> l]
UseFramepointerWithOffsets(n, f, l) ==
  [is |-> "UseFramepointerWithOffsets", sp8 |-> n, fp8 |-> f, lr8 |-> l]

ArmRules ==
  [is : {"NoOp", "NoOpIfFirstFrameOtherwiseFp", "UseFramePointer"}]
  \cup [is : {"OffsetSp", "OffsetSpIfFirstFrameOtherwiseStackEndsHere"}, sp16 : U16s]
  \cup [is : {"OffsetSpAndRestoreLr"}, sp16 : U16s, lr8 : I16s]
  \cup [is : {"OffsetSpAndRestoreFpAndLr"}, sp16 : U16s, fp8 : I16s, lr8 : I16s]
  \cup [is : {"UseFramepointerWithOffsets"}, sp8 : U16s, fp8 : I16s, lr8 : I16s]

\* The rules that leave the return address in lr; only a first frame may.
InLr(rule, first) ==
  \/ rule.is \in {"NoOp", "OffsetSp", "OffsetSpIfFirstFrameOtherwiseStackEndsHere"}
  \/ rule.is = "NoOpIfFirstFrameOtherwiseFp" /\ first

ReadAt(rd, base, by8) ==
  LET a == checked_add(base, 8 * by8) IN IF a = Err THEN Err ELSE Read(rd, a)

\* The registers a rule computes, Err for one it cannot.
ArmSp(rule, first, regs) ==
  CASE rule.is = "NoOp" \/ (rule.is = "NoOpIfFirstFrameOtherwiseFp" /\ first) -> regs.sp
    [] rule.is = "UseFramepointerWithOffsets" -> checked_add(regs.fp, 8 * rule.sp8)
    [] rule.is = "UseFramePointer" \/ (rule.is = "NoOpIfFirstFrameOtherwiseFp" /\ ~first) ->
         checked_add(regs.fp, 16)
    [] OTHER -> checked_add(regs.sp, 16 * rule.sp16)
ArmLr(rule, first, regs, rd) ==
  CASE InLr(rule, first) -> regs.lr
    [] rule.is \in {"OffsetSpAndRestoreLr", "OffsetSpAndRestoreFpAndLr"} -> ReadAt(rd, regs.sp, rule.lr8)
    [] rule.is = "UseFramepointerWithOffsets" -> ReadAt(rd, regs.fp, rule.lr8)
    [] OTHER -> ReadAt(rd, regs.fp, 1)
ArmFp(rule, first, regs, rd) ==
  CASE InLr(rule, first) \/ rule.is = "OffsetSpAndRestoreLr" -> regs.fp
    [] rule.is = "OffsetSpAndRestoreFpAndLr" -> ReadAt(rd, regs.sp, rule.fp8)
    [] rule.is = "UseFramepointerWithOffsets" -> ReadAt(rd, regs.fp, rule.fp8)
    [] OTHER -> Read(rd, regs.fp)

FpRules == {"UseFramePointer", "UseFramepointerWithOffsets"}
MovedBackwards(rule, first, regs, new_sp, new_fp) ==
  \/ rule.is \in FpRules /\ (new_fp <= regs.fp \/ new_sp <= regs.sp)
  \/ rule.is = "NoOpIfFirstFrameOtherwiseFp" /\ ~first /\ new_sp <= regs.sp

exec_arm(rule, first, regs, rd) ==
  LET new_sp == ArmSp(rule, first, regs)
      new_lr == ArmLr(rule, first, regs, rd)
      new_fp == ArmFp(rule, first, regs, rd)
      ra     == strip_ptr_auth(regs.mask, new_lr)
  IN  IF rule.is = "OffsetSpIfFirstFrameOtherwiseStackEndsHere" /\ ~first THEN StackEnds(regs)
      ELSE IF \/ rule.is \in {"NoOp", "OffsetSp"} /\ ~first
              \/ new_sp = Err \/ new_lr = Err \/ new_fp = Err THEN Failed(regs)
      ELSE IF rule.is \in FpRules /\ new_fp = 0 THEN StackEnds(regs)
      ELSE IF MovedBackwards(rule, first, regs, new_sp, new_fp) THEN Failed(regs)
      ELSE IF ra = 0 THEN StackEnds(regs)
      ELSE IF ~first /\ new_sp = regs.sp THEN Failed(regs)
      ELSE Caller(ra, FALSE, set_lr([regs EXCEPT !.sp = new_sp, !.fp = new_fp], new_lr))

-----------------------------------------------------------------------------
(* Rows *)

ArmTranslateSp(row) ==
  LET sp16 == DivTrunc(row.cfa.offset, 16)
      lr8  == DivTrunc(row.cfa.offset + row.ra.offset, 8)
      fp8  == DivTrunc(row.cfa.offset + row.fp.offset, 8)
      lr == Storage(row.ra)
      fp == Storage(row.fp)
  IN  IF sp16 \notin U16s \/ lr = "no" \/ fp = "no" \/ (lr = "kept" /\ fp = "stored") THEN NoRule
      ELSE IF lr = "kept" /\ row.ra.is = "Undefined"
      THEN OffsetSpIfFirstFrameOtherwiseStackEndsHere(sp16)
      ELSE IF lr = "kept" THEN AOffsetSp(sp16)
      ELSE IF lr8 \in I16s /\ fp = "kept" THEN OffsetSpAndRestoreLr(sp16, lr8)
      ELSE IF lr8 \in I16s /\ fp8 \in I16s THEN OffsetSpAndRestoreFpAndLr(sp16, fp8, lr8)
      ELSE NoRule

ArmTranslateFp(row) ==
  LET sp8 == DivTrunc(row.cfa.offset, 8)
      lr8 == DivTrunc(row.cfa.offset + row.ra.offset, 8)
      fp8 == DivTrunc(row.cfa.offset + row.fp.offset, 8)
  IN  IF Storage(row.ra) # "stored" \/ Storage(row.fp) # "stored" THEN NoRule
      ELSE IF row.cfa.offset = 16 /\ row.fp = Offset(-16) /\ row.ra = Offset(-8) THEN UseFramePointer
      ELSE IF sp8 \in U16s /\ lr8 \in I16s /\ fp8 \in I16s
      THEN UseFramepointerWithOffsets(sp8, fp8, lr8)
      ELSE NoRule

translate_arm(row) ==
  CASE row.cfa.is = "RegisterAndOffset" /\ row.cfa.reg = "sp" -> ArmTranslateSp(row)
    [] row.cfa.is = "RegisterAndOffset" /\ row.cfa.reg = "fp" -> ArmTranslateFp(row)
    [] OTHER -> NoRule

\* The generic path, lenient in a first frame. It returns lr as it was read.
generic_arm(row, first, regs, rd) ==
  LET cfa == eval_cfa_rule(row.cfa, regs, rd)
      fp_val == eval_register_rule(row.fp, cfa, regs.fp, regs, rd)
      lr_val == eval_register_rule(row.ra, cfa, regs.lr, regs, rd)
      fp == IF first /\ fp_val = Err THEN regs.fp ELSE fp_val
      lr == IF first /\ lr_val = Err THEN regs.lr ELSE lr_val
  IN  IF cfa = Err \/ (~first /\ cfa <= regs.sp) \/ fp = Err \/ lr = Err THEN Failed(regs)
      ELSE Caller(lr, FALSE, set_lr([regs EXCEPT !.sp = cfa, !.fp = fp], lr))

unwind_row_arm(row, first, regs, rd) ==
  LET rule == translate_arm(row)
  IN  IF rule # NoRule THEN ExecRule(rule) ELSE generic_arm(row, first, regs, rd)

-----------------------------------------------------------------------------
(* Signal frames *)

SigField(regs, rd, offset) == Read(rd, (regs.sp + SIGCONTEXT + offset) % Word)

\* The interrupted sp, fp, lr and pc from the frame at sp. The registers change
\* only when all of them can be read.
restore(regs, rd) ==
  LET fp == SigField(regs, rd, SIG_FP)
      lr == SigField(regs, rd, SIG_LR)
      sp == SigField(regs, rd, SIG_SP)
      pc == SigField(regs, rd, SIG_PC)
  IN  IF checked_add(regs.sp, SIGCONTEXT) = Err \/ Err \in {fp, lr, sp, pc} THEN Failed(regs)
      ELSE Caller(pc, TRUE, set_lr([regs EXCEPT !.fp = fp, !.sp = sp], lr))

=============================================================================
