--------------------------------- MODULE X86 --------------------------------
(* One frame of an x86_64 stack: the cacheable unwind rules and what executing
   one does (vendor/framehop/src/x86_64/unwind_rule.rs), the translation of a row
   into a rule and the generic path for the rows that have none
   (x86_64/dwarf.rs). Pure operators: the registers of a frame go in, those of its
   caller come out. fp is rbp. *)
EXTENDS Frames

X86Registers == [ip : Address, sp : Address, fp : Address]

EndOfStack == [is |-> "EndOfStack"]
JustReturn == [is |-> "JustReturn"]
JustReturnIfFirstFrameOtherwiseFp == [is |-> "JustReturnIfFirstFrameOtherwiseFp"]
OffsetSp(n) == [is |-> "OffsetSp", sp8 |-> n]
OffsetSpAndRestoreBp(n, m) == [is |-> "OffsetSpAndRestoreBp", sp8 |-> n, bp8 |-> m]
OffsetSpAndPopRegisters(n, pops) ==
  [is |-> "OffsetSpAndPopRegisters", sp8 |-> n, pops |-> pops]

\* The registers that a rule can pop
ENCODE_REGISTERS == <<"rbx", "rbp", "rdi", "rsi", "r12", "r13", "r14", "r15">>
Saved == {ENCODE_REGISTERS[i] : i \in 1 .. 8}

X86Rules ==
  [is : {"EndOfStack", "JustReturn", "JustReturnIfFirstFrameOtherwiseFp", "UseFramePointer"}]
  \cup [is : {"OffsetSp"}, sp8 : U16s]
  \cup [is : {"OffsetSpAndRestoreBp"}, sp8 : U16s, bp8 : I16s]
  \cup [is : {"OffsetSpAndPopRegisters"}, sp8 : U16s, pops : Seq(Saved)]

UsesFp(rule, first) ==
  \/ rule.is = "UseFramePointer"
  \/ rule.is = "JustReturnIfFirstFrameOtherwiseFp" /\ ~first

\* A frame that does not lie above the callee's sp is refused.
FramePointerSp_NoCheck(regs) == checked_add(regs.fp, 16)
FramePointerSp(regs) ==
  LET n == checked_add(regs.fp, 16) IN IF n # Err /\ n <= regs.sp THEN Err ELSE n

\* Registers are popped in order until a read fails or sp overflows. A register
\* occurs once in the list, and only rbp is followed.
PopSlot(rule, regs, i) == regs.sp + 8 * rule.sp8 + 8 * (i - 1)
Popped(rule, regs, rd, n) ==
  \A i \in 1 .. n : /\ PopSlot(rule, regs, i) + 8 < Word
                    /\ Read(rd, PopSlot(rule, regs, i)) # Err
PoppedBp(rule, regs, rd) ==
  LET at == {i \in DOMAIN rule.pops : rule.pops[i] = "rbp" /\ Popped(rule, regs, rd, i)}
  IN  IF at = {} THEN regs.fp ELSE Read(rd, PopSlot(rule, regs, CHOOSE i \in at : TRUE))

\* The caller's sp and bp under a rule, or Err.
RuleSp(rule, first, regs, rd) ==
  CASE UsesFp(rule, first) -> FramePointerSp(regs)
    [] rule.is \in {"OffsetSp", "OffsetSpAndRestoreBp"} -> checked_add(regs.sp, 8 * rule.sp8)
    [] rule.is = "OffsetSpAndPopRegisters" ->
         IF ~Popped(rule, regs, rd, Len(rule.pops)) THEN Err
         ELSE checked_add(regs.sp, 8 * (rule.sp8 + Len(rule.pops) + 1))
    [] OTHER -> checked_add(regs.sp, 8)

\* Below sp, the first frame may have popped bp already.
RestoredBp(rule, first, regs, rd) ==
  LET at == checked_add(regs.sp, 8 * rule.bp8)
  IN  IF at = Err THEN Err
      ELSE IF Read(rd, at) = Err /\ first /\ at < regs.sp THEN regs.fp ELSE Read(rd, at)

RuleBp(rule, first, regs, rd) ==
  CASE UsesFp(rule, first) -> Read(rd, regs.fp)
    [] rule.is = "OffsetSpAndRestoreBp" -> RestoredBp(rule, first, regs, rd)
    [] rule.is = "OffsetSpAndPopRegisters" -> PoppedBp(rule, regs, rd)
    [] OTHER -> regs.fp

LeftBy_MovesSp(rule, regs, rd) ==
  IF rule.is = "OffsetSpAndPopRegisters" /\ Popped(rule, regs, rd, 1)
  THEN [regs EXCEPT !.sp = PopSlot(rule, regs, 2)] ELSE regs
\* The registers a rule that finds no caller leaves behind: the pops it did.
LeftBy(rule, regs, rd) ==
  IF rule.is # "OffsetSpAndPopRegisters" THEN regs
  ELSE [regs EXCEPT !.fp = PoppedBp(rule, regs, rd)]

DidNotAdvance_Never(new_sp, ra, regs) == FALSE
DidNotAdvance(new_sp, ra, regs) == new_sp = regs.sp /\ ra = regs.ip

\* The return address is the word below the caller's sp. The subtraction wraps in
\* a release build.
exec_x86(rule, first, regs, rd) ==
  LET new_sp == RuleSp(rule, first, regs, rd)
      new_bp == RuleBp(rule, first, regs, rd)
      ra     == Read(rd, (new_sp - 8) % Word)
  IN  IF rule.is = "EndOfStack" \/ (rule.is = "UseFramePointer" /\ regs.fp = 0) THEN StackEnds(regs)
      ELSE IF new_sp = Err \/ new_bp = Err \/ ra = Err THEN Failed(LeftBy(rule, regs, rd))
      ELSE IF ra = 0 THEN StackEnds(LeftBy(rule, regs, rd))
      ELSE IF DidNotAdvance(new_sp, ra, regs) THEN Failed(LeftBy(rule, regs, rd))
      ELSE Caller(ra, FALSE, [ip |-> ra, sp |-> new_sp, fp |-> new_bp])

-----------------------------------------------------------------------------
(* Rows *)

TranslateSp(row) ==
  LET sp8 == DivTrunc(row.cfa.offset, 8)
      bp8 == DivTrunc(row.cfa.offset + row.fp.offset, 8)
  IN  IF sp8 \notin U16s \/ Storage(row.fp) = "no" THEN NoRule
      ELSE IF Storage(row.fp) = "kept" THEN OffsetSp(sp8)
      ELSE IF bp8 \in I16s THEN OffsetSpAndRestoreBp(sp8, bp8) ELSE NoRule

translate_x86(row) ==
  CASE row.ra.is \in {"Missing", "Undefined"} -> EndOfStack
    [] row.ra = Offset(-8) /\ row.cfa.is = "RegisterAndOffset" /\ row.cfa.reg = "sp" -> TranslateSp(row)
    [] row.ra = Offset(-8) /\ row.cfa = CfaAt("fp", 16) /\ row.fp = Offset(-16) -> UseFramePointer
    [] OTHER -> NoRule

\* The generic path. An unrecoverable bp keeps its value.
generic_x86(row, first, regs, rd) ==
  LET cfa    == eval_cfa_rule(row.cfa, regs, rd)
      bp     == eval_register_rule(row.fp, cfa, regs.fp, regs, rd)
      ra_val == eval_register_rule(row.ra, cfa, regs.ip, regs, rd)
      ra     == IF ra_val # Err THEN ra_val ELSE Read(rd, (cfa - 8) % Word)
  IN  IF \/ cfa = Err \/ ra = Err
         \/ cfa = regs.sp /\ ra = regs.ip
         \/ ~first /\ ~row.signal /\ cfa < regs.sp
      THEN Failed(regs)
      ELSE Caller(ra, row.signal, [ip |-> ra, sp |-> cfa, fp |-> IF bp = Err THEN regs.fp ELSE bp])

\* A signal frame always takes the generic path, which reports it as interrupted.
unwind_row_x86(row, first, regs, rd) ==
  LET rule == translate_x86(row)
  IN  IF ~row.signal /\ rule # NoRule THEN ExecRule(rule) ELSE generic_x86(row, first, regs, rd)

=============================================================================
