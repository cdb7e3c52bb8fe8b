---------------------------- MODULE PathProofs ------------------------------
(* The two paths of a row agree: the cacheable rule that a row is translated into,
   and its generic evaluation. *)
EXTENDS WalkProofs

LEMMA DivExact ==
  /\ \A n \in Int : n % 8 = 0 => 8 * DivTrunc(n, 8) = n
  /\ \A n \in Int : n % 16 = 0 => 16 * DivTrunc(n, 16) = n
BY DEF DivTrunc

\* Addresses for which the generic path's signed arithmetic cannot overflow
Low == 0 .. Half - 16 * U16 - 1
Near(d) == d \in Int /\ d >= -(8 * U16) /\ d < 16 * U16

LEMMA SumsAgree ==
  ASSUME NEW v \in Low, NEW d, Near(d)
  PROVE  SignedAdd(v, d) = checked_add(v, d)
<1>1. Half \in Nat /\ Half <= Word /\ Word \in Nat /\ U16 \in Nat /\ U16 > 1 /\ Err \notin Int
  BY SizesOK DEF Half
<1>. QED
  BY <1>1 DEF SignedAdd, checked_add, Low, Near, Address

LEMMA SumsCompose ==
  ASSUME NEW v \in Low, NEW d \in Int, NEW e \in Int, SignedAdd(v, d) # Err
  PROVE  SignedAdd(SignedAdd(v, d), e) = SignedAdd(v, d + e)
<1>1. Half \in Nat /\ U16 \in Nat /\ Err \notin Int
  BY SizesOK DEF Half
<1>. QED
  BY <1>1 DEF SignedAdd, Low

LEMMA X86Agree ==
  ASSUME NEW R \in X86Registers, NEW row \in Rows, NEW rule, NEW first \in BOOLEAN, NEW rd, Memory(rd),
         ~row.signal, row.ra = Offset(-8), rule \in X86Rules,
         exec_x86(rule, first, R, rd).is = "Some",
         NEW cfa, cfa = eval_cfa_rule(row.cfa, R, rd), cfa \in {Err} \cup 0 .. Half - 1,
         RuleSp(rule, first, R, rd) # Err => cfa = RuleSp(rule, first, R, rd),
         NEW bp, bp = eval_register_rule(row.fp, cfa, R.fp, R, rd),
         /\ RuleSp(rule, first, R, rd) # Err /\ RuleBp(rule, first, R, rd) # Err
         => RuleBp(rule, first, R, rd) = IF bp = Err THEN R.fp ELSE bp
  PROVE  generic_x86(row, first, R, rd) = exec_x86(rule, first, R, rd)
<1> DEFINE new_sp == RuleSp(rule, first, R, rd)
           new_bp == RuleBp(rule, first, R, rd)
           ra == Read(rd, (new_sp - 8) % Word)
           val == eval_register_rule(row.ra, cfa, R.ip, R, rd)
<1>1. /\ new_sp # Err /\ new_bp # Err /\ ra # Err /\ ~DidNotAdvance(new_sp, ra, R)
      /\ exec_x86(rule, first, R, rd) = Caller(ra, FALSE, [ip |-> ra, sp |-> new_sp, fp |-> new_bp])
  BY DEF exec_x86, StackEnds, Failed
<1>2. new_sp \in Address /\ new_sp >= R.sp
  BY <1>1, X86Sp
<1>3. new_sp = cfa /\ new_bp = IF bp = Err THEN R.fp ELSE bp
  BY <1>1
<1>4. val \in {Err, ra}
  <2>1. val = Read(rd, SignedAdd(cfa, -8))
    BY DEF eval_register_rule, Offset
  <2>2. cfa < Half /\ cfa \in Address
    BY <1>1, <1>2, <1>3, SizesOK DEF Half
  <2>. QED
    BY <1>3, <2>1, <2>2, X86ReturnSlot
<1>5. row.signal = FALSE
  BY DEF Rows
<1>6. (IF val # Err THEN val ELSE Read(rd, (cfa - 8) % Word)) = ra
  BY <1>3, <1>4
<1>7. ~(cfa < R.sp) /\ ~(cfa = R.sp /\ ra = R.ip)
  <2>1. new_sp \in Nat /\ R.sp \in Nat
    BY <1>2, ErrIsNoAddress DEF X86Registers
  <2>. QED
    BY <1>1, <1>2, <1>3, <2>1 DEF DidNotAdvance
<1> HIDE DEF new_sp, new_bp, ra, val
<1>8. generic_x86(row, first, R, rd)
      = Caller(ra, row.signal, [ip |-> ra, sp |-> cfa, fp |-> IF bp = Err THEN R.fp ELSE bp])
  BY <1>1, <1>3, <1>6, <1>7 DEF generic_x86, val
<1>. QED
  BY <1>1, <1>3, <1>5, <1>8

LEMMA SumRange ==
  ASSUME NEW v, NEW d
  PROVE  SignedAdd(v, d) \in {Err} \cup 0 .. Half - 1
BY DEF SignedAdd

LEMMA X86RowAgrees ==
  ASSUME NEW R \in X86Registers, NEW row \in Rows, NEW first \in BOOLEAN, NEW rd, Memory(rd),
         ~row.signal, R.sp \in Low, R.fp \in Low, translate_x86(row) # NoRule,
         row.cfa.is = "RegisterAndOffset" => row.cfa.offset % 8 = 0,
         row.fp.is = "Offset" => row.fp.offset % 8 = 0,
         exec_x86(translate_x86(row), first, R, rd).is = "Some"
  PROVE  generic_x86(row, first, R, rd) = exec_x86(translate_x86(row), first, R, rd)
<1> DEFINE rule == translate_x86(row)
           cfa == eval_cfa_rule(row.cfa, R, rd)
           bp == eval_register_rule(row.fp, cfa, R.fp, R, rd)
           off == row.cfa.offset
           new_sp == RuleSp(rule, first, R, rd)
           new_bp == RuleBp(rule, first, R, rd)
<1>0. rule \in X86Rules
  BY X86TranslateType
<1>1. rule # EndOfStack
  <2>1. exec_x86(EndOfStack, first, R, rd) = StackEnds(R)
    BY DEF exec_x86, EndOfStack
  <2>. QED
    BY <2>1 DEF StackEnds
<1>2. /\ row.ra = Offset(-8)
      /\ \/ row.cfa.is = "RegisterAndOffset" /\ row.cfa.reg = "sp" /\ rule = TranslateSp(row)
         \/ row.cfa = CfaAt("fp", 16) /\ row.fp = Offset(-16) /\ rule = UseFramePointer
  BY <1>1 DEF translate_x86
<1>3. U16 \in Nat /\ U16 > 1 /\ Half \in Nat
  BY SizesOK DEF Half
<1> HIDE DEF rule
<1>4. CASE row.cfa = CfaAt("fp", 16) /\ row.fp = Offset(-16) /\ rule = UseFramePointer
  <2>1. cfa = SignedAdd(R.fp, 16)
    BY <1>4 DEF eval_cfa_rule, CfaAt, RegValue, X86Registers
  <2>2. bp = Read(rd, SignedAdd(cfa, -16))
    BY <1>4 DEF eval_register_rule, Offset
  <2>3. R.fp \in Nat /\ SignedAdd(R.fp, 16) = R.fp + 16 /\ checked_add(R.fp, 16) = R.fp + 16
    <3>1. Near(16) /\ R.fp \in Nat /\ R.fp + 16 \in 0 .. Half - 1
      BY <1>3 DEF Near, Low
    <3>2. R.fp < Half /\ R.fp # Err
      BY <1>3, <3>1, SizesOK DEF Low
    <3>3. SignedAdd(R.fp, 16) = R.fp + 16
      BY <3>1, <3>2 DEF SignedAdd
    <3>. QED
      BY <3>1, <3>3, SumsAgree
  <2>4. SignedAdd(R.fp + 16, -16) = R.fp
    <3>1. SignedAdd(R.fp, 16 + (-16)) = R.fp
      BY <1>3, <2>3, SizesOK DEF SignedAdd, Low
    <3>. QED
      BY <2>3, <3>1, SumsCompose, SizesOK
  <2>5. new_sp \in {Err, R.fp + 16} /\ new_bp = Read(rd, R.fp)
    BY <1>4, <2>3 DEF RuleSp, RuleBp, UsesFp, UseFramePointer, FramePointerSp
  <2>6. cfa = R.fp + 16 /\ bp = Read(rd, R.fp)
    BY <2>1, <2>2, <2>3, <2>4
  <2> HIDE DEF cfa, bp, new_sp, new_bp
  <2>7. cfa \in {Err} \cup 0 .. Half - 1
    BY <2>1, SumRange
  <2>. QED
    BY <1>0, <1>2, <2>5, <2>6, <2>7, X86Agree DEF rule, cfa, bp, new_sp, new_bp
<1>5. CASE row.cfa.is = "RegisterAndOffset" /\ row.cfa.reg = "sp" /\ rule = TranslateSp(row)
  <2>1. off \in Int /\ off % 8 = 0
    BY <1>5 DEF Rows, CfaRules
  <2>2. DivTrunc(off, 8) \in U16s /\ Storage(row.fp) # "no"
    BY <1>5 DEF TranslateSp, rule
  <2>3. off = 8 * DivTrunc(off, 8) /\ DivTrunc(off, 8) \in Nat /\ DivTrunc(off, 8) < U16
    BY <2>1, <2>2, DivExact, <1>3 DEF U16s
  <2>4. Near(off)
    BY <1>3, <2>1, <2>3 DEF Near
  <2>5. cfa = SignedAdd(R.sp, off) /\ cfa = checked_add(R.sp, off)
    BY <1>5, <2>4, SumsAgree DEF eval_cfa_rule, RegValue, X86Registers
  <2>6. cfa \in {Err} \cup 0 .. Half - 1
    BY <2>5, SumRange
  <2>7. CASE Storage(row.fp) = "kept"
    <3>1. rule = OffsetSp(DivTrunc(off, 8))
      BY <1>5, <2>2, <2>7 DEF TranslateSp
    <3>2. new_sp = cfa /\ new_bp = R.fp
      BY <2>3, <2>5, <3>1 DEF RuleSp, RuleBp, UsesFp, OffsetSp
    <3>3. bp \in {Err, R.fp}
      BY <2>7 DEF Storage, eval_register_rule
    <3> HIDE DEF cfa, bp, new_sp, new_bp
    <3>. QED
      BY <1>0, <1>2, <2>6, <3>2, <3>3, X86Agree DEF rule, cfa, bp, new_sp, new_bp
  <2>8. CASE Storage(row.fp) = "stored"
    <3> DEFINE b8 == DivTrunc(off + row.fp.offset, 8)
    <3>1. row.fp.is = "Offset" /\ row.fp.offset \in Int /\ row.fp.offset % 8 = 0
      BY <2>8 DEF Storage, Rows, RegisterRules
    <3>2. b8 \in I16s /\ rule = OffsetSpAndRestoreBp(DivTrunc(off, 8), b8)
      BY <1>5, <2>2, <2>8 DEF TranslateSp, rule
    <3>3. off + row.fp.offset \in Int /\ (off + row.fp.offset) % 8 = 0
      BY <2>1, <3>1
    <3>4. off + row.fp.offset = 8 * b8
      BY <3>3, DivExact
    <3> HIDE DEF b8
    <3>5. Near(8 * b8)
      BY <1>3, <3>2, SizesOK DEF I16s, Near
    <3>6. cfa # Err => bp = Read(rd, checked_add(R.sp, 8 * b8))
      <4>1. bp = Read(rd, SignedAdd(cfa, row.fp.offset))
        BY <3>1 DEF eval_register_rule
      <4>2. cfa # Err => SignedAdd(cfa, row.fp.offset) = SignedAdd(R.sp, 8 * b8)
        <5>1. cfa # Err => SignedAdd(SignedAdd(R.sp, off), row.fp.offset)
                           = SignedAdd(R.sp, off + row.fp.offset)
          BY <2>1, <2>5, <3>1, SumsCompose
        <5>. QED
          BY <2>5, <3>4, <5>1
      <4>. QED
        BY <3>5, <4>1, <4>2, SumsAgree
    <3>7. new_sp = cfa /\ new_bp = RestoredBp(rule, first, R, rd)
      BY <2>3, <2>5, <3>2 DEF RuleSp, RuleBp, UsesFp, OffsetSpAndRestoreBp
    <3>8. RestoredBp(rule, first, R, rd) = Err \/ cfa = Err
          \/ RestoredBp(rule, first, R, rd) = IF bp = Err THEN R.fp ELSE bp
      BY <3>2, <3>6 DEF RestoredBp, OffsetSpAndRestoreBp
    <3> HIDE DEF cfa, bp, new_sp, new_bp
    <3>. QED
      BY <1>0, <1>2, <2>6, <3>7, <3>8, X86Agree DEF rule, cfa, bp, new_sp, new_bp
  <2>. QED
    BY <2>2, <2>7, <2>8 DEF Storage
<1>. QED
  BY <1>2, <1>4, <1>5 DEF rule

\* The step of a cached aarch64 rule and the one of the row it stands for
ArmSame(row, rule, first, R, rd) ==
  LET g == generic_arm(row, first, R, rd)
      x == exec_arm(rule, first, R, rd)
  IN  g.is = "Some" => g.regs = x.regs /\ strip_ptr_auth(R.mask, g.ra) = x.ra

LEMMA ArmAgree ==
  ASSUME NEW R \in ArmRegisters, NEW row \in Rows, NEW rule, NEW first \in BOOLEAN, NEW rd,
         exec_arm(rule, first, R, rd).is = "Some",
         NEW cfa, cfa = eval_cfa_rule(row.cfa, R, rd),
         cfa # Err => cfa = ArmSp(rule, first, R),
         NEW fp, fp = eval_register_rule(row.fp, cfa, R.fp, R, rd),
         NEW lr, lr = eval_register_rule(row.ra, cfa, R.lr, R, rd),
         cfa # Err => \/ ArmFp(rule, first, R, rd) \in {Err, fp}
                      \/ fp = Err /\ ArmFp(rule, first, R, rd) = R.fp,
         cfa # Err => \/ ArmLr(rule, first, R, rd) \in {Err, lr}
                      \/ lr = Err /\ ArmLr(rule, first, R, rd) = R.lr
  PROVE  ArmSame(row, rule, first, R, rd)
<1> DEFINE g == generic_arm(row, first, R, rd)
           x == exec_arm(rule, first, R, rd)
           new_sp == ArmSp(rule, first, R)
           new_lr == ArmLr(rule, first, R, rd)
           new_fp == ArmFp(rule, first, R, rd)
           f == IF first /\ fp = Err THEN R.fp ELSE fp
           l == IF first /\ lr = Err THEN R.lr ELSE lr
<1>1. /\ new_sp # Err /\ new_lr # Err /\ new_fp # Err
      /\ x = Caller(strip_ptr_auth(R.mask, new_lr), FALSE, Moved(R, new_sp, new_fp, new_lr))
  BY DEF exec_arm, Moved, StackEnds, Failed
<1>2. \/ g = Failed(R)
      \/ cfa # Err /\ f # Err /\ l # Err /\ g = Caller(l, FALSE, Moved(R, cfa, f, l))
  BY DEF generic_arm, Moved
<1> HIDE DEF g, x, new_sp, new_lr, new_fp
<1>3. CASE g = Failed(R)
  BY <1>3 DEF Failed, ArmSame, g, x
<1>4. CASE cfa # Err /\ f # Err /\ l # Err /\ g = Caller(l, FALSE, Moved(R, cfa, f, l))
  <2>1. cfa = new_sp /\ f = new_fp /\ l = new_lr
    BY <1>1, <1>4 DEF new_sp, new_fp, new_lr
  <2> HIDE DEF f, l
  <2>2. g.regs = x.regs /\ strip_ptr_auth(R.mask, g.ra) = x.ra
    BY <1>1, <1>4, <2>1 DEF Caller
  <2>. QED
    BY <2>2 DEF ArmSame, g, x
<1>. QED
  BY <1>2, <1>3, <1>4

\* A register stored at an offset from the CFA: the rule adds once, the row twice.
LEMMA ArmSlot ==
  ASSUME NEW rd, NEW base \in Low, NEW off \in Int, NEW m \in Int, NEW by8 \in Int,
         8 * by8 = off + m, Near(8 * by8), SignedAdd(base, off) # Err
  PROVE  ReadAt(rd, base, by8) \in {Err, Read(rd, SignedAdd(SignedAdd(base, off), m))}
<1>1. SignedAdd(SignedAdd(base, off), m) = SignedAdd(base, off + m)
  BY SumsCompose
<1>2. SignedAdd(base, 8 * by8) = checked_add(base, 8 * by8)
  BY SumsAgree
<1>. QED
  BY <1>1, <1>2 DEF ReadAt

\* The offset that the translation of a row divides, and the one it gets back
LEMMA Scaled ==
  ASSUME NEW off \in Int, NEW m \in Int, off % 8 = 0, m % 8 = 0, DivTrunc(off + m, 8) \in I16s
  PROVE  /\ DivTrunc(off + m, 8) \in Int /\ 8 * DivTrunc(off + m, 8) = off + m
         /\ Near(8 * DivTrunc(off + m, 8))
<1>1. off + m \in Int /\ (off + m) % 8 = 0
  OBVIOUS
<1>2. 8 * DivTrunc(off + m, 8) = off + m
  BY <1>1, DivExact
<1>3. U16 \in Nat /\ U16 > 0 /\ U16 \div 2 \in Nat /\ U16 \div 2 <= U16
  BY SizesOK
<1> DEFINE k == DivTrunc(off + m, 8)
<1>4. k \in -(U16 \div 2) .. (U16 \div 2) - 1
  BY DEF I16s
<1> HIDE DEF k
<1>5. k \in Int /\ Near(8 * k)
  BY <1>3, <1>4 DEF Near
<1>. QED
  BY <1>2, <1>5 DEF k

LEMMA ArmRowAgreesSp ==
  ASSUME NEW R \in ArmRegisters, NEW row \in Rows, NEW first \in BOOLEAN, NEW rd,
         R.sp \in Low, ArmTranslateSp(row) # NoRule,
         row.cfa.is = "RegisterAndOffset", row.cfa.reg = "sp", row.cfa.offset % 16 = 0,
         row.fp.is = "Offset" => row.fp.offset % 8 = 0,
         row.ra.is = "Offset" => row.ra.offset % 8 = 0,
         exec_arm(ArmTranslateSp(row), first, R, rd).is = "Some"
  PROVE  ArmSame(row, ArmTranslateSp(row), first, R, rd)
<1> DEFINE rule == ArmTranslateSp(row)
           off == row.cfa.offset
           cfa == eval_cfa_rule(row.cfa, R, rd)
           fp == eval_register_rule(row.fp, cfa, R.fp, R, rd)
           lr == eval_register_rule(row.ra, cfa, R.lr, R, rd)
           n == DivTrunc(off, 16)
           l8 == DivTrunc(off + row.ra.offset, 8)
           f8 == DivTrunc(off + row.fp.offset, 8)
<1>1. off \in Int /\ off % 16 = 0 /\ off % 8 = 0
  BY DEF Rows, CfaRules
<1>2. /\ n \in U16s
      /\ \/ /\ Storage(row.ra) = "kept" /\ Storage(row.fp) = "kept"
            /\ rule \in {OffsetSpIfFirstFrameOtherwiseStackEndsHere(n), AOffsetSp(n)}
         \/ /\ Storage(row.ra) = "stored" /\ Storage(row.fp) = "kept"
            /\ l8 \in I16s /\ rule = OffsetSpAndRestoreLr(n, l8)
         \/ /\ Storage(row.ra) = "stored" /\ Storage(row.fp) = "stored"
            /\ l8 \in I16s /\ f8 \in I16s /\ rule = OffsetSpAndRestoreFpAndLr(n, f8, l8)
  BY DEF ArmTranslateSp, Storage
<1> HIDE DEF rule
<1>3. off = 16 * n /\ n \in Nat /\ n < U16 /\ Near(off)
  BY <1>1, <1>2, DivExact, SizesOK DEF U16s, Near
<1>4. cfa = SignedAdd(R.sp, off) /\ cfa = checked_add(R.sp, 16 * n)
  BY <1>3, SumsAgree DEF eval_cfa_rule, RegValue, ArmRegisters
<1>5. Storage(row.fp) = "kept" => fp \in {Err, R.fp}
  BY DEF Storage, eval_register_rule
<1>6. Storage(row.ra) = "kept" => lr \in {Err, R.lr}
  BY DEF Storage, eval_register_rule
<1>7. ASSUME Storage(row.fp) = "stored", f8 \in I16s, cfa # Err
      PROVE  ReadAt(rd, R.sp, f8) \in {Err, fp}
  <2>1. row.fp.is = "Offset" /\ row.fp.offset \in Int /\ row.fp.offset % 8 = 0
    BY <1>7 DEF Storage, Rows, RegisterRules
  <2>2. fp = Read(rd, SignedAdd(cfa, row.fp.offset))
    BY <2>1 DEF eval_register_rule
  <2>3. f8 \in Int /\ 8 * f8 = off + row.fp.offset /\ Near(8 * f8)
    BY <1>1, <1>7, <2>1, Scaled
  <2>4. SignedAdd(R.sp, off) # Err /\ off \in Int
    BY <1>1, <1>4, <1>7
  <2>5. ReadAt(rd, R.sp, f8) \in {Err, Read(rd, SignedAdd(SignedAdd(R.sp, off), row.fp.offset))}
    <3> HIDE DEF f8, off
    <3>. QED
      BY <2>1, <2>3, <2>4, ArmSlot
  <2>. QED
    BY <1>4, <2>2, <2>5
<1>8. ASSUME Storage(row.ra) = "stored", l8 \in I16s, cfa # Err
      PROVE  ReadAt(rd, R.sp, l8) \in {Err, lr}
  <2>1. row.ra.is = "Offset" /\ row.ra.offset \in Int /\ row.ra.offset % 8 = 0
    BY <1>8 DEF Storage, Rows, RegisterRules
  <2>2. lr = Read(rd, SignedAdd(cfa, row.ra.offset))
    BY <2>1 DEF eval_register_rule
  <2>3. l8 \in Int /\ 8 * l8 = off + row.ra.offset /\ Near(8 * l8)
    BY <1>1, <1>8, <2>1, Scaled
  <2>4. SignedAdd(R.sp, off) # Err /\ off \in Int
    BY <1>1, <1>4, <1>8
  <2>5. ReadAt(rd, R.sp, l8) \in {Err, Read(rd, SignedAdd(SignedAdd(R.sp, off), row.ra.offset))}
    <3> HIDE DEF l8, off
    <3>. QED
      BY <2>1, <2>3, <2>4, ArmSlot
  <2>. QED
    BY <1>4, <2>2, <2>5
<1> HIDE DEF cfa, fp, lr, n, l8, f8
<1>9. ArmSp(rule, first, R) = cfa
  BY <1>2, <1>4 DEF ArmSp, OffsetSpIfFirstFrameOtherwiseStackEndsHere, AOffsetSp,
       OffsetSpAndRestoreLr, OffsetSpAndRestoreFpAndLr
<1>10. cfa # Err => \/ ArmFp(rule, first, R, rd) \in {Err, fp}
                    \/ fp = Err /\ ArmFp(rule, first, R, rd) = R.fp
  BY <1>2, <1>5, <1>7 DEF ArmFp, InLr, OffsetSpIfFirstFrameOtherwiseStackEndsHere, AOffsetSp,
       OffsetSpAndRestoreLr, OffsetSpAndRestoreFpAndLr
<1>11. cfa # Err => \/ ArmLr(rule, first, R, rd) \in {Err, lr}
                    \/ lr = Err /\ ArmLr(rule, first, R, rd) = R.lr
  BY <1>2, <1>6, <1>8 DEF ArmLr, InLr, OffsetSpIfFirstFrameOtherwiseStackEndsHere, AOffsetSp,
       OffsetSpAndRestoreLr, OffsetSpAndRestoreFpAndLr
<1>. QED
  BY <1>9, <1>10, <1>11, ArmAgree DEF rule, cfa, fp, lr

\* The rows whose CFA is an offset from fp
FpRow(row, off, fo, ro) == row.cfa = CfaAt("fp", off) /\ row.fp = Offset(fo) /\ row.ra = Offset(ro)

LEMMA FpRowCfa ==
  ASSUME NEW R \in ArmRegisters, NEW row, NEW rd, NEW off, NEW fo, NEW ro, FpRow(row, off, fo, ro)
  PROVE  eval_cfa_rule(row.cfa, R, rd) = SignedAdd(R.fp, off)
BY DEF FpRow, CfaAt, eval_cfa_rule, RegValue, ArmRegisters

LEMMA SavedAt ==
  ASSUME NEW n, NEW cfa, NEW val, NEW R, NEW rd
  PROVE  eval_register_rule(Offset(n), cfa, val, R, rd) = Read(rd, SignedAdd(cfa, n))
BY DEF Offset, eval_register_rule

LEMMA ArmFpPlain ==
  ASSUME NEW R \in ArmRegisters, NEW row \in Rows, NEW first \in BOOLEAN, NEW rd, R.fp \in Low,
         FpRow(row, 16, -16, -8), exec_arm(UseFramePointer, first, R, rd).is = "Some"
  PROVE  ArmSame(row, UseFramePointer, first, R, rd)
<1> DEFINE cfa == eval_cfa_rule(row.cfa, R, rd)
           fp == eval_register_rule(row.fp, cfa, R.fp, R, rd)
           lr == eval_register_rule(row.ra, cfa, R.lr, R, rd)
           rule == UseFramePointer
<1>1. /\ cfa = eval_cfa_rule(row.cfa, R, rd)
      /\ fp = eval_register_rule(row.fp, cfa, R.fp, R, rd)
      /\ lr = eval_register_rule(row.ra, cfa, R.lr, R, rd)
  OBVIOUS
<1> HIDE DEF cfa, fp, lr
<1>2. cfa = SignedAdd(R.fp, 16) /\ fp = Read(rd, SignedAdd(cfa, -16)) /\ lr = Read(rd, SignedAdd(cfa, -8))
  <2>1. cfa = SignedAdd(R.fp, 16)
    BY <1>1, FpRowCfa
  <2>2. row.fp = Offset(-16) /\ row.ra = Offset(-8)
    BY DEF FpRow
  <2>. QED
    BY <1>1, <2>1, <2>2, SavedAt
<1>3. R.fp \in Nat /\ U16 \in Nat /\ U16 > 1 /\ Half \in Nat /\ Err \notin Int
  BY SizesOK DEF Low, Half
<1>4. Near(16) /\ Near(8)
  BY <1>3 DEF Near
<1>5. cfa = checked_add(R.fp, 16)
  BY <1>2, <1>4, SumsAgree
<1>6. cfa # Err => ReadAt(rd, R.fp, 1) \in {Err, Read(rd, SignedAdd(cfa, -8))}
  <2>1. 8 * 1 = 16 + (-8) /\ Near(8 * 1)
    BY <1>4
  <2>. QED
    BY <1>2, <2>1, ArmSlot
<1>7. cfa # Err => SignedAdd(cfa, -16) = R.fp
  <2>1. cfa # Err => SignedAdd(cfa, -16) = SignedAdd(R.fp, 16 + (-16))
    BY <1>2, SumsCompose
  <2>2. SignedAdd(R.fp, 16 + (-16)) = R.fp
    BY <1>3 DEF SignedAdd, Low
  <2>. QED
    BY <2>1, <2>2
<1>8. /\ ArmSp(rule, first, R) = cfa
      /\ ArmFp(rule, first, R, rd) = Read(rd, R.fp)
      /\ ArmLr(rule, first, R, rd) = ReadAt(rd, R.fp, 1)
  BY <1>5 DEF ArmSp, ArmFp, ArmLr, InLr, UseFramePointer
<1>9. exec_arm(rule, first, R, rd).is = "Some"
  OBVIOUS
<1> HIDE DEF rule
<1>10. cfa # Err => ArmFp(rule, first, R, rd) \in {Err, fp} /\ ArmLr(rule, first, R, rd) \in {Err, lr}
  BY <1>2, <1>6, <1>7, <1>8
<1>11. ArmSame(row, rule, first, R, rd)
  BY <1>1, <1>8, <1>9, <1>10, ArmAgree
<1>. QED
  BY <1>11 DEF rule

LEMMA ArmFpOffsets ==
  ASSUME NEW R \in ArmRegisters, NEW row \in Rows, NEW first \in BOOLEAN, NEW rd, R.fp \in Low,
         NEW off \in Int, NEW fo \in Int, NEW ro \in Int, FpRow(row, off, fo, ro),
         NEW n \in U16s, off = 8 * n,
         NEW f8 \in Int, 8 * f8 = off + fo, Near(8 * f8),
         NEW l8 \in Int, 8 * l8 = off + ro, Near(8 * l8),
         exec_arm(UseFramepointerWithOffsets(n, f8, l8), first, R, rd).is = "Some"
  PROVE  ArmSame(row, UseFramepointerWithOffsets(n, f8, l8), first, R, rd)
<1> DEFINE cfa == eval_cfa_rule(row.cfa, R, rd)
           fp == eval_register_rule(row.fp, cfa, R.fp, R, rd)
           lr == eval_register_rule(row.ra, cfa, R.lr, R, rd)
           rule == UseFramepointerWithOffsets(n, f8, l8)
<1>1. /\ cfa = eval_cfa_rule(row.cfa, R, rd)
      /\ fp = eval_register_rule(row.fp, cfa, R.fp, R, rd)
      /\ lr = eval_register_rule(row.ra, cfa, R.lr, R, rd)
  OBVIOUS
<1> HIDE DEF cfa, fp, lr
<1>2. cfa = SignedAdd(R.fp, off) /\ fp = Read(rd, SignedAdd(cfa, fo)) /\ lr = Read(rd, SignedAdd(cfa, ro))
  <2>1. cfa = SignedAdd(R.fp, off)
    BY <1>1, FpRowCfa
  <2>2. row.fp = Offset(fo) /\ row.ra = Offset(ro)
    BY DEF FpRow
  <2>. QED
    BY <1>1, <2>1, <2>2, SavedAt
<1>3. Near(off)
  BY SizesOK DEF U16s, Near
<1>4. cfa = checked_add(R.fp, 8 * n)
  BY <1>2, <1>3, SumsAgree
<1>5. cfa # Err => ReadAt(rd, R.fp, l8) \in {Err, Read(rd, SignedAdd(cfa, ro))}
  BY <1>2, ArmSlot
<1>6. cfa # Err => ReadAt(rd, R.fp, f8) \in {Err, Read(rd, SignedAdd(cfa, fo))}
  BY <1>2, ArmSlot
<1>7. /\ ArmSp(rule, first, R) = cfa
      /\ ArmFp(rule, first, R, rd) = ReadAt(rd, R.fp, f8)
      /\ ArmLr(rule, first, R, rd) = ReadAt(rd, R.fp, l8)
  BY <1>4 DEF ArmSp, ArmFp, ArmLr, InLr, UseFramepointerWithOffsets
<1>8. exec_arm(rule, first, R, rd).is = "Some"
  OBVIOUS
<1> HIDE DEF rule
<1>9. cfa # Err => ArmFp(rule, first, R, rd) \in {Err, fp} /\ ArmLr(rule, first, R, rd) \in {Err, lr}
  BY <1>2, <1>5, <1>6, <1>7
<1>10. ArmSame(row, rule, first, R, rd)
  BY <1>1, <1>7, <1>8, <1>9, ArmAgree
<1>. QED
  BY <1>10 DEF rule

LEMMA ArmRowAgreesFp ==
  ASSUME NEW R \in ArmRegisters, NEW row \in Rows, NEW first \in BOOLEAN, NEW rd,
         R.fp \in Low, ArmTranslateFp(row) # NoRule,
         row.cfa.is = "RegisterAndOffset", row.cfa.reg = "fp", row.cfa.offset % 8 = 0,
         row.fp.is = "Offset" => row.fp.offset % 8 = 0,
         row.ra.is = "Offset" => row.ra.offset % 8 = 0,
         exec_arm(ArmTranslateFp(row), first, R, rd).is = "Some"
  PROVE  ArmSame(row, ArmTranslateFp(row), first, R, rd)
<1> DEFINE rule == ArmTranslateFp(row)
           off == row.cfa.offset
           fo == row.fp.offset
           ro == row.ra.offset
           n == DivTrunc(off, 8)
           l8 == DivTrunc(off + ro, 8)
           f8 == DivTrunc(off + fo, 8)
<1>1. /\ Storage(row.ra) = "stored" /\ Storage(row.fp) = "stored"
      /\ \/ /\ off = 16 /\ row.fp = Offset(-16) /\ row.ra = Offset(-8) /\ rule = UseFramePointer
         \/ /\ n \in U16s /\ l8 \in I16s /\ f8 \in I16s /\ rule = UseFramepointerWithOffsets(n, f8, l8)
  BY DEF ArmTranslateFp
<1>2. row.fp.is = "Offset" /\ row.ra.is = "Offset"
  BY <1>1 DEF Storage
<1>3. /\ off \in Int /\ row.cfa = CfaAt("fp", off)
      /\ fo \in Int /\ row.fp = Offset(fo) /\ ro \in Int /\ row.ra = Offset(ro)
  BY <1>2 DEF Rows, CfaRules, RegisterRules, CfaAt, Offset
<1> HIDE DEF rule
<1>4. CASE off = 16 /\ row.fp = Offset(-16) /\ row.ra = Offset(-8) /\ rule = UseFramePointer
  <2>1. FpRow(row, 16, -16, -8)
    BY <1>3, <1>4 DEF FpRow
  <2>. QED
    BY <1>4, <2>1, ArmFpPlain DEF rule
<1>5. CASE n \in U16s /\ l8 \in I16s /\ f8 \in I16s /\ rule = UseFramepointerWithOffsets(n, f8, l8)
  <2>1. FpRow(row, off, fo, ro)
    BY <1>3 DEF FpRow
  <2>2. off = 8 * n
    BY <1>3, DivExact
  <2>3. l8 \in Int /\ 8 * l8 = off + ro /\ Near(8 * l8)
    BY <1>2, <1>3, <1>5, Scaled
  <2>4. f8 \in Int /\ 8 * f8 = off + fo /\ Near(8 * f8)
    BY <1>2, <1>3, <1>5, Scaled
  <2> HIDE DEF off, fo, ro, n, l8, f8
  <2>5. exec_arm(UseFramepointerWithOffsets(n, f8, l8), first, R, rd).is = "Some"
    BY <1>5 DEF rule
  <2>6. off \in Int /\ fo \in Int /\ ro \in Int /\ n \in U16s
    BY <1>3, <1>5
  <2>7. ArmSame(row, UseFramepointerWithOffsets(n, f8, l8), first, R, rd)
    BY <2>1, <2>2, <2>3, <2>4, <2>5, <2>6, ArmFpOffsets
  <2>. QED
    BY <1>5, <2>7 DEF rule
<1>. QED
  BY <1>1, <1>4, <1>5

\* For every row the cached rule and the generic evaluation find the same caller
\* (x86_64/dwarf.rs and aarch64/dwarf.rs: translate_into_unwind_rule against
\* unwind_frame), whatever is on the stack.
THEOREM PathsAgree == Spec => []RulesAgreeWithRows
<1>1. ASSUME WalkInv, NEW a \in DOMAIN Info[arch], Found(a, cur_addr.first).is = "row"
      PROVE  RuleAgrees(Found(a, cur_addr.first).row, cur_addr.first, read_stack)
  <2> DEFINE row == Found(a, cur_addr.first).row
             first == cur_addr.first
             rd == read_stack
  <2>1. arch \in DOMAIN Info /\ regs \in Registers /\ first \in BOOLEAN
    BY <1>1 DEF WalkInv, WalkTypeOK, Registers
  <2>2. row \in Rows
    BY <1>1, <2>1, FoundType DEF InfoOf
  <2>3. Memory(rd)
    BY <1>1, StackIsMemory, ReadStackType
  <2> HIDE DEF row, first, rd
  <2>4. ASSUME arch = "x86_64" PROVE RuleAgrees(row, first, rd)
    <3>1. regs \in X86Registers
      BY <2>1, <2>4 DEF Registers
    <3> DEFINE rule == translate_x86(row)
    <3>2. SUFFICES ASSUME rule # NoRule, Aligned(row), {regs.sp, regs.fp} \subseteq Low, ~row.signal,
                          exec_x86(rule, first, regs, rd).is = "Some"
                   PROVE  Same(exec_x86(rule, first, regs, rd), generic_x86(row, first, regs, rd))
      BY <2>4 DEF RuleAgrees, exec, exec_on, Low
    <3>3. /\ row.cfa.is = "RegisterAndOffset" => row.cfa.offset % 8 = 0
          /\ row.fp.is = "Offset" => row.fp.offset % 8 = 0
      BY <2>4, <3>2 DEF Aligned
    <3>4. regs.sp \in Low /\ regs.fp \in Low
      BY <3>2
    <3>. QED
      BY <2>1, <2>2, <2>3, <2>4, <3>1, <3>2, <3>3, <3>4, X86RowAgrees DEF Same
  <2>5. ASSUME arch = "aarch64" PROVE RuleAgrees(row, first, rd)
    <3>1. regs \in ArmRegisters
      BY <2>1, <2>5 DEF Registers
    <3> DEFINE rule == translate_arm(row)
    <3>2. SUFFICES ASSUME rule # NoRule, Aligned(row), {regs.sp, regs.fp} \subseteq Low,
                          exec_arm(rule, first, regs, rd).is = "Some"
                   PROVE  Same(exec_arm(rule, first, regs, rd), generic_arm(row, first, regs, rd))
      BY <2>5 DEF RuleAgrees, exec, exec_on, Low
    <3>3. row.cfa.is = "RegisterAndOffset"
          /\ \/ row.cfa.reg = "sp" /\ rule = ArmTranslateSp(row)
             \/ row.cfa.reg = "fp" /\ rule = ArmTranslateFp(row)
      BY <3>2 DEF translate_arm
    <3> HIDE DEF rule
    <3>4. CASE row.cfa.reg = "sp" /\ rule = ArmTranslateSp(row)
      BY <2>1, <2>2, <2>5, <3>1, <3>2, <3>3, <3>4, ArmRowAgreesSp DEF Aligned, Same, ArmSame
    <3>5. CASE row.cfa.reg = "fp" /\ rule = ArmTranslateFp(row)
      BY <2>1, <2>2, <2>5, <3>1, <3>2, <3>3, <3>5, ArmRowAgreesFp DEF Aligned, Same, ArmSame
    <3>. QED
      BY <3>3, <3>4, <3>5
  <2>. QED
    BY <2>1, <2>4, <2>5, Architectures DEF row, first, rd
<1>2. WalkInv => RulesAgreeWithRows
  BY <1>1 DEF RulesAgreeWithRows
<1>. QED
  BY <1>2, WalkInvCorrect, PTL
=============================================================================
