----------------------------- MODULE WalkProofs -----------------------------
(* Proofs about WildStack, the walk over a stack with anything on it: what one step
   and a whole walk may do whatever the memory, the rules and the unwind tables say. *)
EXTENDS WildStack, FiniteSetTheorems, TLAPS

LEMMA ReadType ==
  ASSUME NEW rd, Memory(rd), NEW a
  PROVE  Read(rd, a) \in Address \cup {Err}
BY DEF Memory, Read

LEMMA AddType ==
  ASSUME NEW a, NEW d
  PROVE  checked_add(a, d) \in Address \cup {Err}
BY DEF checked_add

LEMMA ErrIsNoAddress == Err \notin Address /\ Address \subseteq Nat /\ Word \in Nat /\ U16s \subseteq Nat
BY SizesOK DEF Address, U16s

(* The registers that executing a rule leaves behind, and where sp goes. *)
LEMMA X86Sp ==
  ASSUME NEW R \in X86Registers, NEW rule \in X86Rules, NEW first \in BOOLEAN, NEW rd
  PROVE  LET sp == RuleSp(rule, first, R, rd)
         IN  sp = Err \/ (sp \in Address /\ sp >= R.sp)
<1> DEFINE sp == RuleSp(rule, first, R, rd)
<1>0. R.sp \in Nat /\ R.fp \in Nat /\ Word \in Nat /\ Address = 0 .. Word - 1 /\ Err \notin Address
  BY ErrIsNoAddress DEF X86Registers, Address
<1>1. CASE UsesFp(rule, first)
  <2>1. sp = FramePointerSp(R)
    BY <1>1 DEF RuleSp, UsesFp
  <2>2. CASE R.fp + 16 \in Address
    BY <1>0, <2>1, <2>2 DEF FramePointerSp, checked_add
  <2>3. CASE R.fp + 16 \notin Address
    BY <1>0, <2>1, <2>3 DEF FramePointerSp, checked_add
  <2>. QED
    BY <2>2, <2>3
<1>2. CASE ~UsesFp(rule, first) /\ rule.is \in {"OffsetSp", "OffsetSpAndRestoreBp"}
  <2>1. rule.sp8 \in Nat
    BY <1>2, ErrIsNoAddress DEF X86Rules
  <2>2. sp = checked_add(R.sp, 8 * rule.sp8)
    BY <1>2 DEF RuleSp
  <2>. QED
    BY <1>0, <2>1, <2>2 DEF checked_add
<1>3. CASE ~UsesFp(rule, first) /\ rule.is = "OffsetSpAndPopRegisters"
  <2>1. rule.sp8 \in Nat /\ rule.pops \in Seq(Saved)
    BY <1>3, ErrIsNoAddress DEF X86Rules
  <2>2. Len(rule.pops) \in Nat
    BY <2>1
  <2>3. sp \in {Err, checked_add(R.sp, 8 * (rule.sp8 + Len(rule.pops) + 1))}
    BY <1>3 DEF RuleSp
  <2>. QED
    BY <1>0, <2>1, <2>2, <2>3 DEF checked_add
<1>4. CASE ~UsesFp(rule, first) /\ rule.is \notin {"OffsetSp", "OffsetSpAndRestoreBp", "OffsetSpAndPopRegisters"}
  BY <1>0, <1>4 DEF RuleSp, checked_add
<1>. QED
  BY <1>1, <1>2, <1>3, <1>4

LEMMA X86Popped ==
  ASSUME NEW R \in X86Registers, NEW rule \in X86Rules, NEW rd, Memory(rd),
         rule.is = "OffsetSpAndPopRegisters"
  PROVE  PoppedBp(rule, R, rd) \in Address
<1> DEFINE at == {i \in DOMAIN rule.pops : rule.pops[i] = "rbp" /\ Popped(rule, R, rd, i)}
<1>1. CASE at = {}
  BY <1>1 DEF PoppedBp, X86Registers
<1>2. CASE at # {}
  <2>1. PICK i \in at : i = CHOOSE j \in at : TRUE
    BY <1>2
  <2>2. i \in 1 .. i
    <3>1. rule.pops \in Seq(Saved)
      BY DEF X86Rules
    <3>. QED
      BY <3>1
  <2>3. Read(rd, PopSlot(rule, R, i)) \in Address
    BY <2>1, <2>2, ReadType DEF Popped
  <2>. QED
    BY <1>2, <2>1, <2>3 DEF PoppedBp
<1>. QED
  BY <1>1, <1>2

LEMMA X86Bp ==
  ASSUME NEW R \in X86Registers, NEW rule \in X86Rules, NEW first \in BOOLEAN, NEW rd, Memory(rd)
  PROVE  RuleBp(rule, first, R, rd) \in Address \cup {Err}
<1>1. CASE rule.is = "OffsetSpAndPopRegisters"
  BY <1>1, X86Popped, ReadType DEF RuleBp
<1>2. CASE rule.is # "OffsetSpAndPopRegisters"
  BY <1>2, ReadType DEF RuleBp, RestoredBp, X86Registers
<1>. QED
  BY <1>1, <1>2

LEMMA X86Exec ==
  ASSUME NEW R \in X86Registers, NEW rule \in X86Rules, NEW first \in BOOLEAN, NEW rd, Memory(rd)
  PROVE  LET r == exec_x86(rule, first, R, rd)
         IN  /\ r.is \in {"Some", "None", "Err"} /\ r.regs \in X86Registers
             /\ r.is = "Some" => /\ r.ra \in Address \ {0}
                                 /\ r.regs.sp >= R.sp
             /\ r.is # "Some" => r.regs.sp = R.sp
<1> DEFINE r == exec_x86(rule, first, R, rd)
           new_sp == RuleSp(rule, first, R, rd)
           new_bp == RuleBp(rule, first, R, rd)
           ra == Read(rd, (new_sp - 8) % Word)
<1>1. LeftBy(rule, R, rd) \in X86Registers /\ LeftBy(rule, R, rd).sp = R.sp
  BY X86Popped DEF LeftBy, X86Registers
<1>2. \/ r = StackEnds(R) \/ r = Failed(LeftBy(rule, R, rd)) \/ r = StackEnds(LeftBy(rule, R, rd))
      \/ /\ new_sp # Err /\ new_bp # Err /\ ra # Err /\ ra # 0
         /\ r = Caller(ra, FALSE, [ip |-> ra, sp |-> new_sp, fp |-> new_bp])
  BY DEF exec_x86
<1>3. ra \in Address \cup {Err} /\ new_bp \in Address \cup {Err}
  BY ReadType, X86Bp
<1>4. CASE r = StackEnds(R) \/ r = Failed(LeftBy(rule, R, rd)) \/ r = StackEnds(LeftBy(rule, R, rd))
  BY <1>1, <1>4 DEF StackEnds, Failed
<1>5. CASE /\ new_sp # Err /\ new_bp # Err /\ ra # Err /\ ra # 0
           /\ r = Caller(ra, FALSE, [ip |-> ra, sp |-> new_sp, fp |-> new_bp])
  <2>1. new_sp \in Address /\ new_sp >= R.sp
    BY <1>5, X86Sp
  <2>. QED
    BY <1>3, <1>5, <2>1 DEF Caller, X86Registers
<1>. QED
  BY <1>2, <1>4, <1>5
-----------------------------------------------------------------------------
(* Rows *)

LEMMA ModRange ==
  ASSUME NEW a \in Int, NEW d \in Nat \ {0}
  PROVE  a % d \in 0 .. d - 1
OBVIOUS

LEMMA ModType ==
  ASSUME NEW a \in Int
  PROVE  a % Word \in Address
BY SizesOK DEF Address

\* Registers, of either architecture, as far as rows name them
Followed(R) == \A q \in Regs \cap DOMAIN R : R[q] \in Address

LEMMA EvalType ==
  ASSUME NEW R, Followed(R), NEW rd, Memory(rd)
  PROVE  /\ \A e \in Exprs : eval_expr(e, R, rd) \in Address \cup {Err}
         /\ \A c \in CfaRules : eval_cfa_rule(c, R, rd) \in Address \cup {Err}
<1>0. \A v, d : SignedAdd(v, d) \in Address \cup {Err}
  BY SizesOK DEF SignedAdd, Half, Address
<1>1. ASSUME NEW e \in Exprs PROVE eval_expr(e, R, rd) \in Address \cup {Err}
  <2>1. RegValue(R, e.reg) \in Address \cup {Err} /\ e.offset \in Int
    BY DEF RegValue, Followed, Exprs
  <2>2. CASE RegValue(R, e.reg) = Err
    BY <2>2 DEF eval_expr
  <2>3. CASE RegValue(R, e.reg) # Err
    <3>1. RegValue(R, e.reg) + e.offset \in Int
      BY <2>1, <2>3, SizesOK DEF Address
    <3>2. (RegValue(R, e.reg) + e.offset) % Word \in Address
      BY <3>1, ModType
    <3>3. eval_expr(e, R, rd) = IF e.deref THEN Read(rd, (RegValue(R, e.reg) + e.offset) % Word)
                                ELSE (RegValue(R, e.reg) + e.offset) % Word
      BY <2>3 DEF eval_expr
    <3>. QED
      BY <3>2, <3>3, ReadType
  <2>. QED
    BY <2>2, <2>3
<1>2. ASSUME NEW c \in CfaRules PROVE eval_cfa_rule(c, R, rd) \in Address \cup {Err}
  <2>1. CASE c.is = "Expression"
    <3>1. c.expr \in Exprs
      BY <2>1 DEF CfaRules
    <3>. QED
      BY <1>1, <2>1, <3>1 DEF eval_cfa_rule
  <2>2. CASE c.is # "Expression"
    BY <1>0, <2>2 DEF eval_cfa_rule
  <2>. QED
    BY <2>1, <2>2
<1>. QED
  BY <1>1, <1>2

LEMMA RegisterRuleType ==
  ASSUME NEW R, Followed(R), NEW rd, Memory(rd), NEW rule \in RegisterRules, NEW cfa, NEW val \in Address
  PROVE  eval_register_rule(rule, cfa, val, R, rd) \in Address \cup {Err}
<1>0. \A v, d : SignedAdd(v, d) \in Address \cup {Err}
  BY SizesOK DEF SignedAdd, Half, Address
<1>1. CASE rule.is \in {"Expression", "ValExpression"}
  <2>1. rule.expr \in Exprs
    BY <1>1 DEF RegisterRules
  <2>2. eval_expr(rule.expr, R, rd) \in Address \cup {Err}
    BY <2>1, EvalType
  <2>. QED
    BY <1>1, <2>2, ReadType DEF eval_register_rule
<1>2. CASE rule.is = "Register"
  <2>1. rule.reg \in Regs
    BY <1>2 DEF RegisterRules
  <2>. QED
    BY <1>2, <2>1 DEF eval_register_rule, RegValue, Followed
<1>3. CASE rule.is \notin {"Register", "Expression", "ValExpression"}
  BY <1>0, <1>3, ReadType DEF eval_register_rule
<1>. QED
  BY <1>1, <1>2, <1>3

LEMMA X86Generic ==
  ASSUME NEW R \in X86Registers, NEW row \in Rows, NEW first \in BOOLEAN, NEW rd, Memory(rd)
  PROVE  LET r == generic_x86(row, first, R, rd)
         IN  \/ r = Failed(R)
             \/ /\ r.is = "Some" /\ r.regs \in X86Registers /\ r.ra \in Address
                /\ ~first /\ ~row.signal => r.regs.sp >= R.sp
<1> DEFINE r == generic_x86(row, first, R, rd)
           cfa == eval_cfa_rule(row.cfa, R, rd)
           bp == eval_register_rule(row.fp, cfa, R.fp, R, rd)
           val == eval_register_rule(row.ra, cfa, R.ip, R, rd)
           ra == IF val # Err THEN val ELSE Read(rd, (cfa - 8) % Word)
<1>1. Followed(R)
  BY DEF Followed, X86Registers
<1>2. cfa \in Address \cup {Err}
  BY <1>1, EvalType DEF Rows
<1>3. bp \in Address \cup {Err} /\ ra \in Address \cup {Err}
  <2>1. row.fp \in RegisterRules /\ row.ra \in RegisterRules /\ R.fp \in Address /\ R.ip \in Address
    BY DEF Rows, X86Registers
  <2> HIDE DEF cfa
  <2>2. bp \in Address \cup {Err} /\ val \in Address \cup {Err}
    BY <1>1, <2>1, RegisterRuleType
  <2>. QED
    BY <2>2, ReadType
<1>4. \/ r = Failed(R)
      \/ /\ cfa # Err /\ ra # Err /\ ~(~first /\ ~row.signal /\ cfa < R.sp)
         /\ r = Caller(ra, row.signal, [ip |-> ra, sp |-> cfa, fp |-> IF bp = Err THEN R.fp ELSE bp])
  BY DEF generic_x86
<1>5. R.sp \in Nat /\ Address \subseteq Nat
  BY ErrIsNoAddress DEF X86Registers
<1> DEFINE s == [ip |-> ra, sp |-> cfa, fp |-> IF bp = Err THEN R.fp ELSE bp]
<1> HIDE DEF r, cfa, bp, ra
<1>6. CASE /\ cfa # Err /\ ra # Err /\ ~(~first /\ ~row.signal /\ cfa < R.sp)
           /\ r = Caller(ra, row.signal, s)
  <2>1. cfa \in Address /\ ra \in Address
    BY <1>2, <1>3, <1>6
  <2>2. s \in X86Registers /\ s.sp = cfa
    BY <1>3, <2>1 DEF X86Registers
  <2>3. r.is = "Some" /\ r.regs = s /\ r.ra = ra
    BY <1>6 DEF Caller
  <2>4. ~first /\ ~row.signal => cfa >= R.sp
    BY <1>5, <1>6, <2>1
  <2>. QED
    BY <2>1, <2>2, <2>3, <2>4 DEF r
<1>. QED
  BY <1>4, <1>6 DEF r

LEMMA NoWordAtErr ==
  ASSUME NEW rd, Memory(rd)
  PROVE  Read(rd, Err) = Err
BY SizesOK DEF Memory, Read, Address

\* The word below the CFA
LEMMA X86ReturnSlot ==
  ASSUME NEW rd, Memory(rd), NEW cfa \in Address
  PROVE  Read(rd, SignedAdd(cfa, -8)) \in {Err, Read(rd, (cfa - 8) % Word)}
<1>1. Half \in Nat /\ Half <= Word /\ Word \in Nat /\ cfa \in Nat /\ Err \notin Int /\ cfa < Word
  BY SizesOK DEF Half, Address
<1>2. CASE cfa >= 8 /\ cfa < Half
  <2>0. cfa # Err /\ cfa + (-8) \in 0 .. Half - 1 /\ cfa + (-8) = cfa - 8
    BY <1>1, <1>2
  <2>1. SignedAdd(cfa, -8) = cfa - 8
    BY <1>2, <2>0 DEF SignedAdd
  <2>2. (cfa - 8) % Word = cfa - 8
    BY <1>1, <1>2
  <2>. QED
    BY <2>1, <2>2
<1>3. CASE cfa < 8 \/ cfa >= Half
  <2>1. SignedAdd(cfa, -8) = Err
    BY <1>1, <1>3 DEF SignedAdd
  <2>. QED
    BY <2>1, NoWordAtErr
<1>. QED
  BY <1>1, <1>2, <1>3

\* A caller on x86_64: its ip is the word below its sp, and one of the two has changed
Fresh(r, R, rd) == r.is = "Some" => /\ r.regs.ip = Read(rd, (r.regs.sp - 8) % Word)
                                    /\ ~(r.regs.sp = R.sp /\ r.regs.ip = R.ip)

LEMMA X86ExecFresh ==
  ASSUME NEW R \in X86Registers, NEW rule \in X86Rules, NEW first \in BOOLEAN, NEW rd, Memory(rd)
  PROVE  Fresh(exec_x86(rule, first, R, rd), R, rd)
<1> DEFINE r == exec_x86(rule, first, R, rd)
           new_sp == RuleSp(rule, first, R, rd)
           new_bp == RuleBp(rule, first, R, rd)
           ra == Read(rd, (new_sp - 8) % Word)
<1>1. \/ r = StackEnds(R) \/ r = Failed(LeftBy(rule, R, rd)) \/ r = StackEnds(LeftBy(rule, R, rd))
      \/ ~DidNotAdvance(new_sp, ra, R) /\ r = Caller(ra, FALSE, [ip |-> ra, sp |-> new_sp, fp |-> new_bp])
  BY DEF exec_x86
<1> HIDE DEF r, new_sp, new_bp
<1>2. Fresh(r, R, rd)
  BY <1>1 DEF Fresh, StackEnds, Failed, Caller, DidNotAdvance
<1>. QED
  BY <1>2 DEF r

\* Rows whose return address is not the word below the CFA, as in ReturnsElsewhere
Elsewhere(row) == row.ra.is \notin {"Missing", "Undefined"} /\ row.ra # Offset(-8)

LEMMA X86GenericFresh ==
  ASSUME NEW R \in X86Registers, NEW row \in Rows, NEW first \in BOOLEAN, NEW rd, Memory(rd),
         ~Elsewhere(row)
  PROVE  Fresh(generic_x86(row, first, R, rd), R, rd)
<1> DEFINE r == generic_x86(row, first, R, rd)
           cfa == eval_cfa_rule(row.cfa, R, rd)
           bp == eval_register_rule(row.fp, cfa, R.fp, R, rd)
           val == eval_register_rule(row.ra, cfa, R.ip, R, rd)
           below == Read(rd, (cfa - 8) % Word)
           ra == IF val # Err THEN val ELSE below
<1>1. cfa \in Address \cup {Err}
  BY EvalType DEF Followed, X86Registers, Rows
<1>2. \/ r = Failed(R)
      \/ /\ cfa # Err /\ ~(cfa = R.sp /\ ra = R.ip)
         /\ r = Caller(ra, row.signal, [ip |-> ra, sp |-> cfa, fp |-> IF bp = Err THEN R.fp ELSE bp])
  BY DEF generic_x86
<1>3. val = Err \/ val = Read(rd, SignedAdd(cfa, -8))
  <2> HIDE DEF cfa
  <2>1. CASE row.ra.is \in {"Missing", "Undefined"}
    BY <2>1 DEF eval_register_rule
  <2>2. CASE row.ra = Offset(-8)
    BY <2>2 DEF eval_register_rule, Offset
  <2>. QED
    BY <2>1, <2>2 DEF Elsewhere
<1> HIDE DEF r, cfa, bp, val
<1>4. cfa # Err => ra = below
  BY <1>1, <1>3, X86ReturnSlot
<1> HIDE DEF ra
<1>5. Fresh(r, R, rd)
  BY <1>2, <1>4 DEF Fresh, Failed, Caller
<1>. QED
  BY <1>5 DEF r

-----------------------------------------------------------------------------
(* aarch64 *)

LEMMA StripType ==
  ASSUME NEW m \in Address, NEW p \in Address
  PROVE  strip_ptr_auth(m, p) \in Address
<1>1. p \in Nat /\ m + 1 \in Nat \ {0} /\ m < Word
  BY SizesOK DEF Address
<1>2. ASSUME NEW x \in 0 .. (m + 1) - 1 PROVE x \in Address
  BY <1>1, SizesOK DEF Address
<1>. QED
  BY <1>1, <1>2, ModRange DEF strip_ptr_auth

Moved(R, sp, fp, lr) == set_lr([R EXCEPT !.sp = sp, !.fp = fp], lr)
LEMMA MovedType ==
  ASSUME NEW R \in ArmRegisters, NEW sp \in Address, NEW fp \in Address, NEW lr \in Address
  PROVE  Moved(R, sp, fp, lr) \in ArmRegisters /\ Moved(R, sp, fp, lr).sp = sp
BY StripType DEF Moved, set_lr, ArmRegisters

LEMMA ArmTypes ==
  ASSUME NEW R \in ArmRegisters, NEW rule \in ArmRules, NEW first \in BOOLEAN, NEW rd, Memory(rd)
  PROVE  /\ ArmSp(rule, first, R) \in Address \cup {Err}
         /\ ArmLr(rule, first, R, rd) \in Address \cup {Err}
         /\ ArmFp(rule, first, R, rd) \in Address \cup {Err}
<1>1. \A base, by8 : ReadAt(rd, base, by8) \in Address \cup {Err}
  BY ReadType DEF ReadAt
<1>2. ArmSp(rule, first, R) \in Address \cup {Err}
  BY AddType DEF ArmSp, ArmRegisters
<1>3. ArmLr(rule, first, R, rd) \in Address \cup {Err}
  BY <1>1 DEF ArmLr, ArmRegisters
<1>4. ArmFp(rule, first, R, rd) \in Address \cup {Err}
  BY <1>1, ReadType DEF ArmFp, ArmRegisters
<1>. QED
  BY <1>2, <1>3, <1>4

(* Where a rule does not compare the new sp with the old, it only adds to it. *)
LEMMA ArmSpUp ==
  ASSUME NEW R \in ArmRegisters, NEW rule \in ArmRules, NEW first \in BOOLEAN, NEW new_fp,
         ArmSp(rule, first, R) # Err,
         ~MovedBackwards(rule, first, R, ArmSp(rule, first, R), new_fp)
  PROVE  ArmSp(rule, first, R) >= R.sp
<1> DEFINE sp == ArmSp(rule, first, R)
<1>0. R.sp \in Nat /\ R.fp \in Nat /\ Address \subseteq Nat
  BY ErrIsNoAddress DEF ArmRegisters
<1>1. CASE rule.is \in FpRules \/ (rule.is = "NoOpIfFirstFrameOtherwiseFp" /\ ~first)
  <2>1. ~(sp <= R.sp)
    BY <1>1 DEF MovedBackwards
  <2>2. sp \in Nat
    BY <1>0, AddType DEF ArmSp, ArmRegisters
  <2>. QED
    BY <1>0, <2>1, <2>2
<1>2. CASE rule.is = "NoOp" \/ (rule.is = "NoOpIfFirstFrameOtherwiseFp" /\ first)
  BY <1>0, <1>2 DEF ArmSp
<1>3. CASE rule.is \in {"OffsetSp", "OffsetSpIfFirstFrameOtherwiseStackEndsHere",
                        "OffsetSpAndRestoreLr", "OffsetSpAndRestoreFpAndLr"}
  <2>1. rule.sp16 \in Nat
    BY <1>3, ErrIsNoAddress DEF ArmRules
  <2>. QED
    BY <1>0, <1>3, <2>1 DEF ArmSp, checked_add
<1>4. rule.is \in {"NoOp", "NoOpIfFirstFrameOtherwiseFp", "OffsetSp",
                   "OffsetSpIfFirstFrameOtherwiseStackEndsHere", "OffsetSpAndRestoreLr",
                   "OffsetSpAndRestoreFpAndLr"} \cup FpRules
  BY DEF ArmRules, FpRules
<1>. QED
  BY <1>1, <1>2, <1>3, <1>4

LEMMA ArmExec ==
  ASSUME NEW R \in ArmRegisters, NEW rule \in ArmRules, NEW first \in BOOLEAN, NEW rd, Memory(rd)
  PROVE  LET r == exec_arm(rule, first, R, rd)
         IN  \/ r.is \in {"None", "Err"} /\ r.regs = R
             \/ /\ r.is = "Some" /\ r.regs \in ArmRegisters
                /\ r.ra \in Address \ {0}
                /\ r.regs.sp >= R.sp /\ (~first => r.regs.sp # R.sp)
<1> DEFINE r == exec_arm(rule, first, R, rd)
           new_sp == ArmSp(rule, first, R)
           new_lr == ArmLr(rule, first, R, rd)
           new_fp == ArmFp(rule, first, R, rd)
           ra == strip_ptr_auth(R.mask, new_lr)
<1>1. \/ r = StackEnds(R) \/ r = Failed(R)
      \/ /\ new_sp # Err /\ new_lr # Err /\ new_fp # Err /\ ra # 0
         /\ ~MovedBackwards(rule, first, R, new_sp, new_fp) /\ (~first => new_sp # R.sp)
         /\ r = Caller(ra, FALSE, Moved(R, new_sp, new_fp, new_lr))
  BY DEF exec_arm, Moved
<1>2. CASE r = StackEnds(R) \/ r = Failed(R)
  <2> HIDE DEF r
  <2>1. r.is \in {"None", "Err"} /\ r.regs = R
    BY <1>2 DEF StackEnds, Failed
  <2>. QED
    BY <2>1 DEF r
<1>3. CASE /\ new_sp # Err /\ new_lr # Err /\ new_fp # Err /\ ra # 0
           /\ ~MovedBackwards(rule, first, R, new_sp, new_fp) /\ (~first => new_sp # R.sp)
           /\ r = Caller(ra, FALSE, Moved(R, new_sp, new_fp, new_lr))
  <2>1. new_sp \in Address /\ new_lr \in Address /\ new_fp \in Address
    BY <1>3, ArmTypes
  <2>2. new_sp >= R.sp
    BY <1>3, ArmSpUp
  <2>3. ra \in Address
    BY <2>1, StripType DEF ArmRegisters
  <2> DEFINE s == Moved(R, new_sp, new_fp, new_lr)
  <2>4. s \in ArmRegisters /\ s.sp = new_sp
    BY <2>1, MovedType
  <2>5. r.is = "Some" /\ r.regs = s /\ r.ra = ra
    BY <1>3 DEF Caller
  <2>. QED
    BY Zenon, <1>3, <2>1, <2>2, <2>3, <2>4, <2>5
<1>. QED
  BY Zenon, <1>1, <1>2, <1>3

LEMMA ArmGeneric ==
  ASSUME NEW R \in ArmRegisters, NEW row \in Rows, NEW first \in BOOLEAN, NEW rd, Memory(rd)
  PROVE  LET r == generic_arm(row, first, R, rd)
         IN  \/ r = Failed(R)
             \/ /\ r.is = "Some" /\ r.regs \in ArmRegisters /\ r.ra \in Address
                /\ (~first => r.regs.sp > R.sp)
<1> DEFINE r == generic_arm(row, first, R, rd)
           cfa == eval_cfa_rule(row.cfa, R, rd)
           fp_val == eval_register_rule(row.fp, cfa, R.fp, R, rd)
           lr_val == eval_register_rule(row.ra, cfa, R.lr, R, rd)
           fp == IF first /\ fp_val = Err THEN R.fp ELSE fp_val
           lr == IF first /\ lr_val = Err THEN R.lr ELSE lr_val
<1>1. Followed(R)
  BY DEF Followed, ArmRegisters, Regs
<1>2. cfa \in Address \cup {Err}
  BY <1>1, EvalType DEF Rows
<1>3. fp \in Address \cup {Err} /\ lr \in Address \cup {Err}
  BY <1>1, RegisterRuleType DEF Rows, ArmRegisters
<1>4. \/ r = Failed(R)
      \/ /\ cfa # Err /\ fp # Err /\ lr # Err /\ ~(~first /\ cfa <= R.sp)
         /\ r = Caller(lr, FALSE, Moved(R, cfa, fp, lr))
  BY DEF generic_arm, Moved
<1>5. R.sp \in Nat /\ Address \subseteq Nat
  BY ErrIsNoAddress DEF ArmRegisters
<1> HIDE DEF cfa, fp, lr
<1>6. CASE /\ cfa # Err /\ fp # Err /\ lr # Err /\ ~(~first /\ cfa <= R.sp)
           /\ r = Caller(lr, FALSE, Moved(R, cfa, fp, lr))
  <2>1. cfa \in Address /\ fp \in Address /\ lr \in Address
    BY <1>2, <1>3, <1>6
  <2> DEFINE s == Moved(R, cfa, fp, lr)
  <2>2. s \in ArmRegisters /\ s.sp = cfa
    BY <2>1, MovedType
  <2>3. r.is = "Some" /\ r.regs = s /\ r.ra = lr
    BY <1>6 DEF Caller
  <2>4. ~first => cfa > R.sp
    BY <1>5, <1>6, <2>1
  <2>. QED
    BY <2>1, <2>2, <2>3, <2>4
<1>. QED
  BY <1>4, <1>6
-----------------------------------------------------------------------------
(* The translation of a row gives a rule whose fields fit. *)

LEMMA X86TranslateType ==
  ASSUME NEW row \in Rows
  PROVE  translate_x86(row) \in X86Rules \cup {NoRule}
<1>1. TranslateSp(row) \in X86Rules \cup {NoRule}
  BY DEF TranslateSp, X86Rules, NoRule, OffsetSp, OffsetSpAndRestoreBp
<1>. QED
  BY <1>1 DEF translate_x86, X86Rules, NoRule, EndOfStack, UseFramePointer

LEMMA ArmTranslateType ==
  ASSUME NEW row \in Rows
  PROVE  translate_arm(row) \in ArmRules \cup {NoRule}
<1>1. ArmTranslateSp(row) \in ArmRules \cup {NoRule}
  BY DEF ArmTranslateSp, ArmRules, NoRule, OffsetSpIfFirstFrameOtherwiseStackEndsHere,
         AOffsetSp, OffsetSpAndRestoreLr, OffsetSpAndRestoreFpAndLr
<1>2. ArmTranslateFp(row) \in ArmRules \cup {NoRule}
  BY DEF ArmTranslateFp, ArmRules, NoRule, UseFramePointer, UseFramepointerWithOffsets
<1>. QED
  BY <1>1, <1>2 DEF translate_arm, NoRule

-----------------------------------------------------------------------------
(* One frame, on the architecture of the build *)

Rules == IF arch = "x86_64" THEN X86Rules ELSE ArmRules
Registers == IF arch = "x86_64" THEN X86Registers ELSE ArmRegisters
Ready(rd) == arch \in DOMAIN Info /\ regs \in Registers /\ Memory(rd)

\* What a frame may do to the registers, and that it lies above its callee
Outcome(r) == /\ r.is \in {"Some", "None", "Err"} /\ r.regs \in Registers
              /\ r.is = "Some" => r.ra \in Address
              /\ r.is # "Some" => r.regs.sp = regs.sp
Up(r, first) ==
  r.is = "Some" => r.regs.sp >= regs.sp + (IF arch = "aarch64" /\ ~first THEN 1 ELSE 0)
Advances(r, rd) == arch = "x86_64" => Fresh(r, regs, rd)

LEMMA Architectures ==
  ASSUME arch \in DOMAIN Info
  PROVE  arch = "x86_64" \/ arch = "aarch64"
BY InfoOK

LEMMA ExecFrame ==
  ASSUME NEW rd, Ready(rd), NEW first \in BOOLEAN, NEW rule \in Rules
  PROVE  /\ Outcome(exec(rule, first, rd)) /\ Up(exec(rule, first, rd), first)
         /\ Advances(exec(rule, first, rd), rd)
<1> DEFINE r == exec(rule, first, rd)
           ex86 == exec_x86(rule, first, regs, rd)
           earm == exec_arm(rule, first, regs, rd)
<1>1. CASE arch = "x86_64"
  <2>1. regs \in X86Registers /\ rule \in X86Rules /\ Memory(rd) /\ r = ex86
    BY <1>1 DEF Ready, Rules, Registers, exec, exec_on
  <2>2. regs.sp \in Nat
    BY <2>1, ErrIsNoAddress DEF X86Registers
  <2> HIDE DEF r
  <2>3. /\ r.is \in {"Some", "None", "Err"} /\ r.regs \in X86Registers
        /\ r.is = "Some" => r.ra \in Address /\ r.regs.sp >= regs.sp
        /\ r.is # "Some" => r.regs.sp = regs.sp
    <3>1. /\ ex86.is \in {"Some", "None", "Err"} /\ ex86.regs \in X86Registers
          /\ ex86.is = "Some" => /\ ex86.ra \in Address \ {0}
                                 /\ ex86.regs.sp >= regs.sp
          /\ ex86.is # "Some" => ex86.regs.sp = regs.sp
      BY <2>1, X86Exec
    <3> HIDE DEF ex86
    <3>. QED
      BY <2>1, <3>1
  <2>4. r.regs.sp \in Nat
    BY <2>3, ErrIsNoAddress DEF X86Registers
  <2>5. Advances(r, rd)
    BY <2>1, X86ExecFresh DEF Advances
  <2>. QED
    BY <1>1, <2>2, <2>3, <2>4, <2>5 DEF Outcome, Up, Registers, r
<1>2. CASE arch = "aarch64"
  <2>1. regs \in ArmRegisters /\ rule \in ArmRules /\ Memory(rd) /\ r = earm
    BY <1>2 DEF Ready, Rules, Registers, exec, exec_on
  <2>2. regs.sp \in Nat
    BY <2>1, ErrIsNoAddress DEF ArmRegisters
  <2> HIDE DEF r
  <2>3. \/ r.is \in {"None", "Err"} /\ r.regs = regs
        \/ /\ r.is = "Some" /\ r.regs \in ArmRegisters /\ r.ra \in Address
           /\ r.regs.sp >= regs.sp /\ (~first => r.regs.sp # regs.sp)
    <3>1. \/ earm.is \in {"None", "Err"} /\ earm.regs = regs
          \/ /\ earm.is = "Some" /\ earm.regs \in ArmRegisters
             /\ earm.ra \in Address \ {0}
             /\ earm.regs.sp >= regs.sp /\ (~first => earm.regs.sp # regs.sp)
      BY <2>1, ArmExec
    <3> HIDE DEF earm
    <3>. QED
      BY <2>1, <3>1
  <2>4. r.regs \in ArmRegisters /\ r.regs.sp \in Nat
    BY <2>1, <2>3, ErrIsNoAddress DEF ArmRegisters
  <2>. QED
    BY <1>2, <2>2, <2>3, <2>4 DEF Outcome, Up, Advances, Registers, r
<1>. QED
  BY <1>1, <1>2, Architectures DEF Ready

\* A row that has a rule asks for it, unless it is an x86_64 signal frame.
Rule(row) == IF arch = "x86_64" THEN translate_x86(row) ELSE translate_arm(row)
Signals(row) == arch = "x86_64" /\ row.signal

LEMMA RowFrame ==
  ASSUME NEW rd, Ready(rd), NEW first \in BOOLEAN, NEW row \in Rows
  PROVE  LET r == unwind_row(row, first, rd)
         IN  \/ r = ExecRule(Rule(row)) /\ Rule(row) \in Rules /\ Rule(row) # NoRule
             \/ /\ Rule(row) = NoRule \/ Signals(row)
                /\ Outcome(r) /\ r.is # "None" /\ (r.is = "Err" => r.regs = regs)
                /\ ~first /\ ~Signals(row) => Up(r, first)
                /\ ~Elsewhere(row) => Advances(r, rd)
<1> DEFINE r == unwind_row(row, first, rd)
<1>1. CASE arch = "x86_64"
  <2> DEFINE g == generic_x86(row, first, regs, rd)
  <2>0. regs \in X86Registers /\ Memory(rd) /\ regs.sp \in Nat
    BY <1>1, ErrIsNoAddress DEF Ready, Registers, X86Registers
  <2>1. translate_x86(row) \in X86Rules \cup {NoRule}
    BY X86TranslateType
  <2>2. r = IF ~row.signal /\ translate_x86(row) # NoRule THEN ExecRule(translate_x86(row)) ELSE g
    BY <1>1 DEF unwind_row, unwind_row_x86
  <2> HIDE DEF g, r
  <2>3. \/ g = Failed(regs)
        \/ /\ g.is = "Some" /\ g.regs \in X86Registers /\ g.ra \in Address
           /\ ~first /\ ~row.signal => g.regs.sp >= regs.sp
    BY <2>0, X86Generic DEF g
  <2>4. g.is # "Some" => g.is = "Err" /\ g.regs = regs
    BY <2>3 DEF Failed
  <2>4a. g.regs \in X86Registers
    BY <2>0, <2>3, <2>4 DEF Failed
  <2>5. g.regs.sp \in Nat
    BY <2>4a, ErrIsNoAddress DEF X86Registers
  <2>6. Outcome(g) /\ g.is # "None" /\ (g.is = "Err" => g.regs = regs) /\ (~first /\ ~Signals(row) => Up(g, first))
    BY <1>1, <2>0, <2>3, <2>4, <2>4a, <2>5 DEF Outcome, Up, Signals, Registers, Failed
  <2>7. ~Elsewhere(row) => Advances(g, rd)
    BY <2>0, X86GenericFresh DEF Advances, g
  <2>. QED
    BY <1>1, <2>1, <2>2, <2>6, <2>7 DEF Rule, Rules, Signals, r
<1>2. CASE arch = "aarch64"
  <2> DEFINE g == generic_arm(row, first, regs, rd)
  <2>0. regs \in ArmRegisters /\ Memory(rd) /\ regs.sp \in Nat
    BY <1>2, ErrIsNoAddress DEF Ready, Registers, ArmRegisters
  <2>1. translate_arm(row) \in ArmRules \cup {NoRule}
    BY ArmTranslateType
  <2>2. r = IF translate_arm(row) # NoRule THEN ExecRule(translate_arm(row)) ELSE g
    BY <1>2 DEF unwind_row, unwind_row_arm
  <2> HIDE DEF g, r
  <2>3. \/ g = Failed(regs)
        \/ /\ g.is = "Some" /\ g.regs \in ArmRegisters /\ g.ra \in Address
           /\ ~first => g.regs.sp > regs.sp
    BY <2>0, ArmGeneric DEF g
  <2>4. g.is # "Some" => g.is = "Err" /\ g.regs = regs
    BY <2>3 DEF Failed
  <2>4a. g.regs \in ArmRegisters
    BY <2>0, <2>3, <2>4 DEF Failed
  <2>5. g.regs.sp \in Nat
    BY <2>4a, ErrIsNoAddress DEF ArmRegisters
  <2>6. Outcome(g) /\ g.is # "None" /\ (g.is = "Err" => g.regs = regs) /\ (~first => Up(g, first))
    BY <1>2, <2>0, <2>3, <2>4, <2>4a, <2>5 DEF Outcome, Up, Registers, Failed
  <2>. QED
    BY <1>2, <2>1, <2>2, <2>6 DEF Rule, Rules, Signals, Advances, r
<1>. QED
  BY <1>1, <1>2, Architectures DEF Ready

\* What the frame at cur_addr has, as the properties name it
At == address_for_lookup(cur_addr)
Here == Found(At, cur_addr.first)
HasRow == At \in DOMAIN Info[arch] \ fell /\ Here.is = "row"
Exempt == /\ HasRow
          /\ Signals(Here.row) \/ (cur_addr.first /\ Rule(Here.row) = NoRule)
Returns == HasRow => ~Elsewhere(Here.row)

\* Counts of instructions are numbers.
LEMMA CountType ==
  ASSUME NEW m \in Int, NEW n \in Int, NEW S, S \subseteq m .. n
  PROVE  Cardinality(S) \in Nat
BY FS_Interval, FS_Subset, FS_CardinalityType

LEMMA X86AnalysisType ==
  ASSUME NEW code \in Seq(X86Instructions), NEW at \in Nat
  PROVE  analysis_x86(code, at) \in X86Rules \cup {NoRule}
<1> DEFINE pushes == Cardinality(Before(Pushes(code), at))
           run == After(Pops(code), at)
           pops == Cardinality(run)
           bps == {i \in run : \E j \in run : i <= j /\ code[j] = "pop"}
           bp == Cardinality(bps)
<1>1. pushes \in Nat
  <2>1. Before(Pushes(code), at) \subseteq 1 .. at
    BY DEF Before
  <2>. QED
    BY <2>1, CountType
<1>2. pops \in Nat /\ bp \in Nat
  <2>1. run \subseteq at + 1 .. Len(code) /\ bps \subseteq at + 1 .. Len(code)
    BY DEF After, Pops
  <2>2. Len(code) \in Int /\ at + 1 \in Int
    OBVIOUS
  <2> HIDE DEF run, bps
  <2>3. Cardinality(run) \in Nat
    BY <2>1, <2>2, CountType
  <2>4. Cardinality(bps) \in Nat
    BY <2>1, <2>2, CountType
  <2>. QED
    BY <2>3, <2>4
<1>3. /\ (pushes + 1) % U16 \in U16s /\ (pops + 1) % U16 \in U16s
      /\ AsI16((bp - 1) % U16) \in I16s
  <2>1. ASSUME NEW n \in Int PROVE n % U16 \in U16s
    BY SizesOK DEF U16s
  <2>2. ASSUME NEW n \in U16s PROVE AsI16(n) \in I16s
    BY SizesOK DEF U16s, I16s, AsI16
  <2>3. pushes + 1 \in Int /\ pops + 1 \in Int /\ bp - 1 \in Int
    <3> HIDE DEF pushes, pops, bp
    <3>. QED
      BY <1>1, <1>2
  <2> HIDE DEF pushes, pops, bp
  <2>. QED
    BY <2>1, <2>2, <2>3
<1>4. prologue_x86(code, at) \in {NoRule, UseFramePointer, OffsetSp((pushes + 1) % U16)}
  BY DEF prologue_x86
<1>5. epilogue_x86(code, at) \in {NoRule, JustReturn, OffsetSp((pops + 1) % U16),
                                 OffsetSpAndRestoreBp((pops + 1) % U16, AsI16((bp - 1) % U16))}
  BY DEF epilogue_x86
<1> HIDE DEF pushes, pops, bp
<1>. QED
  BY <1>3, <1>4, <1>5 DEF analysis_x86, X86Rules, UseFramePointer, JustReturn, OffsetSp, OffsetSpAndRestoreBp

LEMMA X86FunctionType ==
  ASSUME NEW op \in Opcodes(TRUE), NEW code \in Seq(X86Instructions), NEW at \in Nat, NEW first \in BOOLEAN
  PROVE  LET r == function_x86(op, code, at, first)
         IN  r = NoRule \/ (r.is = "Dwarf" /\ r.row \in Rows) \/ r \in X86Rules
<1>1. ASSUME NEW size, NEW saved PROVE frameless_x86(size, saved) \in X86Rules \cup {NoRule}
  BY DEF frameless_x86, X86Rules, OffsetSp, OffsetSpAndRestoreBp
<1>2. {JustReturn, UseFramePointer} \subseteq X86Rules
  BY DEF X86Rules, JustReturn, UseFramePointer
<1>3. LET r == opcode_x86(op)
      IN  r = NoRule \/ (r.is = "Dwarf" /\ r.row \in Rows) \/ r \in X86Rules
  BY <1>1, <1>2 DEF opcode_x86, Opcodes
<1>. QED
  BY <1>2, <1>3, X86AnalysisType DEF function_x86

LEMMA ArmAnalysisType ==
  ASSUME NEW code, NEW at
  PROVE  analysis_arm(code, at) \in ArmRules \cup {NoRule}
<1>1. prologue_arm(code, at) \in ArmRules \cup {NoRule}
  <2>1. prologue_arm(code, at) \in {NoRule, NoOp} \cup {AOffsetSp(n) : n \in U16s}
    BY DEF prologue_arm
  <2>. QED
    BY <2>1 DEF ArmRules, NoOp, AOffsetSp
<1>2. ASSUME NEW s PROVE RestoreRule(s) \in ArmRules \cup {NoRule}
  BY DEF RestoreRule, ArmRules, NoOp, AOffsetSp, OffsetSpAndRestoreLr, OffsetSpAndRestoreFpAndLr
<1>3. epilogue_arm(code, at) \in {NoRule, NoOp} \/ \E s : epilogue_arm(code, at) = RestoreRule(s)
  BY DEF epilogue_arm
<1>4. NoOp \in ArmRules
  BY DEF ArmRules, NoOp
<1>. QED
  BY <1>1, <1>2, <1>3, <1>4 DEF analysis_arm

LEMMA ArmFunctionType ==
  ASSUME NEW op \in Opcodes(FALSE), NEW code, NEW at, NEW first \in BOOLEAN
  PROVE  LET r == function_arm(op, code, at, first)
         IN  r = NoRule \/ (r.is = "Dwarf" /\ r.row \in Rows) \/ r \in ArmRules
<1>1. {NoOp, UseFramePointer} \subseteq ArmRules
  BY DEF ArmRules, NoOp, UseFramePointer
<1>2. ASSUME NEW size \in U16s PROVE AOffsetSp(size \div 16) \in ArmRules
  <2>1. size \div 16 \in U16s
    BY SizesOK DEF U16s
  <2>. QED
    BY <2>1 DEF ArmRules, AOffsetSp
<1>3. LET r == opcode_arm(op, first)
      IN  r = NoRule \/ (r.is = "Dwarf" /\ r.row \in Rows) \/ r \in ArmRules
  BY <1>1, <1>2 DEF opcode_arm, Opcodes
<1>. QED
  BY <1>1, <1>3, ArmAnalysisType DEF function_arm

\* A compact entry has a rule of its architecture, a row or nothing.
LEMMA CompactType ==
  ASSUME NEW info \in CompactInfo(arch = "x86_64"), NEW first \in BOOLEAN
  PROVE  LET r == compact_unwind_frame(arch = "x86_64", info, first)
         IN  r = NoRule \/ (r.is = "Dwarf" /\ r.row \in Rows) \/ r \in Rules
<1>0. /\ info.part \in {"stubs", "stub_helper", "outside", "function"} /\ info.at \in Nat
      /\ info.part = "function" => info.opcode \in Opcodes(arch = "x86_64")
  BY DEF CompactInfo
<1>1. CASE arch = "x86_64"
  <2>1. info.part = "function" => info.code \in Seq(X86Instructions) /\ info.opcode \in Opcodes(TRUE)
    BY <1>1 DEF CompactInfo
  <2>2. JustReturn \in X86Rules /\ stub_helper_x86(info.at) \in X86Rules
    BY <1>0, SizesOK DEF stub_helper_x86, X86Rules, JustReturn, OffsetSp, U16s
  <2>. QED
    BY <1>0, <1>1, <2>1, <2>2, X86FunctionType DEF compact_unwind_frame, Rules
<1>2. CASE arch # "x86_64"
  <2>1. info.part = "function" => info.opcode \in Opcodes(FALSE)
    BY <1>2, <1>0
  <2>2. NoOp \in ArmRules /\ stub_helper_arm(info.at) \in ArmRules
    BY <1>0, SizesOK DEF stub_helper_arm, ArmRules, NoOp, AOffsetSp, U16s
  <2>. QED
    BY <1>0, <1>2, <2>1, <2>2, ArmFunctionType DEF compact_unwind_frame, Rules
<1>. QED
  BY <1>1, <1>2
LEMMA FoundType ==
  ASSUME arch \in DOMAIN Info, NEW a \in DOMAIN Info[arch], NEW first \in BOOLEAN
  PROVE  Found(a, first) \in InfoOf(Rules)
<1> DEFINE info == Info[arch][a]
           r == compact_unwind_frame(arch = "x86_64", info, first)
<1>1. info \in CompactInfo(arch = "x86_64") \/ (info \in InfoOf(Rules) /\ info.is # "compact")
  BY InfoOK, WorldOK DEF Rules, InfoOf
<1>2. Found(a, first) = IF info.is # "compact" THEN info
        ELSE CASE r.is = "NoRule" -> [is |-> "nothing"]
               [] r.is = "Dwarf" -> [is |-> "row", row |-> r.row]
               [] OTHER -> [is |-> "rule", rule |-> r]
  BY DEF Found, FromCompact
<1>3. ASSUME info \in CompactInfo(arch = "x86_64"), info.is = "compact"
      PROVE  r = NoRule \/ (r.is = "Dwarf" /\ r.row \in Rows) \/ r \in Rules
  BY <1>3, CompactType
<1> HIDE DEF info, r
<1>4. \A rule \in Rules : rule.is \notin {"NoRule", "Dwarf"}
  BY DEF Rules, X86Rules, ArmRules
<1>5. CASE info \in InfoOf(Rules) /\ info.is # "compact"
  BY <1>2, <1>5
<1>6. CASE info \in CompactInfo(arch = "x86_64")
  <2>1. info.is = "compact"
    BY <1>6 DEF CompactInfo
  <2>2. CASE r = NoRule
    BY <1>2, <2>1, <2>2 DEF InfoOf, NoRule
  <2>3. CASE r.is = "Dwarf" /\ r.row \in Rows
    BY <1>2, <2>1, <2>3 DEF InfoOf
  <2>4. CASE r \in Rules
    <3>1. Found(a, first) = [is |-> "rule", rule |-> r]
      BY <1>2, <1>4, <2>1, <2>4
    <3>. QED
      BY <2>4, <3>1 DEF InfoOf
  <2>. QED
    BY <1>3, <1>6, <2>1, <2>2, <2>3, <2>4
<1>. QED
  BY <1>1, <1>5, <1>6

LEMMA CacheFrame ==
  ASSUME WalkTypeOK, NEW rd, Memory(rd)
  PROVE  LET r == with_cache(cur_addr, rd)
         IN  Outcome(r) /\ (~Exempt => Up(r, cur_addr.first)) /\ (Returns => Advances(r, rd))
<1> DEFINE first == cur_addr.first
           u == unwind_frame_impl(At, first, rd)
           w == with_cache(cur_addr, rd)
           fb == exec(fallback_rule, first, rd)
<1>0. first \in BOOLEAN /\ Ready(rd) /\ arch \in DOMAIN Info
  BY DEF WalkTypeOK, Ready, Registers
<1>1. fallback_rule \in Rules /\ rule_if_uncovered_by_fde \in Rules
  BY DEF fallback_rule, rule_if_uncovered_by_fde, Rules, UseFramePointer, X86Rules, ArmRules,
         JustReturnIfFirstFrameOtherwiseFp, NoOpIfFirstFrameOtherwiseFp
<1>2. Outcome(fb) /\ Up(fb, first) /\ Advances(fb, rd)
  BY <1>0, <1>1, ExecFrame
<1>3. w = LET r == IF At \in fell THEN ExecRule(fallback_rule) ELSE u
          IN  CASE r.is = "ExecRule" -> exec(r.rule, first, rd)
                [] r.is = "Err" -> exec_on(r.regs, fallback_rule, first, rd)
                [] r.is = "Some" -> r
  BY DEF with_cache, Finish, At
<1>3a. ASSUME u.is = "Err", u.regs = regs PROVE exec_on(u.regs, fallback_rule, first, rd) = fb
  BY <1>3a DEF exec
<1> HIDE DEF w, u, fb, first
<1>4. CASE At \in fell
  <2>1. w = fb
    BY <1>3, <1>4 DEF ExecRule, fb
  <2>. QED
    BY <1>2, <2>1 DEF w, first
<1>5. CASE At \notin fell /\ u.is = "Err" /\ u.regs = regs /\ ~HasRow
  <2>1. w = fb
    BY <1>3, <1>3a, <1>5
  <2>. QED
    BY <1>2, <2>1 DEF w, first
<1>6. ASSUME At \notin fell, NEW rule \in Rules, u = ExecRule(rule)
      PROVE  Outcome(w) /\ Up(w, first) /\ Advances(w, rd)
  <2>1. w = exec(rule, first, rd)
    BY <1>3, <1>6 DEF ExecRule
  <2>. QED
    BY <1>0, <1>6, <2>1, ExecFrame
<1>7. CASE At \notin fell /\ HasRow
  <2> DEFINE row == Here.row
  <2>0. Here \in InfoOf(Rules)
    BY <1>0, <1>7, FoundType DEF HasRow, Here, first
  <2>1. row \in Rows
    BY <1>7, <2>0 DEF HasRow, InfoOf
  <2>2. u = unwind_row(row, first, rd)
    BY <1>7 DEF HasRow, Here, unwind_frame_impl, unwind_with, u, first
  <2> HIDE DEF row
  <2>3. \/ u = ExecRule(Rule(row)) /\ Rule(row) \in Rules
        \/ /\ Rule(row) = NoRule \/ Signals(row)
           /\ Outcome(u) /\ u.is # "None" /\ (u.is = "Err" => u.regs = regs)
           /\ ~first /\ ~Signals(row) => Up(u, first)
           /\ ~Elsewhere(row) => Advances(u, rd)
    BY <1>0, <2>1, <2>2, RowFrame
  <2>4. CASE u = ExecRule(Rule(row)) /\ Rule(row) \in Rules
    BY <1>6, <1>7, <2>4 DEF w, first
  <2>5. CASE /\ Rule(row) = NoRule \/ Signals(row)
             /\ Outcome(u) /\ u.is # "None" /\ (u.is = "Err" => u.regs = regs)
             /\ ~first /\ ~Signals(row) => Up(u, first)
             /\ ~Elsewhere(row) => Advances(u, rd)
    <3>1. u.is = "Some" \/ u.is = "Err"
      BY <2>5 DEF Outcome
    <3>2. (u.is = "Err" /\ w = fb) \/ (u.is = "Some" /\ w = u)
      BY <1>3, <1>3a, <1>7, <2>5, <3>1
    <3>3. ~Exempt => ~first /\ ~Signals(row)
      BY <1>7, <2>5 DEF Exempt, row, first
    <3>4. Returns => ~Elsewhere(row)
      BY <1>7 DEF Returns, row
    <3>. QED
      BY <1>2, <2>5, <3>2, <3>3, <3>4 DEF w, first
  <2>. QED
    BY <2>3, <2>4, <2>5
<1>8. CASE At \notin fell /\ ~HasRow
  <2>1. u = Failed(regs) \/ \E rule \in Rules : u = ExecRule(rule)
    <3>1. CASE At \notin DOMAIN Info[arch]
      BY <3>1 DEF u, unwind_frame_impl, unwind_with
    <3>2. CASE At \in DOMAIN Info[arch]
      <4> DEFINE i == Here
      <4>1. i \in InfoOf(Rules) /\ i.is # "row"
        BY <1>0, <1>8, <3>2, FoundType DEF HasRow, Here, first
      <4>2. u = CASE i.is = "rule" -> ExecRule(i.rule)
                  [] i.is = "uncovered" -> ExecRule(rule_if_uncovered_by_fde)
                  [] i.is = "row" -> unwind_row(i.row, first, rd)
                  [] i.is = "pe" -> pe_unwind_frame(i, first, regs, rd)
                  [] i.is = "nothing" -> Failed(regs)
        BY <3>2 DEF u, unwind_frame_impl, unwind_with, Here, first
      <4> HIDE DEF i
      <4>. QED
        BY <1>1, <4>1, <4>2 DEF InfoOf
    <3>. QED
      BY <3>1, <3>2
  <2>2. u = Failed(regs) => u.is = "Err" /\ u.regs = regs
    BY DEF Failed
  <2>. QED
    BY <1>5, <1>6, <1>8, <2>1, <2>2 DEF w, first
<1>. QED
  BY <1>4, <1>7, <1>8

LEMMA RestoreFrame ==
  ASSUME NEW rd, Memory(rd), arch = "aarch64", regs \in ArmRegisters
  PROVE  Outcome(restore(regs, rd))
<1> DEFINE fp == SigField(regs, rd, SIG_FP)
           lr == SigField(regs, rd, SIG_LR)
           sp == SigField(regs, rd, SIG_SP)
           pc == SigField(regs, rd, SIG_PC)
           r == restore(regs, rd)
<1>1. \A o : SigField(regs, rd, o) \in Address \cup {Err}
  BY ReadType DEF SigField
<1>2. r = Failed(regs) \/ (Err \notin {fp, lr, sp, pc} /\ r = Caller(pc, TRUE, Moved(regs, sp, fp, lr)))
  <2>1. [regs EXCEPT !.fp = fp, !.sp = sp] = [regs EXCEPT !.sp = sp, !.fp = fp]
    BY DEF ArmRegisters
  <2> HIDE DEF fp, lr, sp, pc
  <2>. QED
    BY <2>1 DEF restore, Moved, fp, lr, sp, pc
<1> HIDE DEF fp, lr, sp, pc, r
<1>3. CASE r = Failed(regs)
  BY <1>3 DEF Failed, Outcome, Registers, r
<1>4. CASE Err \notin {fp, lr, sp, pc} /\ r = Caller(pc, TRUE, Moved(regs, sp, fp, lr))
  <2>1. fp \in Address /\ lr \in Address /\ sp \in Address /\ pc \in Address
    BY <1>1, <1>4 DEF fp, lr, sp, pc
  <2>2. Moved(regs, sp, fp, lr) \in ArmRegisters
    BY <2>1, MovedType
  <2>. QED
    BY <1>4, <2>1, <2>2 DEF Caller, Outcome, Registers, r
<1>. QED
  BY <1>2, <1>3, <1>4

LEMMA AnyFrame ==
  ASSUME WalkTypeOK, NEW rd, Memory(rd)
  PROVE  /\ Outcome(unwind(rd))
         /\ ~Exempt /\ ~is_trampoline(cur_ip) => Up(unwind(rd), cur_addr.first)
         /\ Returns => Advances(unwind(rd), rd)
<1>1. CASE is_trampoline(cur_ip)
  <2>1. arch = "aarch64" /\ regs \in ArmRegisters
    BY <1>1 DEF is_trampoline, WalkTypeOK
  <2>. QED
    BY <1>1, <2>1, RestoreFrame DEF unwind, Advances
<1>2. CASE ~is_trampoline(cur_ip)
  BY <1>2, CacheFrame DEF unwind
<1>. QED
  BY <1>1, <1>2

LEMMA ReadStackType ==
  ASSUME Memory(stack)
  PROVE  Memory(read_stack)
BY DEF Memory, read_stack

-----------------------------------------------------------------------------
(* Walks *)

WalkInv == WalkTypeOK /\ stack \in World[arch].stacks

LEMMA StackIsMemory == WalkInv => Memory(stack)
BY WorldOK DEF WalkInv, WalkTypeOK

\* A frame, with the names StepFrame gives its parts
LEMMA StepParts ==
  ASSUME WalkInv, StepFrame
  PROVE  \E rd, r : /\ rd = read_stack /\ Memory(rd) /\ r = unwind(rd) /\ Outcome(r)
                    /\ ~Exempt /\ ~is_trampoline(cur_ip) => Up(r, cur_addr.first)
                    /\ Returns => Advances(r, rd)
                    /\ LET more == r.is = "Some" /\ r.ra # 0
                       IN  /\ out'.ip = cur_ip /\ out'.sp = regs.sp
                           /\ regs' = r.regs
                           /\ done' = ~more
                           /\ cur_ip' = IF more THEN r.ra ELSE cur_ip
                           /\ cur_addr' = IF more THEN NextAddr(r.ra, r.interrupted) ELSE cur_addr
                           /\ fell' \subseteq fell \cup FallsBack(cur_addr, rd)
                    /\ live' = live /\ windows' = windows
<1>1. Memory(read_stack)
  BY StackIsMemory, ReadStackType
<1>2. /\ Outcome(unwind(read_stack))
      /\ ~Exempt /\ ~is_trampoline(cur_ip) => Up(unwind(read_stack), cur_addr.first)
      /\ Returns => Advances(unwind(read_stack), read_stack)
  BY <1>1, AnyFrame DEF WalkInv
<1>. QED
  BY <1>1, <1>2 DEF StepFrame, Outputs

LEMMA WalkInit == Init => WalkInv
<1> SUFFICES ASSUME Init PROVE WalkInv
  OBVIOUS
<1>1. arch \in DOMAIN Info /\ 0 \in Address /\ Word - 1 \in Address
  BY SizesOK DEF Init, Address
<1>2. regs \in IF arch = "x86_64" THEN X86Registers ELSE ArmRegisters
  BY <1>1, StripType DEF Init, make_regs, zeroed, X86Registers, ArmRegisters
<1>3. fell \in SUBSET DOMAIN Info[arch]
  BY <1>1, WorldOK DEF Init
<1>. QED
  BY <1>1, <1>2, <1>3 DEF Init, WalkInv, WalkTypeOK, InstructionPointer

LEMMA WalkStep == WalkInv /\ [Next]_vars => WalkInv'
<1> SUFFICES ASSUME WalkInv, [Next]_vars PROVE WalkInv'
  OBVIOUS
<1>0. WalkTypeOK /\ stack \in World[arch].stacks
  BY DEF WalkInv
<1>1. CASE Start
  <2>1. PICK cpu \in World[arch].contexts, present \in BOOLEAN, w \in World[arch].windows :
          cursor_init_bounds2(context_from_os(present, cpu), <<0, 0>>, w[1], w[2])
    BY <1>1 DEF Start
  <2> DEFINE ctx == context_from_os(present, cpu)
             mask == ptr_auth_mask(max_code_addr)
  <2>2. 0 \in Address /\ mask \in Address
    BY SizesOK, InfoOK DEF Address
  <2>3. cpu \in [ip : Address, sp : Address, fp : Address, lr : Address]
    BY <1>0, WorldOK DEF WalkTypeOK
  <2> HIDE DEF mask
  <2>4. ctx \in [ip : Address, sp : Address, fp : Address, lr : Address]
    BY <2>2, <2>3 DEF context_from_os, zeroed
  <2>5. /\ live' = TRUE /\ regs' = make_regs(ctx, mask) /\ cur_addr' = InstructionPointer(ctx.ip)
        /\ cur_ip' = ctx.ip /\ done' = FALSE /\ fell' = fell
    BY <2>1 DEF cursor_init_bounds2, mask
  <2> HIDE DEF ctx
  <2>6. make_regs(ctx, mask) \in IF arch = "x86_64" THEN X86Registers ELSE ArmRegisters
    BY <2>2, <2>4, StripType DEF make_regs, X86Registers, ArmRegisters
  <2>. QED
    BY <1>0, <1>1, <2>4, <2>5, <2>6 DEF WalkInv, WalkTypeOK, Start, InstructionPointer
<1>2. CASE Step
  <2>1. arch' = arch /\ stack' = stack /\ StepFrame
    BY <1>2 DEF Step
  <2>2. PICK rd, r : /\ Outcome(r) /\ regs' = r.regs /\ live' = live
                     /\ LET more == r.is = "Some" /\ r.ra # 0
                        IN  /\ done' = ~more
                            /\ cur_ip' = IF more THEN r.ra ELSE cur_ip
                            /\ cur_addr' = IF more THEN NextAddr(r.ra, r.interrupted) ELSE cur_addr
                            /\ fell' \subseteq fell \cup FallsBack(cur_addr, rd)
    BY <2>1, StepParts
  <2>3. regs' \in IF arch = "x86_64" THEN X86Registers ELSE ArmRegisters
    BY <2>2 DEF Outcome, Registers
  <2>4. fell' \in SUBSET DOMAIN Info[arch]
    BY <1>0, <2>2 DEF WalkTypeOK, FallsBack
  <2>5. /\ cur_ip' \in Address /\ cur_addr' \in [address : Address, first : BOOLEAN]
        /\ ~cur_addr'.first => cur_addr'.address > 0
    <3>1. CASE r.is = "Some" /\ r.ra # 0
      <4>1. r.ra \in Address /\ r.ra > 0
        BY <2>2, <3>1, SizesOK DEF Outcome, Address
      <4>. QED
        BY <2>2, <3>1, <4>1 DEF NextAddr, InstructionPointer, ReturnAddress
    <3>2. CASE ~(r.is = "Some" /\ r.ra # 0)
      BY <1>0, <2>2, <3>2 DEF WalkTypeOK
    <3>. QED
      BY <3>1, <3>2
  <2>6. live' \in BOOLEAN /\ done' \in BOOLEAN
    BY <1>0, <2>2 DEF WalkTypeOK
  <2>. QED
    BY <1>0, <2>1, <2>3, <2>4, <2>5, <2>6 DEF WalkInv, WalkTypeOK
<1>3. CASE StepAgain \/ Fini \/ UNCHANGED vars
  BY <1>0, <1>3 DEF WalkInv, WalkTypeOK, StepAgain, StepEnded, Fini, cursor_fini, vars, walk
<1>. QED
  BY <1>1, <1>2, <1>3 DEF Next

LEMMA WalkInvCorrect == Spec => []WalkInv
BY WalkInit, WalkStep, PTL DEF Spec

\* Registers, addresses and cache entries keep their types through every rule and
\* row, whatever memory holds: the sums of exec and of the evaluation of a row are
\* all checked or wrapped (unwind_rule.rs, dwarf.rs).
THEOREM WalkTypeCorrect == Spec => []WalkTypeOK
<1>1. WalkInv => WalkTypeOK
  BY DEF WalkInv
<1>. QED
  BY <1>1, WalkInvCorrect, PTL

LEMMA StackType == WalkInv => regs.sp \in Nat /\ regs.sp < Word
<1>1. WalkInv => regs.sp \in Address
  BY DEF WalkInv, WalkTypeOK, X86Registers, ArmRegisters
<1>. QED
  BY <1>1, SizesOK DEF Address

\* What grows from frame to frame is bounded: no walk has more than 2 * Word frames
\* in a row that raise it (the stack pointer of UnwindRegs is a u64).
THEOREM RankBounded == Spec => [](Rank \in 0 .. 2 * Word - 1)
<1>1. WalkInv => Rank \in 0 .. 2 * Word - 1
  BY StackType, SizesOK DEF Rank
<1>. QED
  BY <1>1, WalkInvCorrect, PTL

\* The checks of exec and of the generic path make each frame lie above its callee,
\* for any stack, any rules and any rows (x86_64 and aarch64 unwind_rule.rs, dwarf.rs),
\* and those for DidNotAdvance let no two frames in a row keep its stack pointer: the
\* rank rises with each frame.
THEOREM FramesMoveUp == Spec => SpMovesUp
<1>1. ASSUME WalkInv, Step, ~done', ~AtSignalFrame, ~(cur_addr.first /\ OnlyGeneric)
      PROVE  /\ regs'.sp >= regs.sp
             /\ Rank' > Rank \/ ReturnsElsewhere \/ (arch = "aarch64" /\ cur_addr.first)
  <2>1. PICK rd, r : /\ rd = read_stack /\ Outcome(r)
                     /\ regs' = r.regs /\ done' = ~(r.is = "Some" /\ r.ra # 0)
                     /\ ~Exempt /\ ~is_trampoline(cur_ip) => Up(r, cur_addr.first)
                     /\ Returns => Advances(r, rd)
                     /\ windows' = windows
    BY <1>1, StepParts DEF Step
  <2>2. r.is = "Some"
    BY <1>1, <2>1
  <2>3. ~Exempt
    BY <1>1 DEF Exempt, HasRow, Here, At, Signals, Rule, AtSignalFrame, OnlyGeneric, CurrentRow
  <2>4. ~is_trampoline(cur_ip)
    BY <1>1 DEF AtSignalFrame, is_trampoline
  <2>5. regs'.sp >= regs.sp + (IF arch = "aarch64" /\ ~cur_addr.first THEN 1 ELSE 0)
    BY <2>1, <2>2, <2>3, <2>4 DEF Up
  <2>6. regs.sp \in Nat /\ regs'.sp \in Nat
    <3>1. \A R \in Registers : R.sp \in Nat
      BY ErrIsNoAddress DEF Registers, X86Registers, ArmRegisters
    <3>. QED
      BY <1>1, <2>1, <3>1, StackType DEF Outcome
  <2>7. regs'.sp >= regs.sp
    BY <2>5, <2>6
  <2>8. CASE regs'.sp > regs.sp
    <3>1. Rank \in {2 * regs.sp, 2 * regs.sp + 1} /\ Rank' \in {2 * regs'.sp, 2 * regs'.sp + 1}
      BY <2>6 DEF Rank
    <3>. QED
      BY <2>6, <2>7, <2>8, <3>1
  <2>9. CASE regs'.sp = regs.sp /\ ~ReturnsElsewhere /\ arch = "x86_64"
    <3>1. Returns
      BY <2>9 DEF Returns, HasRow, Here, At, Elsewhere, ReturnsElsewhere, CurrentRow
    <3>2. /\ regs'.ip = Read(rd, (regs'.sp - 8) % Word)
          /\ ~(regs'.sp = regs.sp /\ regs'.ip = regs.ip)
      BY <2>1, <2>2, <2>9, <3>1 DEF Advances, Fresh
    <3>3. read_stack' = read_stack /\ arch' = arch
      BY <1>1, <2>1 DEF Step, read_stack
    <3>4. AtReturn' /\ ~AtReturn
      BY <2>1, <2>9, <3>2, <3>3 DEF AtReturn
    <3>. QED
      BY <2>6, <2>7, <2>9, <3>4 DEF Rank
  <2>10. arch = "x86_64" \/ arch = "aarch64"
    BY <1>1, Architectures DEF WalkInv, WalkTypeOK
  <2>. QED
    BY <2>5, <2>6, <2>7, <2>8, <2>9, <2>10
<1>. QED
  BY <1>1, WalkInvCorrect, PTL DEF Spec, SpMovesUp

\* A step that ends the walk leaves the frame it reported in place (cursor.rs, step:
\* cur_ip and cur_addr change only when there is a caller).
THEOREM EndKeepsFrame == Spec => LastFrameStays
<1>1. ASSUME WalkInv, Step, done'
      PROVE  get_reg'.ip = out'.ip /\ (FoundNull \/ get_reg'.sp = out'.sp)
  <2>1. live
    BY <1>1 DEF Step, StepFrame
  <2>2. PICK rd, r : /\ rd = read_stack /\ r = unwind(rd) /\ Outcome(r) /\ live' = live
                     /\ LET more == r.is = "Some" /\ r.ra # 0
                        IN  /\ out'.ip = cur_ip /\ out'.sp = regs.sp /\ regs' = r.regs
                            /\ done' = ~more /\ cur_ip' = IF more THEN r.ra ELSE cur_ip
    BY <1>1, StepParts DEF Step
  <2>3. ~(r.is = "Some" /\ r.ra # 0)
    BY <1>1, <2>2
  <2>4. get_reg' = [ip |-> cur_ip', sp |-> regs'.sp]
    BY <2>1, <2>2 DEF get_reg
  <2>5. FoundNull \/ r.regs.sp = regs.sp
    BY <2>2, <2>3 DEF FoundNull, Outcome
  <2>. QED
    BY <2>2, <2>3, <2>4, <2>5
<1>. QED
  BY <1>1, WalkInvCorrect, PTL DEF Spec, LastFrameStays
=============================================================================
