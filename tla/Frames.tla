------------------------------- MODULE Frames -------------------------------
(* What the unwinding of one frame is built from on both architectures: checked
   arithmetic on addresses, reads of the stack, the results of a step, and the
   rows of call frame information with their evaluation
   (vendor/framehop/src/dwarf.rs, add_signed.rs).

   Addresses are bytes and the machine word has 8 of them, as in the code; the
   address space has Word addresses instead of 2^64, and the 16-bit fields of a
   rule have U16 values instead of 2^16. rd is read_stack, as the function from
   the addresses it can read. regs is a record with a field for each register the
   unwinder follows. *)
EXTENDS Integers, Sequences, FiniteSets

CONSTANTS Word, U16, Err

ASSUME SizesOK == /\ Word \in Nat /\ Word > 32 /\ Word % 2 = 0
                  /\ U16 \in Nat /\ U16 > 3 /\ U16 % 2 = 0
                  /\ Err \notin Int

Address == 0 .. Word - 1
Half == Word \div 2       \* i64::MAX + 1
\* Memory holds words at addresses.
Memory(rd) == DOMAIN rd \subseteq Address /\ \A a \in DOMAIN rd : rd[a] \in Address
Read(rd, a) == IF a \in DOMAIN rd THEN rd[a] ELSE Err

checked_add_Plain(a, d) == a + d
\* u64::checked_add, and checked_add_signed
checked_add(a, d) == IF a + d \in Address THEN a + d ELSE Err

\* Division of the code's integers truncates.
DivTrunc(n, d) == IF n >= 0 THEN n \div d ELSE -((-n) \div d)
U16s == 0 .. U16 - 1
I16s == -(U16 \div 2) .. (U16 \div 2) - 1

\* What unwinding a frame can return, with the registers it leaves behind. A row or
\* compact entry may also ask for a rule to be executed.
Caller(ra, interrupted, regs) ==
  [is |-> "Some", ra |-> ra, interrupted |-> interrupted, regs |-> regs]
StackEnds(regs) == [is |-> "None", regs |-> regs]
Failed(regs) == [is |-> "Err", regs |-> regs]
ExecRule(rule) == [is |-> "ExecRule", rule |-> rule]

UseFramePointer == [is |-> "UseFramePointer"]     \* the fallback rule of both

-----------------------------------------------------------------------------
(* Rows. A row has a rule for the CFA, one for the frame pointer, one for the
   return address and the signal-frame flag of its CIE. An expression is abstracted
   to the value of a register plus an offset, read from the stack if deref. *)

Regs == {"ip", "lr", "sp", "fp", "other"}
CfaAt(reg, offset) == [is |-> "RegisterAndOffset", reg |-> reg, offset |-> offset]
Expr(reg, offset, deref) == [reg |-> reg, offset |-> offset, deref |-> deref]
CfaExpr(e) == [is |-> "Expression", expr |-> e]

Missing == [is |-> "Missing"]           \* the row has no rule for the register
Undefined == [is |-> "Undefined"]
SameValue == [is |-> "SameValue"]
Offset(n) == [is |-> "Offset", offset |-> n]
ValOffset(n) == [is |-> "ValOffset", offset |-> n]
Register(r) == [is |-> "Register", reg |-> r]
Expression(e) == [is |-> "Expression", expr |-> e]
ValExpression(e) == [is |-> "ValExpression", expr |-> e]

Exprs == [reg : Regs, offset : Int, deref : BOOLEAN]
CfaRules == [is : {"RegisterAndOffset"}, reg : Regs, offset : Int]
            \cup [is : {"Expression"}, expr : Exprs]
RegisterRules == [is : {"Missing", "Undefined", "SameValue"}]
                 \cup [is : {"Offset", "ValOffset"}, offset : Int]
                 \cup [is : {"Register"}, reg : Regs]
                 \cup [is : {"Expression", "ValExpression"}, expr : Exprs]
Rows == [cfa : CfaRules, fp : RegisterRules, ra : RegisterRules, signal : BOOLEAN]
Row(cfa, fp, ra, signal) == [cfa |-> cfa, fp |-> fp, ra |-> ra, signal |-> signal]

\* DwarfUnwindRegs::get
RegValue(regs, r) == IF r \in DOMAIN regs THEN regs[r] ELSE Err

\* u64 -> i64, checked_add, -> u64
SignedAdd(v, d) == IF v # Err /\ v < Half /\ v + d \in 0 .. Half - 1 THEN v + d ELSE Err

\* The evaluator's arithmetic wraps.
eval_expr(e, regs, rd) ==
  LET v == RegValue(regs, e.reg)
      a == (v + e.offset) % Word
  IN  IF v = Err THEN Err ELSE IF e.deref THEN Read(rd, a) ELSE a

eval_cfa_rule(cfa, regs, rd) ==
  IF cfa.is = "Expression" THEN eval_expr(cfa.expr, regs, rd)
  ELSE SignedAdd(RegValue(regs, cfa.reg), cfa.offset)

eval_register_rule(rule, cfa, val, regs, rd) ==
  CASE rule.is = "SameValue" -> val
    [] rule.is = "Offset" -> Read(rd, SignedAdd(cfa, rule.offset))
    [] rule.is = "ValOffset" -> SignedAdd(cfa, rule.offset)
    [] rule.is = "Register" -> RegValue(regs, rule.reg)
    [] rule.is = "Expression" -> Read(rd, eval_expr(rule.expr, regs, rd))
    [] rule.is = "ValExpression" -> eval_expr(rule.expr, regs, rd)
    [] OTHER -> Err

\* A row that has no cacheable rule takes the generic path.
NoRule == [is |-> "NoRule"]

Storage_Ignored(rule) == "kept"
\* register_rule_to_cfa_offset: a register is stored at an offset from the CFA, or
\* kept, or neither can be said.
Storage(rule) ==
  CASE rule.is \in {"Missing", "Undefined", "SameValue"} -> "kept"
    [] rule.is = "Offset" -> "stored"
    [] OTHER -> "no"

=============================================================================
