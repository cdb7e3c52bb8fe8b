--------------------------------- MODULE Pe ---------------------------------
(* Windows x64 unwind information (vendor/framehop/src/pe.rs, x86_64/pe.rs): the
   rules made of unwind operations or of the rest of an epilogue, the packing of a
   rule's registers into 16 bits (unwind_rule.rs, register_ordering.rs), and the path
   for what no rule can express. Pure operators.

   What the lookup of an address finds is a record: covered says whether the
   function table has the address. If so, parsed and text say whether its unwind
   information and its instructions could be read, offset is the one in the function,
   epilog has the instructions to come if they form an epilogue, else Err, ops has
   the unwind operations of the function with the offsets of their instructions, the
   latest first, and chained those of the entries it is chained to, or Err if one
   could not be read. A frame register is rbp. The parser and resolve_operation are
   those of the crate pe_unwind_info. *)
EXTENDS X86

\* Operations and instructions. Save is a register stored at an offset from sp.
Alloc(n) == [op |-> "Alloc", n |-> n]           \* UnStackAlloc, AddSP
Pop(r) == [op |-> "Pop", reg |-> r]             \* PopNonVolatile, Pop
SpFromFp(n) == [op |-> "SpFromFp", n |-> n]     \* RestoreSPFromFP, AddSPFromFP
Save(r, n) == [op |-> "Save", reg |-> r, n |-> n]
MachineFrame(n) == [op |-> "MachineFrame", n |-> n]

-----------------------------------------------------------------------------
(* Rules *)

Swapped(s, i, j) == [s EXCEPT ![i] = s[j], ![j] = s[i]]

\* The digits of a number with a mixed base: for each register its position among
\* those that are not used yet. A register that is not there cannot be encoded.
encode(registers) ==
  LET n == Len(registers)
      Position(order, i) == {k \in i .. 8 : order[k] = registers[i]}
      order[i \in 0 .. n] ==
        IF i = 0 THEN ENCODE_REGISTERS
        ELSE IF order[i - 1] = Err \/ Position(order[i - 1], i) = {} THEN Err
        ELSE Swapped(order[i - 1], i, CHOOSE k \in Position(order[i - 1], i) : TRUE)
      scale[i \in 1 .. n + 1] == IF i = 1 THEN 1 ELSE scale[i - 1] * (10 - i)
      r[i \in 0 .. n] ==
        IF i = 0 THEN 0
        ELSE r[i - 1] + ((CHOOSE k \in Position(order[i - 1], i) : TRUE) - i) * scale[i]
  IN  IF n > 8 \/ order[n] = Err THEN Err ELSE [count |-> n, ordering |-> r[n]]

decode(e) ==
  LET rest[i \in 0 .. 8] == IF i = 0 THEN e.ordering ELSE rest[i - 1] \div (9 - i)
      order[i \in 0 .. 8] ==
        IF i = 0 THEN ENCODE_REGISTERS
        ELSE Swapped(order[i - 1], i, i + (rest[i - 1] % (9 - i)))
  IN  SubSeq(order[8], 1, e.count)

\* The offset that an operation or instruction adds to sp, if it fits into a rule.
OffsetBy8(op) == IF op.op = "Alloc" /\ op.n \div 8 \in U16s THEN op.n \div 8 ELSE Err

\* An offset, if any, then pops only, as one rule. exec decodes the registers.
for_sequence_of_offset_or_pop(ops) ==
  LET n    == IF ops # <<>> /\ OffsetBy8(ops[1]) # Err THEN 1 ELSE 0
      sp8  == IF n = 1 THEN OffsetBy8(ops[1]) ELSE 0
      pops == SubSeq(ops, n + 1, Len(ops))
      e    == encode([i \in DOMAIN pops |-> pops[i].reg])
  IN  IF \E i \in DOMAIN pops : pops[i].op # "Pop" THEN NoRule
      ELSE IF pops = <<>> /\ sp8 = 0 THEN JustReturn
      ELSE IF e = Err THEN NoRule
      ELSE OffsetSpAndPopRegisters(sp8, decode(e))

-----------------------------------------------------------------------------
(* The other path. A state has the registers, whether an operation failed, and the
   return address if a machine frame gave it. Sums wrap in a release build. *)

Add(a, d) == (a + d) % Word
SetReg(regs, r, v) == IF r = "rbp" THEN [regs EXCEPT !.fp = v] ELSE regs
State(regs) == [regs |-> regs, failed |-> FALSE, ra |-> Err]

\* One operation or instruction. A register that is not followed has its slot, too.
resolve_operation(s, op, rd) ==
  LET regs == s.regs
      at == CASE op.op = "Pop" -> regs.sp [] op.op = "Save" -> Add(regs.sp, op.n)
              [] op.op = "MachineFrame" -> Add(regs.sp, op.n) [] OTHER -> 0
      v  == Read(rd, at)
  IN  IF s.failed \/ s.ra # Err THEN s
      ELSE CASE op.op = "Alloc" -> [s EXCEPT !.regs.sp = Add(@, op.n)]
             [] op.op = "SpFromFp" -> [s EXCEPT !.regs.sp = Add(regs.fp, op.n)]
             [] op.op \in {"Pop", "Save"} /\ v = Err -> [s EXCEPT !.failed = TRUE]
             [] op.op = "Pop" /\ v # Err -> [s EXCEPT !.regs = [SetReg(regs, op.reg, v) EXCEPT !.sp = Add(@, 8)]]
             [] op.op = "Save" /\ v # Err -> [s EXCEPT !.regs = SetReg(regs, op.reg, v)]
             [] op.op = "MachineFrame" ->
                  LET sp == Read(rd, Add(at, 24))
                  IN  IF v = Err \/ sp = Err THEN [s EXCEPT !.failed = TRUE]
                      ELSE [s EXCEPT !.regs.sp = sp, !.ra = v]

\* All of them, then the return address. Registers that were changed before a
\* failure stay so; ip is not set.
resolve(ops, regs, rd) ==
  LET state[i \in 0 .. Len(ops)] ==
        IF i = 0 THEN State(regs) ELSE resolve_operation(state[i - 1], ops[i], rd)
      s  == state[Len(ops)]
      ra == Read(rd, s.regs.sp)
  IN  IF s.failed \/ (s.ra = Err /\ ra = Err) THEN Failed(s.regs)
      ELSE IF s.ra # Err THEN Caller(s.ra, FALSE, s.regs)
      ELSE Caller(ra, FALSE, [s.regs EXCEPT !.sp = Add(@, 8)])

-----------------------------------------------------------------------------

\* The operations whose instructions have been executed.
operations(info) ==
  LET done == {i \in DOMAIN info.ops : info.ops[i].offset <= info.offset}
      from == IF done = {} THEN Len(info.ops) + 1 ELSE CHOOSE i \in done : \A j \in done : i <= j
  IN  [i \in 1 .. Len(info.ops) + 1 - from |-> info.ops[from + i - 1].what] \o info.chained

\* Unwind operations do not describe epilogues: in a first frame, what is left of one
\* is carried out instead.
pe_unwind_frame(info, first, regs, rd) ==
  LET Do(ops) == LET rule == for_sequence_of_offset_or_pop(ops)
                 IN  IF rule # NoRule THEN ExecRule(rule) ELSE resolve(ops, regs, rd)
  IN  IF ~info.covered THEN ExecRule(JustReturn)
      ELSE IF ~info.parsed \/ (first /\ ~info.text) THEN Failed(regs)
      ELSE IF first /\ info.epilog # Err THEN Do(info.epilog)
      ELSE IF info.chained = Err THEN Failed(regs)
      ELSE Do(operations(info))

=============================================================================
