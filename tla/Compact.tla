------------------------------ MODULE Compact -------------------------------
(* Mach-O compact unwind information: the lookup and its order of decisions
   (vendor/framehop/src/macho.rs), the opcodes of each architecture (macho.rs under
   x86_64 and aarch64), and the analysis of a function's instructions, by which a
   first frame is recognised to be in a prologue or epilogue
   (instruction_analysis). Pure operators.

   What the lookup of an address finds is a record: the part of the image it is in,
   its offset in this part, and for a function the opcode and the code, <<>> if the
   text bytes are missing. Code is a sequence of instructions, each given by what the
   analysis decodes of it, and offsets count instructions, but bytes in
   __stub_helper. at instructions lie before the one that is next. *)
EXTENDS X86, Arm64

\* The run of instructions of a kind that ends with the first at ones, and the run
\* right after them; a kind is given by the places of its instructions in the code.
Before(kind, at) == {i \in 1 .. at : i .. at \subseteq kind}
After(kind, at) == {i \in kind : i > at /\ at + 1 .. i \subseteq kind}

\* A Dwarf entry whose FDE cannot be read counts as an unknown one: both fail.
Opcodes(x86) ==
  [is : {"Null", "FrameBased", "UnrecognizedKind"}] \cup [is : {"Dwarf"}, row : Rows]
  \cup IF x86 THEN [is : {"InvalidFrameless"}]
                   \cup [is : {"FramelessImmediate"}, size : U16s, saved : Seq(Saved)]
                   \cup [is : {"FramelessIndirect"}, imm : Nat \cup {Err}, adjust : Nat, saved : Seq(Saved)]
       ELSE [is : {"Frameless"}, size : U16s]
X86Instructions == STRING
ArmInstructions ==
  [op : STRING \ {"sub", "add", "store", "load"}] \cup [op : {"sub", "add"}, imm : Int]
  \cup [op : {"store", "load"}, wb : {"pre", "post", "no"}, imm : Int, fp : {0, 8, Err}, lr : {0, 8, Err}]
CompactInfo(x86) ==
  [is : {"compact"}, part : {"stubs", "stub_helper", "outside"}, at : Nat]
  \cup {i \in [is : {"compact"}, part : {"function"}, at : Nat, opcode : Opcodes(x86),
               code : Seq(IF x86 THEN X86Instructions ELSE ArmInstructions)] :
          i.code = <<>> \/ i.at < Len(i.code)}

-----------------------------------------------------------------------------
(* x86_64. "push" and "pop" are of rbp, "push_r" and "pop_r" of another register,
   "mov" is mov rbp, rsp. *)

IsPush(i) == i \in {"push", "push_r"}
IsPop(i) == i \in {"pop", "pop_r"}
Pushes(code) == {i \in DOMAIN code : IsPush(code[i])}
Pops(code) == {i \in DOMAIN code : IsPop(code[i])}
AsI16(n) == IF n < U16 \div 2 THEN n ELSE n - U16

\* The instruction that is next belongs to a prologue: the pushes before it are
\* counted, back to the one that sets up a frame pointer.
prologue_x86(code, at) ==
  LET pushes == Cardinality(Before(Pushes(code), at))
      start  == at - pushes
  IN  IF ~IsPush(code[at + 1]) /\ code[at + 1] \notin {"sub", "mov"} THEN NoRule
      ELSE IF start > 1 /\ code[start] = "mov" /\ code[start - 1] = "push" THEN UseFramePointer
      ELSE OffsetSp((pushes + 1) % U16)

\* From here on there are only pops, until a return or a jump that follows one.
epilogue_x86(code, at) ==
  LET run  == After(Pops(code), at)
      pops == Cardinality(run)
      end  == at + pops + 1
      bp   == Cardinality({i \in run : \E j \in run : i <= j /\ code[j] = "pop"})
  IN  IF \/ end > Len(code)
         \/ code[end] \notin {"ret", "jmp"}
         \/ code[end] = "jmp" /\ (end = 1 \/ ~IsPop(code[end - 1])) THEN NoRule
      ELSE IF pops = 0 THEN JustReturn
      ELSE IF bp = 0 THEN OffsetSp((pops + 1) % U16)
      ELSE OffsetSpAndRestoreBp((pops + 1) % U16, AsI16((bp - 1) % U16))

analysis_x86(code, at) ==
  IF prologue_x86(code, at) # NoRule THEN prologue_x86(code, at) ELSE epilogue_x86(code, at)

\* size is that of the frame with its return address, saved has the registers that
\* were pushed, the outermost last.
frameless_x86(size, saved) ==
  LET bps == {i \in DOMAIN saved : saved[i] = "rbp"}
      bp8 == DivTrunc(size - 16 - 8 * (Len(saved) - CHOOSE i \in bps : TRUE), 8)
  IN  IF size \div 8 \notin U16s THEN NoRule
      ELSE IF bps = {} THEN OffsetSp(size \div 8)
      ELSE IF bp8 \notin I16s THEN NoRule
      ELSE OffsetSpAndRestoreBp(size \div 8, bp8)

\* The body of a function. An indirect size is the immediate of its sub instruction,
\* Err if that cannot be read, plus an adjustment.
opcode_x86(op) ==
  CASE op.is = "FramelessImmediate" -> IF op.size = 8 THEN JustReturn ELSE frameless_x86(op.size, op.saved)
    [] op.is = "FramelessIndirect" -> IF op.imm = Err THEN NoRule ELSE frameless_x86(op.imm + op.adjust, op.saved)
    [] op.is = "FrameBased" -> UseFramePointer
    [] op.is = "Dwarf" -> op
    [] OTHER -> NoRule            \* Null, unknown or invalid

function_x86(op, code, at, first) ==
  IF first /\ code # <<>> /\ analysis_x86(code, at) # NoRule THEN analysis_x86(code, at)
  ELSE IF ~first \/ op.is # "Null" THEN opcode_x86(op)
  ELSE IF Len(code) > 1 /\ code[1] = "push" /\ code[2] = "mov" THEN UseFramePointer
  ELSE JustReturn

\* The stubs push an index and jump to the shared code in front of them, which
\* pushes another word.
stub_helper_x86(offset) ==
  CASE offset < 7 -> OffsetSp(2)
    [] offset >= 7 /\ offset < 16 -> OffsetSp(3)
    [] OTHER -> IF (offset - 16) % 10 < 5 THEN JustReturn ELSE OffsetSp(2)

-----------------------------------------------------------------------------
(* aarch64. An instruction is a record with an op: "pacibsp", "fp" (x29 is set from
   sp), "store" and "load" of a pair relative to sp, with the offset imm and the
   writeback wb ("pre", "post" or "no"), for a load also where in the pair fp and lr
   are (0, 8 or Err), "sub" and "add" of imm to sp, "ret", "b", "br", and the ones of
   an authenticated tail call; or any other. *)

\* What an instruction to come says of a prologue.
prologue_type(i) ==
  CASE i.op \in {"pacibsp", "fp", "sub"} -> "likely"
    [] i.op = "store" -> IF i.wb = "no" THEN "maybe" ELSE "likely"
    [] OTHER -> "no"
\* How much sp moved in an instruction of a prologue that was executed.
Undone(i) ==
  CASE i.op = "sub" -> i.imm
    [] i.op = "store" /\ i.wb # "no" -> -i.imm
    [] OTHER -> 0

prologue_arm(code, at) ==
  LET kind  == {i \in DOMAIN code : code[i].op \in {"pacibsp", "store", "sub"}}
      start == at - Cardinality(Before(kind, at))
      moved[i \in start .. at] == IF i = start THEN 0 ELSE moved[i - 1] + Undone(code[i])
      next  == prologue_type(code[at + 1])
      sp16  == DivTrunc(moved[at], 16)
  IN  IF next = "no" \/ (next = "maybe" /\ moved[at] = 0) \/ sp16 \notin U16s THEN NoRule
      ELSE IF sp16 = 0 THEN NoOp ELSE AOffsetSp(sp16)

\* autibsp at i is followed by a check of the address and a tail call.
is_auth_tail_call(code, i) ==
  LET Op(k) == IF i + k \in DOMAIN code THEN code[i + k].op ELSE "none"
  IN  /\ i > 0 /\ Op(0) = "autibsp" /\ Op(1) = "eor" /\ Op(2) = "tbz" /\ Op(3) = "brk"
      /\ Op(4) = "b" \/ (Op(4) = "mov_x16" /\ Op(5) = "braa")
\* How far behind each of these the autibsp would be.
AuthOffset == [autibsp |-> 0, eor |-> 1, tbz |-> 2, brk |-> 3, b |-> 4, br |-> 4, mov_x16 |-> 4, braa |-> 5]
adjusts_sp(i) == i.op = "add" \/ (i.op = "load" /\ i.wb # "no")

\* sp, and where fp and lr are loaded from, all relative to sp at first.
Loads(s, i) ==
  LET base == IF i.wb = "post" THEN s.sp ELSE s.sp + i.imm
  IN  [sp |-> IF i.wb = "no" THEN s.sp ELSE s.sp + i.imm,
       fp |-> IF i.fp = Err THEN s.fp ELSE base + i.fp,
       lr |-> IF i.lr = Err THEN s.lr ELSE base + i.lr]
RestoreRule(s) ==
  LET sp16 == DivTrunc(s.sp, 16)
      fp8  == DivTrunc(s.fp, 8)
      lr8  == DivTrunc(s.lr, 8)
  IN  IF sp16 \notin U16s \/ (s.fp # Err /\ s.lr = Err) THEN NoRule
      ELSE IF s.lr = Err THEN IF sp16 = 0 THEN NoOp ELSE AOffsetSp(sp16)
      ELSE IF lr8 \notin I16s THEN NoRule
      ELSE IF s.fp = Err THEN OffsetSpAndRestoreLr(sp16, lr8)
      ELSE IF fp8 \notin I16s THEN NoRule ELSE OffsetSpAndRestoreFpAndLr(sp16, fp8, lr8)

\* Within a tail call nothing is left to restore. Otherwise loads and additions to
\* sp lead to a return or a tail call.
epilogue_arm(code, at) ==
  LET kind == {i \in DOMAIN code : code[i].op \in {"load", "add"}}
      next == code[at + 1].op
      end  == at + Cardinality(After(kind, at)) + 1
      state[i \in at .. end - 1] ==
        IF i = at THEN [sp |-> 0, fp |-> Err, lr |-> Err]
        ELSE IF code[i].op = "add" THEN [state[i - 1] EXCEPT !.sp = @ + code[i].imm]
        ELSE Loads(state[i - 1], code[i])
  IN  IF next \in DOMAIN AuthOffset
      THEN IF \/ is_auth_tail_call(code, at + 1 - AuthOffset[next])
              \/ next \in {"b", "br"} /\ at > 0 /\ adjusts_sp(code[at])
           THEN NoOp ELSE NoRule
      ELSE IF next \notin {"ret", "load", "add"} \/ end > Len(code) THEN NoRule
      ELSE IF \/ code[end].op = "ret"
              \/ is_auth_tail_call(code, end)
              \/ code[end].op = "b" /\ state[end - 1].sp # 0
      THEN RestoreRule(state[end - 1])
      ELSE NoRule

analysis_arm(code, at) ==
  IF prologue_arm(code, at) # NoRule THEN prologue_arm(code, at) ELSE epilogue_arm(code, at)

\* A caller cannot be frameless: it would have lost its return address.
opcode_arm(op, first) ==
  CASE op.is = "Frameless" -> IF ~first THEN NoRule
                              ELSE IF op.size = 0 THEN NoOp ELSE AOffsetSp(op.size \div 16)
    [] op.is = "FrameBased" -> UseFramePointer
    [] op.is = "Dwarf" -> op
    [] OTHER -> NoRule

function_arm(op, code, at, first) ==
  IF first /\ op.is = "Null" THEN NoOp
  ELSE IF first /\ code # <<>> /\ analysis_arm(code, at) # NoRule THEN analysis_arm(code, at)
  ELSE opcode_arm(op, first)

stub_helper_arm(offset) == IF offset >= 12 /\ offset < 24 THEN AOffsetSp(1) ELSE NoOp

-----------------------------------------------------------------------------

\* The rule for an address, NoRule for an error, or the opcode Dwarf with its row.
\* Stubs are never callers. A first frame that nothing covers is taken for a stub.
compact_unwind_frame(x86, info, first) ==
  LET bare == IF x86 THEN JustReturn ELSE NoOp      \* of a stub and of a function's start
  IN  CASE info.part = "stubs" -> IF first THEN bare ELSE NoRule
        [] info.part = "stub_helper" ->
             IF ~first THEN NoRule
             ELSE IF x86 THEN stub_helper_x86(info.at) ELSE stub_helper_arm(info.at)
        [] info.part = "outside" -> IF first THEN bare ELSE NoRule
        [] info.part = "function" ->
             IF first /\ info.at = 0 THEN bare
             ELSE IF x86 THEN function_x86(info.opcode, info.code, info.at, first)
             ELSE function_arm(info.opcode, info.code, info.at, first)

=============================================================================
