---------------------------- MODULE MCWildStack -----------------------------
(* Some words of memory, on x86_64 the last of the address space among them, and
   a row or rule of each kind. *)
EXTENDS WildStack

RowOf(cfa, fp, ra, signal) == [is |-> "row", row |-> Row(cfa, fp, ra, signal)]
CompactAt(at, code, opcode) ==
  [is |-> "compact", part |-> "function", at |-> at, code |-> code, opcode |-> opcode]
X86Info ==
  << RowOf(CfaAt("sp", 16), SameValue, Offset(-8), FALSE),
     RowOf(CfaAt("fp", 16), Offset(-16), Offset(-8), FALSE),
     RowOf(CfaAt("fp", 8), Missing, Offset(-8), FALSE),
     RowOf(CfaAt("sp", 0), Offset(-16), Offset(-8), FALSE),
     RowOf(CfaAt("sp", 24), Offset(-16), Offset(-8), FALSE),
     [is |-> "uncovered"],
     [is |-> "rule", rule |-> OffsetSpAndPopRegisters(0, <<"rbp">>)],
     RowOf(CfaExpr(Expr("sp", 8, TRUE)), Undefined, Expression(Expr("sp", 0, FALSE)), TRUE),
     CompactAt(3, <<"push", "mov", "call", "pop", "ret">>, [is |-> "FrameBased"]) >>
ArmInfo ==
  << RowOf(CfaAt("sp", 16), SameValue, SameValue, FALSE),
     RowOf(CfaAt("fp", 16), Offset(-16), Offset(-8), FALSE),
     RowOf(CfaAt("fp", 16), Missing, Offset(-8), FALSE),
     RowOf(CfaAt("sp", 16), Offset(-16), Offset(-8), FALSE),
     RowOf(CfaAt("sp", 0), Missing, Offset(8), FALSE),
     [is |-> "uncovered"],
     CompactAt(1, <<[op |-> "sub", imm |-> 16], [op |-> "add", imm |-> 16], [op |-> "ret"]>>,
               [is |-> "Frameless", size |-> 0]),
     RowOf(CfaExpr(Expr("sp", 8, TRUE)), SameValue, Expression(Expr("sp", 0, FALSE)), FALSE),
     RowOf(CfaAt("sp", 16), Missing, Undefined, FALSE),
     RowOf(CfaAt("fp", 24), Offset(-24), Offset(-16), FALSE),
     RowOf(CfaAt("sp", 64), SameValue, Offset(-56), FALSE) >>
MCInfo == [x86_64 |-> X86Info, aarch64 |-> ArmInfo]

\* Return addresses into two of the functions at a time; on aarch64 into one, and
\* to the trampoline. There 40 is also the address 8 with a hash.
Top == 248
X86Words == {40, 48, 56}
X86World ==
  [stacks |-> UNION {{[a \in X86Words \cup {Top} |-> IF a = Top THEN 10 ELSE m[a]] :
                         m \in [X86Words -> {0, 40, 56, f + 1, g + 1}]} : f, g \in DOMAIN X86Info},
   contexts |-> [ip : DOMAIN X86Info, sp : {48, Top}, fp : {40}, lr : {0}],
   windows |-> { <<<<40, 64>>, <<240, 255>>>>, <<<<40, 56>>, <<0, 0>>>> },
   fallen |-> {{}, {3}}]
ArmWorld ==
  [stacks |-> UNION {[{40, 48, 56, 64} -> {0, 40, 56, TRAMPOLINE, f + 1}] : f \in DOMAIN ArmInfo},
   contexts |-> [ip : DOMAIN ArmInfo, sp : {40}, fp : {40}, lr : {3, 40}],
   windows |-> {<<<<40, 72>>, <<0, 0>>>>},
   fallen |-> {{}}]
MCWorld == [x86_64 |-> X86World, aarch64 |-> ArmWorld]
=============================================================================
