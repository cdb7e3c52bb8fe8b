----------------------------- MODULE MCMachine ------------------------------
(* A program for each architecture with one function of each kind, and its unwind
   information: call frame information, that of Mach-O and that of Windows. *)
EXTENDS Machine

RowAt(cfa, fp, ra) == [is |-> "row", row |-> Row(cfa, fp, ra, FALSE)]
CompactPart(part, at) == [is |-> "compact", part |-> part, at |-> at]
\* The entry that covers code from start to end
CompactFunction(start, code, opcode, a) ==
  [is |-> "compact", part |-> "function", at |-> a - start, code |-> code, opcode |-> opcode]
CallsOf(code, Callees(_)) == [a \in {a \in DOMAIN code : code[a] \in {"call", "bl"}} |-> Callees(a)]

-----------------------------------------------------------------------------
(* x86_64. 1 the thread's first function, 3 a frame pointer, 8 a local variable, 12 a
   scratch bp and a call as the last instruction, 15 a frame pointer but no unwind
   information, 19 and 28 stubs, 21 the trampoline. Windows: 22 pops, 29 a frame
   register, 37 a saved bp, 44 a function in two parts that has a trap, 51 the handler
   of traps, 53 a function that is not in the table. Mach-O: 55 and 64 frame pointers
   in one entry, 69 a frame without one and a tail call, 76 a frame whose size is in
   its code, 80 and 85 functions without an opcode and with a row, 89 a lazy
   stub, 90 its helpers and 95 the binder they end in. *)

X86Code == <<"call", "jmp", "push", "mov", "call", "pop", "ret", "sub", "call", "add", "ret",
             "push", "scratch", "call", "push_mov", "call", "pop", "ret", "jmp", "nop", "sigreturn",
             "push", "scratch", "call", "add", "pop", "ret", "jmp",
             "push", "sub", "mov", "sub", "call", "lea_sp", "pop", "ret",
             "sub16", "save", "clobber", "call", "restore", "add16", "ret",
             "push", "push_scratch", "call", "trap", "pop_r", "pop", "ret", "call", "iret", "nop", "ret",
             "push", "mov", "push_r", "sub", "call", "add", "pop_r", "pop", "ret",
             "push", "mov", "call", "pop", "ret",
             "push", "sub", "clobber", "call", "add", "pop", "jmp",
             "sub", "call", "add", "ret",
             "push", "mov", "call", "pop", "ret", "sub", "call", "add", "ret",
             "jmp", "nop", "push_r", "jmp", "push_r", "jmp", "add16", "jmp">>
X86Program ==
  [code |-> X86Code,
   calls |-> CallsOf(X86Code, LAMBDA a :
               CASE a = 1 -> {3, 8, 12, 15, 19, 22, 28, 44, 53, 64, 76, 80, 85, 89}
                 [] a = 5 -> {3, 8, 12, 15, 19, 22, 28, 29, 37, 44, 55, 69}
                 [] a < 29 -> {3, 8, 12, 15, 19, 22, 28}
                 [] OTHER -> {3, 22}),
   handlers |-> {3, 12, 19, 22},
   jump |-> 2 :> 1 @@ 19 :> 3 @@ 28 :> 8 @@ 75 :> 3 @@ 89 :> 93 @@ 92 :> 95 @@ 94 :> 90 @@ 96 :> 8,
   sigreturn |-> 21, trap |-> 51, noreturn |-> {15},
   blind |-> {15, 18} \cup {91},      \* 91: see stub_helper_x86
   main |-> <<128, 184>>, alt |-> <<192, 240>>]

X86Signal == [is |-> "row", row |-> Row(CfaExpr(Expr("sp", 8, TRUE)),
                Expression(Expr("sp", 16, FALSE)), Expression(Expr("sp", 0, FALSE)), TRUE)]
X86Rows(a) ==
  CASE a \in {1, 2} -> RowAt(CfaAt("sp", 8), Missing, Undefined)
    [] a \in {3, 7, 8, 11, 12, 96} -> RowAt(CfaAt("sp", 8), SameValue, Offset(-8))
    [] a \in {9, 10} -> RowAt(CfaAt("sp", 16), SameValue, Offset(-8))
    [] a \in {4, 13} -> RowAt(CfaAt("sp", 16), Offset(-16), Offset(-8))
    [] a = 14 -> RowAt(CfaAt("sp", 24), Offset(-16), Offset(-8))
    [] a \in {5, 6} -> RowAt(CfaAt("fp", 16), Offset(-16), Offset(-8))
    [] a = 19 -> [is |-> "uncovered"]
    [] a \in {20, 21} -> X86Signal
    [] a = 95 -> RowAt(CfaAt("sp", 24), SameValue, Offset(-8))
    [] a = 28 -> RowAt(CfaExpr(Expr("sp", 8, FALSE)), Missing, Offset(-8))

\* Operations with the ends of their instructions, and what is left of an epilogue
PeOps == 22 :> << <<2, Alloc(8)>>, <<1, Pop("rbp")>> >>
         @@ 29 :> << <<3, SpFromFp(0)>>, <<2, Alloc(8)>>, <<1, Pop("rbp")>> >>
         @@ 37 :> << <<2, Save("rbp", 8)>>, <<1, Alloc(16)>> >>
         @@ 44 :> << <<1, Pop("rbp")>> >> @@ 45 :> << <<1, Pop("r15")>> >> @@ 51 :> << <<0, MachineFrame(0)>> >>
PeEpilog == 25 :> <<Alloc(8), Pop("rbp")>> @@ 26 :> <<Pop("rbp")>> @@ 27 :> <<>>
            @@ 34 :> <<SpFromFp(8), Pop("rbp")>> @@ 35 :> <<Pop("rbp")>> @@ 36 :> <<>>
            @@ 42 :> <<Alloc(16)>> @@ 43 :> <<>>
            @@ 48 :> <<Pop("r15"), Pop("rbp")>> @@ 49 :> <<Pop("rbp")>> @@ 50 :> <<>>
X86Pe(a) ==
  LET start == CHOOSE s \in DOMAIN PeOps : s <= a /\ \A t \in DOMAIN PeOps : t <= a => t <= s
      ops == PeOps[start]
  IN  IF a \in {53, 54} THEN [is |-> "pe", covered |-> FALSE]
      ELSE [is |-> "pe", covered |-> TRUE, parsed |-> TRUE, text |-> TRUE, offset |-> a - start,
            epilog |-> IF a \in DOMAIN PeEpilog THEN PeEpilog[a] ELSE Err,
            ops |-> [i \in DOMAIN ops |-> [offset |-> ops[i][1], what |-> ops[i][2]]],
            chained |-> IF start = 45 THEN <<Pop("rbp")>> ELSE <<>>]

X86Compact(a) ==
  LET In(start, end, op) == CompactFunction(start, SubSeq(X86Code, start, end), op, a)
      row == Row(CfaAt("sp", IF a \in {85, 88} THEN 8 ELSE 16), SameValue, Offset(-8), FALSE)
  IN  CASE a \in 55 .. 68 -> In(55, 68, [is |-> "FrameBased"])
        [] a \in 69 .. 75 -> In(69, 75, [is |-> "FramelessImmediate", size |-> 24, saved |-> <<"rbp">>])
        [] a \in 76 .. 79 -> In(76, 79, [is |-> "FramelessIndirect", imm |-> 8, adjust |-> 8, saved |-> <<>>])
        [] a \in 80 .. 84 -> In(80, 84, [is |-> "Null"])
        [] a \in 85 .. 88 -> In(85, 88, [is |-> "Dwarf", row |-> row])
        [] a = 89 -> CompactPart("stubs", 0)
        [] a \in 90 .. 94 -> CompactPart("stub_helper", <<0, 7, 9, 16, 21>>[a - 89])

X86Info == [a \in 1 .. 96 \ (15 .. 18) |->
             IF a < 22 \/ a \in {28, 95, 96} THEN X86Rows(a) ELSE IF a < 55 THEN X86Pe(a) ELSE X86Compact(a)]

-----------------------------------------------------------------------------
(* aarch64. 1 the thread's first function, 5 a frame pointer and a signed return
   address, 12 a leaf, 15 saves lr only, 19 and 24 stubs, 20 a frame pointer but no
   unwind information, 25 the trampoline, 26 a call as the last instruction. Mach-O: 29
   a frame in one piece, 36 a signed return address, 42 a tail call, in the entry of
   36, 47 and 57 tail calls that check the address, 68 a leaf whose code is missing, 72
   a lazy stub, 73 its helpers and 79 the binder they end in. *)

ArmCode == <<"stp", "mov", "bl", "jmp", "pac", "stp", "mov", "bl", "ldp", "aut", "ret_lr",
             "sub16", "add16", "ret_lr", "str", "bl", "ldr", "ret_lr", "jmp",
             "stp_mov", "bl", "ldp", "ret_lr", "jmp", "rt_sigreturn", "str", "bl", "jmp",
             "sub32", "stp_off", "add_fp", "bl", "ldp_off", "add32", "ret_lr",
             "pac", "stp", "mov", "bl", "ldp", "retab",
             "stp", "mov", "bl", "ldp", "jmp",
             "pac", "stp", "mov", "bl", "ldp", "aut", "eor", "tbz", "brk", "jmp",
             "pac", "stp", "mov", "bl", "ldp", "aut", "eor", "tbz", "brk", "mov_x16", "braa",
             "sub16", "nop", "add16", "ret_lr",
             "jmp", "nop", "sub16", "nop", "jmp", "nop", "jmp", "add16", "jmp">>
ArmProgram ==
  [code |-> [a \in DOMAIN ArmCode |->
              CASE ArmCode[a] \in {"eor", "mov_x16"} -> "nop" [] ArmCode[a] = "braa" -> "jmp"
                [] OTHER -> ArmCode[a]],
   calls |-> CallsOf(ArmCode, LAMBDA a :
               CASE a = 3 -> {5, 12, 15, 19, 20, 24, 26, 28, 29, 36, 42, 47, 57, 68, 72}
                 [] a < 29 -> {5, 12, 15, 19, 20, 24, 26, 28}
                 [] OTHER -> {5, 12, 15}),
   handlers |-> {5, 12},
   jump |-> 4 :> 3 @@ 19 :> 12 @@ 24 :> 5 @@ 28 :> 15 @@ 46 :> 12 @@ 56 :> 12 @@ 67 :> 15
            @@ 72 :> 77 @@ 76 :> 79 @@ 78 :> 73 @@ 80 :> 15,
   sigreturn |-> TRAMPOLINE, trap |-> 0, noreturn |-> {28}, blind |-> {20, 23, 71},
   main |-> <<64, 128>>, alt |-> <<176, 240>>]

ArmRows(a) ==
  CASE a \in {1, 5, 6, 10, 11, 12, 14, 15, 18, 26, 80} -> RowAt(CfaAt("sp", 0), SameValue, SameValue)
    [] a \in {2, 7} -> RowAt(CfaAt("sp", 16), Offset(-16), Offset(-8))
    [] a \in {3, 4, 8, 9} -> RowAt(CfaAt("fp", 16), Offset(-16), Offset(-8))
    [] a \in {13, 79} -> RowAt(CfaAt("sp", 16), SameValue, SameValue)
    [] a \in {16, 17, 27} -> RowAt(CfaAt("sp", 16), SameValue, Offset(-16))
    [] a = 19 -> [is |-> "uncovered"]
    [] a = 24 -> RowAt(CfaExpr(Expr("sp", 0, FALSE)), Missing, SameValue)
    [] a = 28 -> CompactPart("outside", 0)

\* What the analysis decodes
Pair(op, wb, imm) == [op |-> op, wb |-> wb, imm |-> imm, fp |-> 0, lr |-> 8]
Decoded(i) ==
  CASE i = "pac" -> [op |-> "pacibsp"]
    [] i = "stp" -> Pair("store", "pre", -16) [] i = "stp_off" -> Pair("store", "no", 16)
    [] i = "ldp" -> Pair("load", "post", 16) [] i = "ldp_off" -> Pair("load", "no", 16)
    [] i \in {"mov", "add_fp"} -> [op |-> "fp"]
    [] i = "sub16" -> [op |-> "sub", imm |-> 16] [] i = "sub32" -> [op |-> "sub", imm |-> 32]
    [] i = "add16" -> [op |-> "add", imm |-> 16] [] i = "add32" -> [op |-> "add", imm |-> 32]
    [] i \in {"ret_lr", "retab"} -> [op |-> "ret"]
    [] i = "jmp" -> [op |-> "b"] [] i = "aut" -> [op |-> "autibsp"]
    [] OTHER -> [op |-> i]
ArmCompact(a) ==
  LET In(start, end, op) ==
        CompactFunction(start, [i \in 1 .. end - start + 1 |-> Decoded(ArmCode[start + i - 1])], op, a)
  IN  CASE a \in 29 .. 35 -> In(29, 35, [is |-> "FrameBased"])
        [] a \in 36 .. 67 -> In(36, 67, [is |-> "FrameBased"])
        [] a \in 68 .. 71 -> CompactFunction(68, <<>>, [is |-> "Frameless", size |-> 16], a)
        [] a = 72 -> CompactPart("stubs", 0)
        [] a \in 73 .. 78 -> CompactPart("stub_helper", <<0, 8, 12, 20, 24, 28>>[a - 72])

ArmInfo == [a \in 1 .. 80 \ ({25} \cup 20 .. 23) |->
             IF a < 29 \/ a \in {79, 80} THEN ArmRows(a) ELSE ArmCompact(a)]

-----------------------------------------------------------------------------

MCProgram == [x86_64 |-> X86Program, aarch64 |-> ArmProgram]
MCInfo == [x86_64 |-> X86Info, aarch64 |-> ArmInfo]

\* The function at 5 with an expression for its CFA, as one that aligns its stack has
PacProgram == [aarch64 |-> ArmProgram]
PacInfo == [aarch64 |-> [a \in {8, 9} |-> RowAt(CfaExpr(Expr("fp", 16, FALSE)), Offset(-16), Offset(-8))]
                        @@ ArmInfo]
=============================================================================
