------------------------------ MODULE Machine -------------------------------
(* A thread of compiled code whose stack is walked while it is stopped. The
   thread is the environment of the unwinder: the call, prologue and epilogue
   instructions of an x86_64 or aarch64 processor, and signals, which the kernel
   delivers on the thread's stack or on the alternate one. chain is the call stack
   as it really is, against which the walk is compared.

   All instructions are one byte long, so that a call's return address is the
   next one. *)
EXTENDS Stepping, TLC

CONSTANTS Program,   \* [architectures -> [code, calls, handlers, jump, sigreturn, trap, noreturn, blind, main, alt]]:
                     \* the instruction at each address, the functions that each
                     \* call may enter and the ones that a signal may, the targets of
                     \* jumps, where signal handlers return to, the handler of
                     \* traps, addresses after the calls that never return, code
                     \* without exact unwind information, and the two stacks
          Junk,      \* what a scratch register or a dead word holds
          Hash       \* what pointer authentication adds to a return address

VARIABLES cpu,       \* the thread's registers
          chain,     \* its callers' frames, [ip, sp] each
          n          \* how many frames the walk has reported

vars == <<arch, stack, walk, cpu, chain, n>>

P == Program[arch]
Words(w) == {a \in w[1] .. w[2] - 1 : a % 8 = 0}
OnAlt == cpu.sp \in P.alt[1] .. P.alt[2]

Init == /\ arch \in DOMAIN Program
        /\ stack = [a \in Words(P.main) \cup Words(P.alt) |-> Junk]
        /\ cpu = [zeroed EXCEPT !.ip = 1, !.sp = P.main[2]]
        /\ chain = <<>> /\ n = 0
        /\ live = FALSE /\ done = FALSE
        /\ regs = make_regs(zeroed, Word - 1)
        /\ cur_ip = 0 /\ cur_addr = InstructionPointer(0)
        /\ windows = << <<0, 0>>, <<0, 0>> >> /\ fell = {} /\ out = [ret |-> 0, ip |-> 0, sp |-> 0]

-----------------------------------------------------------------------------
(* Instructions. registers and memory are what one changes besides moving on. *)

Running == ~live /\ UNCHANGED <<arch, walk, n>>
Runs(i, registers, memory) ==
  /\ Running /\ P.code[cpu.ip] = i
  /\ cpu' = registers @@ [cpu EXCEPT !.ip = @ + 1]
  /\ stack' = memory @@ stack
  /\ cpu'.sp >= (IF OnAlt THEN P.alt ELSE P.main)[1]
None == <<>>
Sp(by) == "sp" :> cpu.sp + by
Store(by, v) == cpu.sp + by :> v
\* Words that are popped are dead.
Dead(k) == [a \in {cpu.sp + 8 * i : i \in 0 .. k - 1} |-> Junk]

Plain ==
  \/ Runs("mov", "fp" :> cpu.sp, None)
  \/ Runs("jmp", "ip" :> P.jump[cpu.ip], None)
  \/ Runs("nop", None, None)
  \/ Runs("sub16", Sp(-16), None)
  \/ Runs("add16", Sp(16), Dead(2))
  \/ cpu.ip + 1 \notin P.noreturn /\ \E i \in {"call", "bl"} : Runs(i, None, None)   \* not taken

X86Plain ==
  \/ Runs("push", Sp(-8), Store(-8, cpu.fp))
  \/ Runs("push_mov", Sp(-8) @@ "fp" :> cpu.sp - 8, Store(-8, cpu.fp))
  \/ Runs("sub", Sp(-8), None)
  \/ Runs("scratch", Sp(-8) @@ "fp" :> Junk, None)     \* a local, and rbp used for something else
  \/ Runs("add", Sp(8), Dead(1))
  \/ Runs("pop", Sp(8) @@ "fp" :> stack[cpu.sp], Dead(1))
  \/ Runs("push_r", Sp(-8), Store(-8, Junk))           \* another register
  \/ Runs("push_scratch", Sp(-8) @@ "fp" :> Junk, Store(-8, Junk))
  \/ Runs("pop_r", Sp(8), Dead(1))
  \/ Runs("clobber", "fp" :> Junk, None)
  \/ Runs("save", None, Store(8, cpu.fp))
  \/ Runs("restore", "fp" :> stack[cpu.sp + 8], None)
  \/ Runs("lea_sp", "sp" :> cpu.fp + 8, Dead(2))

ArmPlain ==
  \/ Runs("pac", "lr" :> cpu.lr + Hash, None)
  \/ Runs("aut", "lr" :> cpu.lr - Hash, None)
  \/ Runs("stp", Sp(-16), Store(-16, cpu.fp) @@ Store(-8, cpu.lr))
  \/ Runs("stp_mov", Sp(-16) @@ "fp" :> cpu.sp - 16, Store(-16, cpu.fp) @@ Store(-8, cpu.lr))
  \/ Runs("str", Sp(-16), Store(-16, cpu.lr))
  \/ Runs("ldr", Sp(16) @@ "lr" :> stack[cpu.sp], Dead(2))
  \/ Runs("ldp", Sp(16) @@ "fp" :> stack[cpu.sp] @@ "lr" :> stack[cpu.sp + 8], Dead(2))
  \/ Runs("sub32", Sp(-32), None)
  \/ Runs("add32", Sp(32), Dead(4))
  \/ Runs("stp_off", None, Store(16, cpu.fp) @@ Store(24, cpu.lr))
  \/ Runs("ldp_off", "fp" :> stack[cpu.sp + 16] @@ "lr" :> stack[cpu.sp + 24], None)
  \/ Runs("add_fp", "fp" :> cpu.sp + 16, None)
  \/ Runs("tbz", "ip" :> cpu.ip + 2, None)             \* the address is authentic

Instruction == (Plain \/ X86Plain \/ ArmPlain) /\ UNCHANGED chain

Call == \E f \in IF cpu.ip \in DOMAIN P.calls THEN P.calls[cpu.ip] ELSE {} :
  /\ \/ Runs("call", Sp(-8) @@ "ip" :> f, Store(-8, cpu.ip + 1))
     \/ Runs("bl", "lr" :> cpu.ip + 1 @@ "ip" :> f, None)
  /\ chain' = <<[ip |-> cpu.ip + 1, sp |-> cpu.sp]>> \o chain
Ret ==
  /\ \/ Runs("ret", Sp(8) @@ "ip" :> stack[cpu.sp], Dead(1))
     \/ Runs("ret_lr", "ip" :> cpu.lr @@ "lr" :> Junk, None)      \* dead in the caller
     \/ Runs("retab", "ip" :> cpu.lr - Hash @@ "lr" :> Junk, None)
  /\ cpu'.ip \notin P.noreturn
  /\ chain' = Tail(chain)

-----------------------------------------------------------------------------
(* Signals. The kernel's frame has the registers; on x86_64 it begins with the
   handler's return address, on aarch64 that is in lr, and a frame record at the
   end is where the handler's fp points. *)

SignalFrame(top) ==
  IF arch = "x86_64"
  THEN top - 8 :> cpu.fp @@ top - 16 :> cpu.sp @@ top - 24 :> cpu.ip @@ top - 32 :> P.sigreturn
  ELSE LET sp == top - 48 + SIGCONTEXT
       IN  sp + SIG_FP :> cpu.fp @@ sp + SIG_LR :> cpu.lr @@ sp + SIG_SP :> cpu.sp
           @@ sp + SIG_PC :> cpu.ip @@ top - 16 :> cpu.fp @@ top - 8 :> cpu.lr
Signal(f, altstack) ==
  LET top == IF altstack /\ ~OnAlt THEN P.alt[2] ELSE cpu.sp
      x86 == arch = "x86_64"
      sp  == IF x86 THEN top - 32 ELSE top - 48
  IN  /\ Running /\ cpu.ip \notin P.blind
      /\ sp >= (IF altstack \/ OnAlt THEN P.alt ELSE P.main)[1]
      /\ stack' = SignalFrame(top) @@ stack
      /\ cpu' = IF x86 THEN [cpu EXCEPT !.ip = f, !.sp = sp]
                ELSE [ip |-> f, sp |-> sp, fp |-> top - 16, lr |-> P.sigreturn]
      /\ chain' = <<[ip |-> P.sigreturn, sp |-> IF x86 THEN sp + 8 ELSE sp],
                    [ip |-> cpu.ip, sp |-> cpu.sp]>> \o chain
SigReturn ==
  /\ LET sp == cpu.sp + SIGCONTEXT
     IN  \/ Runs("sigreturn", "ip" :> stack[cpu.sp] @@ "sp" :> stack[cpu.sp + 8]
                              @@ "fp" :> stack[cpu.sp + 16], Dead(3))
         \/ Runs("rt_sigreturn", "ip" :> stack[sp + SIG_PC] @@ "sp" :> stack[sp + SIG_SP]
                                 @@ "fp" :> stack[sp + SIG_FP] @@ "lr" :> stack[sp + SIG_LR], Dead(6))
  /\ chain' = Tail(chain)

\* On Windows a trap pushes a machine frame and enters its handler.
Trap ==
  /\ Runs("trap", Sp(-32) @@ "ip" :> P.trap, Store(-32, cpu.ip + 1) @@ Store(-8, cpu.sp))
  /\ chain' = <<[ip |-> cpu.ip + 1, sp |-> cpu.sp]>> \o chain
Iret ==
  /\ Runs("iret", "ip" :> stack[cpu.sp] @@ "sp" :> stack[cpu.sp + 24], Dead(4))
  /\ chain' = Tail(chain)

-----------------------------------------------------------------------------
(* Walks *)

\* Another thread stops this one and walks it, with its two stacks as windows, the
\* innermost first, or with the window derived from sp while it uses only one.
Walk ==
  /\ cpu.ip \notin P.blind
  /\ LET ctx == context_from_os(TRUE, cpu)
         in == IF OnAlt THEN P.alt ELSE P.main
         outer == IF OnAlt THEN P.main ELSE P.alt
     IN  \/ cursor_init_bounds2(ctx, <<0, 0>>, in, outer)
         \/ ~OnAlt /\ cursor_init_bounds2(ctx, <<0, 0>>, <<0, 0>>, <<0, 0>>)
  /\ UNCHANGED <<arch, stack, cpu, chain, n>>

\* BOUNDS of a thread: none before register_current_thread, then what its platform tells.
CurrentBounds ==
  LET size == P.main[2] - P.main[1]
  IN  {<<0, 0>>, query_bounds("unix", P.main[1], size),
       query_bounds("macos", P.main[2], size), query_bounds("windows", P.main[1], size)}

\* It calls fh_capture_context and walks itself, with its bounds if it registered.
WalkSelf ==
  /\ P.code[cpu.ip] \in {"call", "bl"} /\ cpu.ip + 1 \notin P.noreturn /\ ~OnAlt
  /\ \E b \in CurrentBounds :
       cursor_init_bounds2(fh_capture_context(cpu), b, <<0, 0>>, <<0, 0>>)
  /\ cpu' = [cpu EXCEPT !.ip = @ + 1]
  /\ UNCHANGED <<arch, stack, chain, n>>
Step == StepFrame /\ n' = n + 1 /\ UNCHANGED <<arch, stack, cpu, chain>>

Next == \/ Instruction \/ Call \/ Ret \/ SigReturn \/ Trap \/ Iret
        \/ \E f \in P.handlers, altstack \in BOOLEAN : Signal(f, altstack)
        \/ Walk \/ WalkSelf \/ Step

Spec == Init /\ [][Next]_vars

-----------------------------------------------------------------------------
(* Properties *)

CallStack == <<[ip |-> cpu.ip, sp |-> cpu.sp]>> \o chain

\* A walk of a thread whose code has accurate unwind information, stopped at any
\* instruction, reports its call stack: every frame, in order, with its ip and
\* sp, through calls at the end of a function, scratch frame pointers, signed
\* return addresses, stubs and signal frames on either stack, and ends at its
\* first function (cursor.rs, step).
ReportsCallStack ==
  live => /\ n <= Len(CallStack)
          /\ n > 0 => out.ip = CallStack[n].ip /\ out.sp = CallStack[n].sp
          /\ done => n = Len(CallStack)

=============================================================================
