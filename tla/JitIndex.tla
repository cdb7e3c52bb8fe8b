----------------------------- MODULE JitIndex -------------------------------
(***************************************************************************)
(* Registration of JIT code (src/modules/jit.rs) down to the FDE index     *)
(* that framehop builds for it (dwarf.rs DwarfCfiIndex) and the lookup of  *)
(* an address in it.                                                       *)
(*                                                                         *)
(* A section is the sequence of its FDEs, each a start address and a       *)
(* length, and whether all its entries parse: both scans of it stop at the *)
(* first that does not and then fail.  Addresses are words that wrap.      *)
(* Which module the registry replaces is the subject of JitRegistry; here  *)
(* the module last added is kept.                                          *)
(***************************************************************************)
EXTENDS Naturals, Sequences, FiniteSetsExt

CONSTANTS
  Word,           \* 2^64
  U32_MAX,
  Sections,       \* records of fdes, a sequence of [start, len], and parses
  Nothing

ASSUME IndexAssumption ==
  /\ Word \in Nat /\ U32_MAX \in 0 .. Word - 1
  /\ \A s \in Sections : s \in [fdes : Seq([start : 0 .. Word - 1, len : 0 .. Word - 1]), parses : BOOLEAN]
  /\ \A s \in Sections : Nothing \notin [DOMAIN s.fdes -> 0 .. U32_MAX]

VARIABLES
  section,        \* the caller's .eh_frame buffer
  module,         \* the module last added, or Nothing
  failures        \* JIT_REGISTER_FAILURES

index_vars == <<section, module, failures>>

IndexInit == section \in Sections /\ module = Nothing /\ failures = 0

-----------------------------------------------------------------------------
Fdes == DOMAIN section.fdes
Begin(f) == section.fdes[f].start
Size(f) == section.fdes[f].len

(* The range over all FDEs, or Nothing. *)
fde_pc_range ==
  LET lo == Min({Begin(f) : f \in Fdes})
      hi == Max({(Begin(f) + Size(f)) % Word : f \in Fdes})
  IN  IF section.parses /\ Fdes # {} /\ hi > lo THEN <<lo, hi>> ELSE Nothing

try_new_NoBase(base) ==
  IF section.parses /\ \A f \in Fdes : Begin(f) <= U32_MAX
  THEN [f \in Fdes |-> Begin(f)]
  ELSE Nothing

(* DwarfCfiIndex::try_new: the start of every FDE relative to the base, or
   Nothing if one is below it or too far above. *)
try_new(base) ==
  IF section.parses /\ \A f \in Fdes : Begin(f) >= base /\ Begin(f) - base <= U32_MAX
  THEN [f \in Fdes |-> Begin(f) - base]
  ELSE Nothing

(* fde_offset_for_relative_address: the FDEs it may find.  The search may hit
   any of several equal starts; otherwise it takes the last start below, and
   the sort that made the index was stable. *)
fde_for_relative_address(index, rel) ==
  LET equal == {f \in DOMAIN index : index[f] = rel}
      below == {f \in DOMAIN index : index[f] < rel}
      last  == Max({index[f] : f \in below})
  IN  IF equal # {} THEN equal
      ELSE IF below = {} THEN {} ELSE {Max({f \in below : index[f] = last})}

-----------------------------------------------------------------------------
(* The counter is a word, too. *)
note_fail ==
  /\ failures' = (failures + 1) % Word
  /\ UNCHANGED <<section, module>>

(* register_jit_eh_frame, for a buffer that is not empty. *)
register_jit_eh_frame(lo, hi) ==
  IF hi <= lo \/ hi - lo > U32_MAX \/ fde_pc_range = Nothing
  THEN note_fail
  ELSE /\ module' = [lo |-> lo, hi |-> hi, index |-> try_new(lo)]
       /\ UNCHANGED <<section, failures>>

register_jit_eh_frame_auto ==
  IF fde_pc_range = Nothing
  THEN note_fail
  ELSE register_jit_eh_frame(fde_pc_range[1], fde_pc_range[2])

IndexNext ==
  \/ \E lo, hi \in 0 .. Word - 1 : register_jit_eh_frame(lo, hi)
  \/ register_jit_eh_frame_auto

IndexSpec == IndexInit /\ [][IndexNext]_index_vars

-----------------------------------------------------------------------------
(* Properties.                                                             *)

IndexTypeOK ==
  /\ section \in Sections /\ failures \in 0 .. Word - 1
  /\ module = Nothing \/ /\ module.lo \in 0 .. Word - 1 /\ module.hi - module.lo \in 1 .. U32_MAX
                         /\ module.index = Nothing \/ module.index \in [Fdes -> 0 .. U32_MAX]

Covers(f, a) == Begin(f) <= a /\ a < Begin(f) + Size(f)

(* A compiler's section: no FDE is empty, wraps around, or overlaps another. *)
WellFormed ==
  /\ \A f \in Fdes : Size(f) > 0 /\ Begin(f) + Size(f) < Word
  /\ \A f, g \in Fdes : f # g => \A a \in 0 .. Word - 1 : ~(Covers(f, a) /\ Covers(g, a))

(* "For lookups to line up": a module whose range includes its FDEs has an
   index, with which every address in the range finds the FDE that covers it,
   and none if none does. *)
LookupsLineUp ==
  module # Nothing /\ WellFormed /\ module.lo <= fde_pc_range[1] /\ fde_pc_range[2] <= module.hi =>
    /\ module.index # Nothing
    /\ \A a \in module.lo .. module.hi - 1 :
         {f \in fde_for_relative_address(module.index, a - module.lo) : Covers(f, a)}
           = {f \in Fdes : Covers(f, a)}

(* "Rather than registering a module that claims a range it cannot unwind":
   a registered module has unwind data. *)
RegisteredHasData == module # Nothing => module.index # Nothing

=============================================================================
