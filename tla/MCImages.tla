------------------------------ MODULE MCImages ------------------------------
(* A module is built from JIT sections, as in MCJitIndex, or from an image, in an
   address space of 64. *)
EXTENDS MCJitIndex, Images, TLC

MCInit ==
  /\ IndexInit
  /\ \/ image = Absent /\ slide = 0 /\ built = Absent
     \/ section.fdes = <<>> /\ ImagesInit
MCNext ==
  \/ image = Absent /\ IndexNext /\ UNCHANGED images
  \/ image # Absent /\ ImagesNext /\ UNCHANGED index_vars
MCSpec == MCInit /\ [][MCNext]_<<index_vars, images>>

Widths == 2 :> 16 @@ 4 :> 32 @@ 8 :> 64
SomeSlides == {0, 3, 29, 60}

\* ELF: the segments, the header at h and the .eh_frame at e. The linker writes
\* the distance of the latter, or its address, in the width of the format.
Seg(v, n) == [vaddr |-> v, memsz |-> n, exec |-> FALSE]
Code(v, n) == [vaddr |-> v, memsz |-> n, exec |-> TRUE]
ElfLayouts == {[segs |-> <<Seg(0, 5), Code(8, 24)>>, h |-> 10, e |-> 24],
               [segs |-> <<Code(4, 30)>>, h |-> 16, e |-> 8],
               [segs |-> <<Seg(36, 10), Code(4, 30)>>, h |-> 6, e |-> 40],
               [segs |-> <<Seg(0, 50)>>, h |-> 12, e |-> 6],
               [segs |-> <<Code(0, 20), Seg(24, 16)>>, h |-> 26, e |-> 12]}
Fits(d, fmt) ==
  LET w == Widths[Formats[fmt].size]
  IN  IF Formats[fmt].signed THEN d \in -(w \div 2) .. w \div 2 - 1 ELSE d \in 0 .. w - 1
Distance(l, app) == IF app = "pcrel" THEN l.e - (l.h + 4) ELSE l.e
Written(l, len, version, app, fmt) ==
  [segs |-> l.segs, eh_frame |-> Seg(l.e, 3),
   hdr |-> [vaddr |-> l.h, memsz |-> len, version |-> version, app |-> app, fmt |-> fmt,
            field |-> IF fmt \in DOMAIN Formats
                      THEN Distance(l, app) % Widths[Formats[fmt].size] ELSE 0]]
SomeElf ==
  {[segs |-> s, hdr |-> Absent, eh_frame |-> Seg(0, 2)] : s \in {<<>>, <<Seg(0, 8)>>}}
  \cup UNION {{Written(l, len, version, app, fmt) :
                 len \in {3, 6, 8, 12}, version \in {1, 2},
                 fmt \in {f \in DOMAIN Formats : Fits(Distance(l, app), f)} \cup {"uleb128"}} :
                l \in ElfLayouts, app \in {"pcrel", "absptr", "datarel"}}

\* Mach-O: a __TEXT segment with some sections and another segment, in any order.
Sect(n, a, s) == [name |-> n, addr |-> a, size |-> s]
Named(n, v, len, sects) == [name |-> n, vaddr |-> v, memsz |-> len, sects |-> sects]
SomeMachO ==
  LET Text(v) == {Named("__TEXT", v, 16, SelectSeq(
                     <<Sect("__text", v, 8), Sect("__unwind_info", v + 8, 4), Sect("__eh_frame", v + 12, 4)>>,
                     LAMBDA s : s.name \in ns)) :
                    ns \in SUBSET {"__text", "__unwind_info", "__eh_frame"}}
      Other == {Named("__LINKEDIT", 40, 8, <<>>), Named("__DATA", 40, 8, <<Sect("__got", 42, 4)>>),
                Named("__TEXT", 40, 8, <<Sect("__eh_frame", 44, 4)>>)}
  IN  {[segs |-> <<o>>] : o \in Other}
      \cup {[segs |-> <<t, o>>] : t \in Text(0) \cup Text(16), o \in Other}
      \cup {[segs |-> <<o, t>>] : t \in Text(0) \cup Text(16), o \in Other}

\* PE: sections that may reach past the end of the image.
SomePe ==
  {[signed |-> signed, size |-> 24,
    sects |-> <<[name |-> a, rva |-> r, vsize |-> v], [name |-> b, rva |-> q, vsize |-> 6]>>] :
     signed \in BOOLEAN, a \in {".text", ".pdata"}, b \in {".pdata", ".xdata", ".reloc"},
     r \in {4, 16}, v \in {0, 8, 12}, q \in {20, 24, 30}}
=============================================================================
