------------------------------- MODULE Images -------------------------------
(* The modules built from loaded images: the dl_iterate_phdr callback of
   src/modules/elf.rs, build_image and image_key of macho.rs, and build_pe_module
   of pe.rs. (JIT code, the other origin of modules, is JitIndex.)

   An image is what the loader shows of it, at link-time addresses, with a slide
   that says where it was loaded (the base, on Windows). The bytes of a section are
   read in place: a section of a module is where they start in memory (at), where
   the module says they start (svma), and their length. Addresses wrap, as u64 does
   in a release build. Only the widths of the encoded pointers of an .eh_frame_hdr are scaled,
   with the address space: Width[n] is the number of values of n bytes. *)
EXTENDS Integers, Sequences, FiniteSets, FiniteSetsExt

CONSTANTS Space,            \* the number of addresses
          Width,
          Elf, MachO, Pe,   \* the images of each format
          Slides,           \* where they are loaded, relative to their link addresses
          Absent

ASSUME ImagesAssumption ==
  /\ Space \in Nat \ {0} /\ Width \in [{2, 4, 8} -> 2 .. Space] /\ Width[8] = Space
  /\ Slides \subseteq 0 .. Space - 1
  /\ MachO \cap (Elf \cup Pe) = {} /\ Elf \cap Pe = {}

VARIABLES image, slide, built
images == <<image, slide, built>>

Wrap(a) == a % Space
Bytes(at, svma, len) == [at |-> Wrap(at), svma |-> Wrap(svma), len |-> len]
Module(lo, hi, base_avma, base_svma, sections) ==
  [lo |-> lo, hi |-> hi, base_avma |-> base_avma, base_svma |-> base_svma, sections |-> sections]

-----------------------------------------------------------------------------
(* What linkers write, which the code relies on: the link addresses of a segment do
   not wrap, and sections lie in segments. *)

Holds(seg, lo, len) == seg.vaddr <= lo /\ lo + len <= seg.vaddr + seg.memsz

ASSUME SegmentsAssumption ==
  \A m \in Elf \cup MachO :
    /\ Len(m.segs) \in Nat /\ DOMAIN m.segs = 1 .. Len(m.segs)
    /\ \A i \in DOMAIN m.segs :
         /\ m.segs[i].vaddr \in Nat /\ m.segs[i].memsz \in Nat
         /\ m.segs[i].vaddr + m.segs[i].memsz <= Space

\* A segment that has the start of a section has all of it.
ASSUME ElfAssumption ==
  \A m \in Elf :
    /\ m.hdr # Absent =>
         /\ m.hdr.vaddr \in Nat /\ m.hdr.memsz \in Nat
         /\ \E i \in DOMAIN m.segs : Holds(m.segs[i], m.hdr.vaddr, m.hdr.memsz)
    /\ m.eh_frame.vaddr \in 0 .. Space - 1 /\ m.eh_frame.memsz \in Nat
    /\ \A i \in DOMAIN m.segs : Holds(m.segs[i], m.eh_frame.vaddr, 1)
                                  => Holds(m.segs[i], m.eh_frame.vaddr, m.eh_frame.memsz)

ASSUME MachOAssumption ==
  \A m \in MachO : \A i \in DOMAIN m.segs :
    /\ Len(m.segs[i].sects) \in Nat /\ DOMAIN m.segs[i].sects = 1 .. Len(m.segs[i].sects)
    /\ \A j \in DOMAIN m.segs[i].sects :
         LET s == m.segs[i].sects[j]
         IN  s.addr \in Nat /\ s.size \in Nat /\ Holds(m.segs[i], s.addr, s.size)

\* The section headers of a PE image may say anything.
ASSUME PeAssumption ==
  \A m \in Pe : /\ m.size \in Nat
                /\ Len(m.sects) \in Nat /\ DOMAIN m.sects = 1 .. Len(m.sects)
                /\ \A i \in DOMAIN m.sects : m.sects[i].rva \in Nat /\ m.sects[i].vsize \in Nat

-----------------------------------------------------------------------------
(* ELF: an image has the PT_LOAD segments in segs, each with vaddr, memsz and exec,
   and in hdr its PT_GNU_EH_FRAME segment or Absent. The header has a version, an
   encoding of two parts and a field. *)

SegLo(s) == Wrap(s.vaddr + slide)
SegHi(s) == Wrap(s.vaddr + slide + s.memsz)

Formats == [udata2 |-> [size |-> 2, signed |-> FALSE], sdata2 |-> [size |-> 2, signed |-> TRUE],
            udata4 |-> [size |-> 4, signed |-> FALSE], sdata4 |-> [size |-> 4, signed |-> TRUE],
            udata8 |-> [size |-> 8, signed |-> FALSE], sdata8 |-> [size |-> 8, signed |-> TRUE],
            absptr |-> [size |-> 8, signed |-> FALSE]]

\* The linker wrote where the .eh_frame is, as a distance or an address that fits
\* the format, in two's complement.
Target(m) == IF m.hdr.app = "pcrel" THEN m.eh_frame.vaddr - (m.hdr.vaddr + 4) ELSE m.eh_frame.vaddr
ASSUME HeaderAssumption ==
  \A m \in Elf :
    m.hdr # Absent /\ m.hdr.app \in {"pcrel", "absptr"} /\ m.hdr.fmt \in DOMAIN Formats =>
      LET w == Width[Formats[m.hdr.fmt].size]
          d == Target(m)
      IN  /\ IF Formats[m.hdr.fmt].signed THEN d \in -(w \div 2) .. w \div 2 - 1 ELSE d \in 0 .. w - 1
          /\ m.hdr.field = IF d < 0 THEN d + w ELSE d

decode_value_Unsigned(hdr) ==
  IF hdr.fmt \notin DOMAIN Formats \/ Formats[hdr.fmt].size > hdr.memsz - 4 THEN Absent ELSE hdr.field
\* The field, sign-extended, if it has a known format and lies within the header.
decode_value(hdr) ==
  IF hdr.fmt \notin DOMAIN Formats \/ Formats[hdr.fmt].size > hdr.memsz - 4 THEN Absent
  ELSE LET w == Width[Formats[hdr.fmt].size]
       IN  IF Formats[hdr.fmt].signed /\ hdr.field >= w \div 2 THEN hdr.field - w ELSE hdr.field

decode_eh_frame_start(hdr) ==
  LET base  == IF hdr.app = "pcrel" THEN hdr.vaddr + slide + 4 ELSE 0
      value == decode_value(hdr)
  IN  IF hdr.version # 1 \/ hdr.app \notin {"pcrel", "absptr"} \/ value = Absent THEN Absent
      ELSE Wrap(base + value)

\* The end of the first segment that contains the address, or Absent.
containing_segment_end(a) ==
  LET at == {i \in DOMAIN image.segs : a >= SegLo(image.segs[i]) /\ a < SegHi(image.segs[i])}
  IN  IF at = {} THEN Absent ELSE SegHi(image.segs[Min(at)])

\* One object of dl_iterate_phdr that is new or changed; its name and fingerprint
\* are StaticRefresh's.
callback ==
  /\ image \in Elf
  /\ LET lo  == Min({SegLo(image.segs[i]) : i \in DOMAIN image.segs} \cup {Space - 1})
         hi  == Max({SegHi(image.segs[i]) : i \in DOMAIN image.segs} \cup {0})
         hdr == image.hdr
         eh  == decode_eh_frame_start(hdr)
         end == containing_segment_end(eh)
         execs == {i \in DOMAIN image.segs : image.segs[i].exec}
         text  == image.segs[Min(execs)]
     IN  built' = IF hi <= lo \/ hdr = Absent \/ hdr.memsz < 4 \/ eh = Absent \/ end = Absent THEN Absent
                  ELSE Module(lo, hi, slide, 0,
                         [n \in {"eh_frame_hdr", "eh_frame"} \cup {"text" : i \in execs} |->
                            CASE n = "eh_frame_hdr" -> Bytes(hdr.vaddr + slide, hdr.vaddr, hdr.memsz)
                              [] n = "eh_frame" -> Bytes(eh, eh - slide, end - eh)
                              [] n = "text" -> Bytes(text.vaddr + slide, text.vaddr, text.memsz)])
  /\ UNCHANGED <<image, slide>>

-----------------------------------------------------------------------------
(* Mach-O: the segment commands in segs, each with name, vaddr, memsz and its
   sections in sects, with name, addr and size. *)

Texts == {i \in DOMAIN image.segs : image.segs[i].name = "__TEXT"}
Key(seg) == Wrap(seg.vaddr + slide)

\* What the remove callback knows an image by: it looks for the first __TEXT.
image_key_Linked == IF Texts = {} THEN Absent ELSE image.segs[Min(Texts)].vaddr
image_key == IF Texts = {} THEN Absent ELSE Key(image.segs[Min(Texts)])

SectionNames == {"__text", "__unwind_info", "__eh_frame", "__stubs", "__stub_helper", "__got"}
\* Sections are collected from every segment, and the last of a name counts.
Places(n) ==
  UNION {{i} \X {j \in DOMAIN image.segs[i].sects : image.segs[i].sects[j].name = n} :
           i \in DOMAIN image.segs}
Last(ps) == CHOOSE p \in ps : \A q \in ps : q[1] < p[1] \/ (q[1] = p[1] /\ q[2] <= p[2])
Found(n) == LET p == Last(Places(n))
                s == image.segs[p[1]].sects[p[2]]
            IN  Bytes(s.addr + slide, s.addr, s.size)

\* The scan for the key goes on after a __TEXT, so that the last one counts.
build_image ==
  /\ image \in MachO
  /\ LET text  == image.segs[Max(Texts)]
         found == {n \in SectionNames : Places(n) # {}}
     IN  built' = IF Texts = {} \/ found \cap {"__unwind_info", "__eh_frame"} = {} THEN Absent
                  ELSE Module(Key(text), Wrap(Key(text) + text.memsz), Key(text), text.vaddr,
                         [n \in found \cup {"__TEXT"} |->
                            IF n = "__TEXT" THEN Bytes(Key(text), text.vaddr, text.memsz) ELSE Found(n)])
  /\ UNCHANGED <<image, slide>>

-----------------------------------------------------------------------------
(* PE: whether the headers have their signatures, SizeOfImage, and the section
   headers in sects, with name, rva and vsize. *)

PeNames == {".pdata", ".xdata", ".rdata", ".text"}

sec_Unclamped(n) ==
  LET at == {i \in DOMAIN image.sects : image.sects[i].name = n}
      s  == image.sects[Min(at)]
  IN  IF at = {} THEN Absent ELSE Bytes(slide + s.rva, slide + s.rva, s.vsize)
\* The first section of the name, as far as the image goes. At its end, or empty,
\* it counts as missing.
sec(n) ==
  LET at  == {i \in DOMAIN image.sects : image.sects[i].name = n}
      s   == image.sects[Min(at)]
      len == Min({s.vsize, IF s.rva > image.size THEN 0 ELSE image.size - s.rva})
  IN  IF at = {} \/ len = 0 THEN Absent ELSE Bytes(slide + s.rva, slide + s.rva, len)

build_pe_module ==
  /\ image \in Pe
  /\ built' = IF ~image.signed \/ sec(".pdata") = Absent THEN Absent
              ELSE Module(slide, Wrap(slide + image.size), slide, slide,
                     [n \in {n \in PeNames : sec(n) # Absent} |-> sec(n)])
  /\ UNCHANGED <<image, slide>>

\* The loader maps an image in the address space as a whole. A header with an
\* absolute pointer belongs to an image that has to be loaded at its link address.
Loaded ==
  /\ image \in Elf \cup MachO \cup Pe /\ slide \in Slides
  /\ image \notin Pe => \A i \in DOMAIN image.segs : SegLo(image.segs[i]) + image.segs[i].memsz < Space
  /\ image \in Pe => slide + image.size < Space
  /\ image \in Elf /\ image.hdr # Absent => (image.hdr.app = "absptr" => slide = 0)
ImagesInit == Loaded /\ built = Absent
ImagesNext == callback \/ build_image \/ build_pe_module
ImagesSpec == ImagesInit /\ [][ImagesNext]_images

-----------------------------------------------------------------------------
(* Properties *)

\* The memory the loader mapped for the image
Mapped ==
  IF image \in Pe THEN {Wrap(slide + i) : i \in 0 .. image.size - 1}
  ELSE UNION {{Wrap(image.segs[s].vaddr + slide + i) : i \in 0 .. image.segs[s].memsz - 1} :
                s \in DOMAIN image.segs}

\* The sections of a module are read in place and unchecked ever after, by walks
\* too: every byte of them is in memory mapped for the image, though an .eh_frame_hdr
\* does not say how long the .eh_frame is (elf.rs:167), and the sizes in the section
\* headers of a PE image may say anything (pe.rs:161).
SectionsAreMapped ==
  built # Absent => \A n \in DOMAIN built.sections :
    LET s == built.sections[n] IN \A i \in 0 .. s.len - 1 : Wrap(s.at + i) \in Mapped

\* The unwinder goes from addresses in memory to those of the module and back by
\* the two bases alone, so that every section has to lie as far from the one base
\* as from the other; and the .eh_frame of an ELF module is the whole of the one
\* the linker wrote the header for, in each of the encodings that are understood
\* and wherever the image was loaded (elf.rs:258).
SectionsLineUp ==
  built # Absent =>
    /\ \A n \in DOMAIN built.sections :
         LET s == built.sections[n] IN Wrap(s.at - built.base_avma) = Wrap(s.svma - built.base_svma)
    /\ image \in Elf => /\ built.sections.eh_frame.svma = image.eh_frame.vaddr
                        /\ built.sections.eh_frame.len >= image.eh_frame.memsz

\* The remove callback finds the key of an image by a scan of its own, and names
\* the module that the add callback built of it (macho.rs:96), if the image has
\* one __TEXT segment.
RemoveNamesAdded ==
  image \in MachO /\ built # Absent /\ Cardinality(Texts) = 1 => image_key = built.lo

=============================================================================
