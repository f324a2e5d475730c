----------------------------- MODULE Coff2noff -------------------------------
(***************************************************************************)
(* The converter of object files (coff2noff/coff2noff.c): the COFF file    *)
(* the cross compiler leaves becomes the NOFF file AddrSpace::Load reads.  *)
(*                                                                         *)
(* Sizes and addresses are in pages.  Page k of the COFF file is the       *)
(* number k >= 1, so that it can be told in the NOFF file and in memory    *)
(* where a page came from; the contents of the NOFF file behind its header *)
(* is the sequence body of such numbers.                                   *)
(*                                                                         *)
(* Files are little endian; a word of a file is the sequence of its bytes. *)
(* A byte is scaled to four bits.  The magic numbers are scaled with it.   *)
(***************************************************************************)
EXTENDS Integers, Sequences

CONSTANTS Programs,  \* names of the user programs
          Coff       \* the COFF file of each, bigEndian if the host that converts
                     \* it is: [f_magic, magic, sections, length, bigEndian]

Byte == 16
Short == 0 .. Byte * Byte - 1
Word == 0 .. Byte * Byte * Byte * Byte - 1

\* struct scnhdr; s_scnptr is the page where the contents of the section begin.
SectionNames == {".text", ".data", ".rdata", ".bss", ".sbss"}
Scnhdr == [s_name : SectionNames, s_paddr : Word, s_size : Word, s_scnptr : Word]

ASSUME ProgramsAssumption ==
  Coff \in [Programs -> [f_magic : Short, magic : Short, sections : Seq(Scnhdr),
                         length : Nat, bigEndian : BOOLEAN]]

MIPSELMAGIC == 1 * 16 + 6
OMAGIC == 1 * 16 + 7
NOFFMAGIC == 11 * 256 + 13 * 16 + 10

-----------------------------------------------------------------------------
(* Byte order.  big is HOST_IS_BIG_ENDIAN. *)

\* The bytes of a word and of a short, the lowest first, and the other way round.
BytesOf(w) == <<w % Byte, (w \div Byte) % Byte, (w \div (Byte * Byte)) % Byte,
                (w \div (Byte * Byte * Byte)) % Byte>>
ShortBytes(w) == <<w % Byte, (w \div Byte) % Byte>>
Turned(b) == <<b[4], b[3], b[2], b[1]>>

\* What a host makes of four bytes of memory, and the bytes it stores for a word.
LoadBytes(b, big) ==
  LET l == IF big THEN Turned(b) ELSE b
  IN  l[1] + l[2] * Byte + l[3] * (Byte * Byte) + l[4] * (Byte * Byte * Byte)
StoreBytes(w, big) == IF big THEN Turned(BytesOf(w)) ELSE BytesOf(w)
LoadShort(b, big) == IF big THEN b[1] * Byte + b[2] ELSE b[1] + b[2] * Byte

WordToHost(w, big) ==
  LET b == BytesOf(w)
  IN  IF big THEN b[4] + b[3] * Byte + b[2] * (Byte * Byte) + b[1] * (Byte * Byte * Byte) ELSE w

ShortToHost(w, big) ==
  LET b == ShortBytes(w) IN IF big THEN b[1] * Byte + b[2] ELSE w

\* The headers as main has them after reading and converting them; the files are
\* those of the little-endian MIPS tools.
ReadShort(w, big) == ShortToHost(LoadShort(ShortBytes(w), big), big)
ReadWord(w, big) == WordToHost(LoadBytes(BytesOf(w), big), big)
ReadScnhdr(s, big) ==
  [s EXCEPT !.s_paddr = ReadWord(@, big), !.s_size = ReadWord(@, big),
            !.s_scnptr = ReadWord(@, big)]

-----------------------------------------------------------------------------
(* The NOFF file. *)

\* The header as main sets it up.  The addresses of a segment that does not
\* occur are never set; nobody reads them, as its size is zero.
NoSegment == [virtualAddr |-> 0, inFileAddr |-> 0, size |-> 0]
EmptyNoff ==
  [exists |-> TRUE, noffMagic |-> NOFFMAGIC, code |-> NoSegment, init |-> NoSegment,
   ro |-> NoSegment, uninit |-> NoSegment, body |-> <<>>]

\* A conversion of every number of the header.
EachOf(seg, Op(_)) ==
  [virtualAddr |-> Op(seg.virtualAddr), inFileAddr |-> Op(seg.inFileAddr),
   size |-> Op(seg.size)]
EachWord(noff, Op(_)) ==
  [exists |-> noff.exists, noffMagic |-> Op(noff.noffMagic), code |-> EachOf(noff.code, Op),
   init |-> EachOf(noff.init, Op), ro |-> EachOf(noff.ro, Op),
   uninit |-> EachOf(noff.uninit, Op), body |-> noff.body]

SwapHeader(noff, big) == EachWord(noff, LAMBDA w : WordToHost(w, big))

\* The header as the bytes main writes.
WriteHeader(noff, big) == EachWord(noff, LAMBDA w : StoreBytes(w, big))

\* Every error path unlinks the file that was begun.
Refuse(noff) == [noff EXCEPT !.exists = FALSE]

\* A section with contents is read from its place in the COFF file and written
\* at the end of the NOFF file.
CopySection(c, noff, seg, s) ==
  IF s.s_scnptr + s.s_size - 1 > c.length
  THEN Refuse(noff)
  ELSE [noff EXCEPT ![seg] = [virtualAddr |-> s.s_paddr,
                              inFileAddr |-> Len(noff.body),
                              size |-> s.s_size],
                    !.body = @ \o [j \in 1 .. s.s_size |-> s.s_scnptr + j - 1]]

\* Uninitialised data has no contents.  A second .bss is refused when it
\* follows the first one, and added to it when it does not.
AddBss(noff, s) ==
  LET u == noff.uninit
  IN  IF u.size = 0
      THEN [noff EXCEPT !.uninit = [virtualAddr |-> s.s_paddr, inFileAddr |-> u.inFileAddr,
                                    size |-> s.s_size]]
      ELSE IF s.s_paddr = u.virtualAddr + u.size
           THEN Refuse(noff)
           ELSE [noff EXCEPT !.uninit.size = (@ + s.s_size) % (Byte * Byte * Byte * Byte)]

\* The body of the loop over the sections; once the program has exited nothing
\* more is done.
ConvertSection(c, noff, s) ==
  CASE ~noff.exists \/ s.s_size = 0 -> noff
    [] noff.exists /\ s.s_size > 0 /\ s.s_name = ".text" -> CopySection(c, noff, "code", s)
    [] noff.exists /\ s.s_size > 0 /\ s.s_name = ".data" -> CopySection(c, noff, "init", s)
    [] noff.exists /\ s.s_size > 0 /\ s.s_name = ".rdata" -> CopySection(c, noff, "ro", s)
    [] noff.exists /\ s.s_size > 0 /\ s.s_name = ".bss" -> AddBss(noff, s)
    [] OTHER -> Refuse(noff)

\* main up to the end of the loop over the sections.
Copied(c) ==
  LET noff[i \in 0 .. Len(c.sections)] ==
        IF i = 0 THEN EmptyNoff
        ELSE ConvertSection(c, noff[i - 1], ReadScnhdr(c.sections[i], c.bigEndian))
  IN  IF /\ ReadShort(c.f_magic, c.bigEndian) = MIPSELMAGIC
         /\ ReadShort(c.magic, c.bigEndian) = OMAGIC
      THEN noff[Len(c.sections)] ELSE Refuse(EmptyNoff)

\* main.
Convert(c) == WriteHeader(SwapHeader(Copied(c), c.bigEndian), c.bigEndian)

\* The NOFF file of each program.
Noff == [name \in Programs |-> Convert(Coff[name])]
=============================================================================
