-------------------------------- MODULE Tlp --------------------------------
(***************************************************************************)
(* The PCIe transaction layer packets of nettlp: what nettlp_support.c     *)
(* computes from an address and a byte count, what it reads back from a    *)
(* header, and how nettlp.c lays out the data of a DMA write.              *)
(*                                                                         *)
(* A 4-bit byte enable is the set of the bytes it enables: bit n of the    *)
(* field is n \in be, so 0 is {} and 0xF is DoubleWord.  An address is a   *)
(* uintptr_t and wraps at AddrSpace.                                       *)
(***************************************************************************)
EXTENDS Integers, Sequences, FiniteSets

CONSTANTS AddrSpace,  \* 2^64, the values of a uintptr_t
          Addr32,     \* 2^32, one more than UINT32_MAX
          LengthMod,  \* 2^10, the length field holds 10 bits (TLP_LENGTH_MASK)
          BcntMod,    \* 2^12, the byte count field (TLP_CPL_BCNT_MASK)
          LowMod      \* 2^7, the lower address field of a completion

ASSUME TlpAssumption ==
    /\ AddrSpace \in Nat /\ AddrSpace % 4 = 0 /\ AddrSpace >= 8
    /\ Addr32 \in 1 .. AddrSpace /\ Addr32 % 4 = 0
    /\ LengthMod \in Nat \ {0}
    /\ BcntMod \in Nat \ {0} /\ BcntMod >= 4 * LengthMod
    /\ LowMod \in Nat \ {0} /\ LowMod % 4 = 0

DoubleWord == 0 .. 3

\* addr & ~3, written (addr >> 2) << 2 in most places
Align(addr) == addr - (addr % 4)

Wrap(addr) == addr % AddrSpace

\* ~(0xF << n) & 0xF
LowBytes(n) == {b \in DoubleWord : b < n}

\* (be << n) & 0xF
ShiftUp(be, n) == {b \in DoubleWord : b - n \in be}

(***************************************************************************)
(* From an address and a count to the fields of a request.                 *)
(***************************************************************************)
\* Mutant: the last double word of an aligned end is the next one.
LstdwPastEnd(addr, count) ==
    LET end == Wrap(addr + count)
        end_start == IF Align(end) <= Align(addr) THEN Wrap(addr + 4)
                                                  ELSE Align(end)
    IN IF end < end_start THEN {} ELSE LowBytes(end - end_start)

tlp_calculate_lstdw(addr, count) ==
    LET end       == Wrap(addr + count)
        last      == IF end % 4 = 0 THEN Wrap(end - 4) ELSE Align(end)
        end_start == IF last <= Align(addr) THEN Wrap(addr + 4) ELSE last
    IN IF end < end_start THEN {} ELSE LowBytes(end - end_start)

tlp_calculate_fstdw(addr, count) ==
    ShiftUp(IF count < 4 THEN LowBytes(count) ELSE DoubleWord, addr % 4)

\* Mutant: the length ignores where in its double word the request starts.
LengthFromCount(addr, count) == (count + 3) \div 4

tlp_calculate_length(addr, count) ==
    (Wrap(Wrap(addr + count) - Align(addr)) + 3) \div 4

\* The header of a DMA read or write.  tlp_set_length() does not cut its
\* argument, tlp_length() does: what is above the field is not read back.
MrHdr(addr, count) ==
    [dw     |-> IF addr < Addr32 - 1 THEN 3 ELSE 4,
     addr   |-> IF addr < Addr32 - 1 THEN Align(addr) % Addr32
                                     ELSE Align(addr),
     fstdw  |-> tlp_calculate_fstdw(addr, count),
     lstdw  |-> tlp_calculate_lstdw(addr, count),
     length |-> tlp_calculate_length(addr, count) % LengthMod]

(***************************************************************************)
(* From the fields of a request back to addresses and lengths.             *)
(***************************************************************************)
\* The disabled bytes before the first enabled one: a loop that breaks.
\* Nothing is skipped when no byte is enabled.
Skipped(be) ==
    IF be = {} THEN 0 ELSE CHOOSE b \in be : \A c \in be : b <= c

\* The disabled bytes after the last enabled one.
Unused(be) ==
    IF be = {} THEN 0 ELSE 3 - (CHOOSE b \in be : \A c \in be : c <= b)

\* All the disabled bytes: a loop that does not break.
Disabled(be) == IF be = {} THEN 0 ELSE Cardinality(DoubleWord \ be)

tlp_mr_addr(mh) == Wrap(mh.addr + Skipped(mh.fstdw))

tlp_mr_data_length(mh) ==
    4 * mh.length - Disabled(mh.fstdw) - Unused(mh.lstdw)

(***************************************************************************)
(* The data of a DMA write, byte by byte after the address.                *)
(***************************************************************************)
PadByte == -1

Pad(n) == [i \in 1 .. n |-> PadByte]

\* Mutant: the loop over the first byte enable stops a byte too early.
FrontPadShort(fstdw) ==
    IF fstdw \in {{}, DoubleWord} THEN 0 ELSE Cardinality((0 .. 1) \ fstdw)

\* Bits 0, 1 and 2 of the first byte enable, whatever the bits after them.
FrontPad(fstdw) ==
    IF fstdw \in {{}, DoubleWord} THEN 0 ELSE Cardinality((0 .. 2) \ fstdw)

\* Mutant: a byte of padding is missing at the end.
TailPadShort(lstdw) ==
    IF lstdw \in {{}, DoubleWord} THEN 0 ELSE Cardinality((2 .. 3) \ lstdw)

TailPad(lstdw) ==
    IF lstdw \in {{}, DoubleWord} THEN 0 ELSE Cardinality((1 .. 3) \ lstdw)

WriteData(mh, payload) ==
    Pad(FrontPad(mh.fstdw)) \o payload \o Pad(TailPad(mh.lstdw))

\* The place of the first byte in that data: 4 or 8 bytes of address are
\* skipped by both sides.
tlp_mwr_data(mh) == Skipped(mh.fstdw)

(***************************************************************************)
(* Completions.  All have 3 double words of header.                        *)
(***************************************************************************)
tlp_cpld_data_length(ch) ==
    IF ch.length = ((ch.lowaddr % 4) + ch.bcnt + 3) \div 4
    THEN ch.bcnt
    ELSE 4 * ch.length - (ch.lowaddr % 4)
=============================================================================
