---------------------------- MODULE PsmemProofs ----------------------------
(***************************************************************************)
(* What nettlp_support.c reads from a header is what the header was made   *)
(* from, for every address, every count and every width of the fields; the *)
(* data of a write is where the byte enables say; and the worker stays in  *)
(* the block, refuses only what is not in it and writes what was meant.    *)
(***************************************************************************)
EXTENDS Psmem, FiniteSetTheorems, SequenceTheorems, TLAPS

\* Nothing wraps below the end of the address space.
LEMMA WrapIdentity ==
    ASSUME NEW x \in 0 .. AddrSpace - 1
    PROVE  Wrap(x) = x
BY TlpAssumption DEF Wrap

\* Aligning takes off at most three bytes and leaves a multiple of four.
LEMMA AlignFacts ==
    ASSUME NEW a \in Nat
    PROVE  /\ Align(a) \in Nat /\ a % 4 \in 0 .. 3
           /\ Align(a) = a - (a % 4) /\ Align(a) % 4 = 0
           /\ Align(a) = 4 * (a \div 4)
BY DEF Align

\* tlp_calculate_fstdw(): the bytes of the first double word from the
\* address to the end of the request.
LEMMA FstdwBytes ==
    ASSUME NEW addr \in Nat, NEW count \in Nat
    PROVE  tlp_calculate_fstdw(addr, count)
             = {b \in 0 .. 3 : addr % 4 <= b /\ b < (addr % 4) + count}
<1>1. addr % 4 \in 0 .. 3
  BY AlignFacts
<1>2. CASE count < 4
  <2>1. tlp_calculate_fstdw(addr, count)
          = {b \in 0 .. 3 : b - (addr % 4) \in {c \in 0 .. 3 : c < count}}
    BY <1>2 DEF tlp_calculate_fstdw, ShiftUp, LowBytes, DoubleWord
  <2>2. ASSUME NEW b \in 0 .. 3
        PROVE  b - (addr % 4) \in {c \in 0 .. 3 : c < count}
                 <=> addr % 4 <= b /\ b < (addr % 4) + count
    BY <1>1
  <2>3. QED
    BY <2>1, <2>2
<1>3. CASE ~ count < 4
  <2>1. tlp_calculate_fstdw(addr, count)
          = {b \in 0 .. 3 : b - (addr % 4) \in 0 .. 3}
    BY <1>3 DEF tlp_calculate_fstdw, ShiftUp, DoubleWord
  <2>2. ASSUME NEW b \in 0 .. 3
        PROVE  b - (addr % 4) \in 0 .. 3
                 <=> addr % 4 <= b /\ b < (addr % 4) + count
    BY <1>1, <1>3
  <2>3. QED
    BY <2>1, <2>2
<1>4. QED
  BY <1>2, <1>3

\* tlp_calculate_length(): the double words from the first to the last byte.
LEMMA LengthIs ==
    ASSUME NEW addr \in 0 .. AddrSpace - 1, NEW count \in Nat,
           addr + count < AddrSpace
    PROVE  tlp_calculate_length(addr, count) = ((addr % 4) + count + 3) \div 4
<1>1. /\ AddrSpace \in Nat /\ addr \in Nat
      /\ addr + count \in 0 .. AddrSpace - 1
  BY TlpAssumption
<1>2. Wrap(addr + count) = addr + count
  BY <1>1, WrapIdentity
<1>3. Align(addr) \in Nat /\ addr % 4 \in 0 .. 3 /\ Align(addr) = addr - (addr % 4)
  BY <1>1, AlignFacts
<1> DEFINE r == addr % 4
<1> HIDE DEF r
<1>4. r \in 0 .. 3 /\ r <= addr /\ Align(addr) = addr - r
  BY <1>1, <1>3 DEF r
<1>5. /\ (addr + count) - Align(addr) = r + count
      /\ r + count \in 0 .. AddrSpace - 1
  BY <1>1, <1>4
<1>6. Wrap((addr + count) - Align(addr)) = (addr % 4) + count
  BY <1>5, WrapIdentity DEF r
<1>7. QED
  BY <1>2, <1>6 DEF tlp_calculate_length

\* tlp_calculate_lstdw(): nothing for a request inside one double word, else
\* the bytes of the last double word up to the end of the request.
LEMMA LstdwBytes ==
    ASSUME NEW addr \in 0 .. AddrSpace - 1, NEW count \in Nat \ {0},
           addr + 4 < AddrSpace, addr + count < AddrSpace
    PROVE  LET n == ((addr % 4) + count + 3) \div 4
           IN tlp_calculate_lstdw(addr, count)
                = IF n = 1 THEN {}
                  ELSE {b \in 0 .. 3 : b < (addr % 4) + count - 4 * (n - 1)}
<1> DEFINE r == addr % 4
           n == (r + count + 3) \div 4
           end == addr + count
           last == IF end % 4 = 0 THEN Wrap(end - 4) ELSE Align(end)
<1>1. /\ AddrSpace \in Nat /\ addr \in Nat /\ count \in Nat /\ count > 0
      /\ end \in 1 .. AddrSpace - 1
      /\ r \in 0 .. 3 /\ Align(addr) = addr - r /\ Align(addr) % 4 = 0
      /\ Align(addr) \in Nat
  BY TlpAssumption, AlignFacts
<1>2. Wrap(addr + count) = end
  BY <1>1, WrapIdentity
<1>3. last = Align(addr) + 4 * (n - 1)
  <2>1. CASE end % 4 = 0
    <3>1. end - 4 \in 0 .. AddrSpace - 1
      BY <1>1, <2>1
    <3>2. last = end - 4
      BY <2>1, <3>1, WrapIdentity
    <3>3. end = Align(addr) + 4 * n
      BY <1>1, <2>1
    <3>4. QED
      BY <1>1, <3>2, <3>3
  <2>2. CASE end % 4 # 0
    <3>1. last = end - (end % 4)
      BY <2>2 DEF Align
    <3>2. QED
      BY <1>1, <2>2, <3>1
  <2>3. QED
    BY <2>1, <2>2
<1>4. n \in Nat /\ n >= 1 /\ 4 * (n - 1) < r + count /\ r + count <= 4 * n
  BY <1>1
<1>5. tlp_calculate_lstdw(addr, count)
        = LET end_start == IF last <= Align(addr) THEN Wrap(addr + 4) ELSE last
          IN IF end < end_start THEN {} ELSE LowBytes(end - end_start)
  BY <1>2 DEF tlp_calculate_lstdw
<1> HIDE DEF last, n
<1>6. CASE n = 1
  <2>1. last = Align(addr) /\ end <= Align(addr) + 4 /\ end <= addr + 4
    BY <1>1, <1>3, <1>4, <1>6
  <2>2. tlp_calculate_lstdw(addr, count)
          = IF end < Wrap(addr + 4) THEN {} ELSE LowBytes(end - Wrap(addr + 4))
    BY <1>1, <1>5, <2>1
  <2>3. Wrap(addr + 4) = addr + 4
    BY <1>1, WrapIdentity
  <2>4. tlp_calculate_lstdw(addr, count) = IF end < addr + 4 THEN {} ELSE LowBytes(0)
    BY <1>1, <2>1, <2>2, <2>3
  <2>5. LowBytes(0) = {}
    BY DEF LowBytes, DoubleWord
  <2>6. QED
    BY <1>6, <2>4, <2>5 DEF n
<1>7. CASE n # 1
  <2>1. last > Align(addr) /\ last <= end /\ end - last \in 0 .. 4
    BY <1>1, <1>3, <1>4, <1>7
  <2>2. tlp_calculate_lstdw(addr, count) = LowBytes(end - last)
    BY <1>1, <1>3, <1>4, <1>5, <2>1
  <2>3. end - last = r + count - 4 * (n - 1)
    BY <1>1, <1>3, <1>4
  <2>4. QED
    BY <1>7, <2>2, <2>3 DEF LowBytes, DoubleWord, n
<1>8. QED
  BY <1>6, <1>7 DEF n

\* Every field of the header of a request that fits.
LEMMA HeaderFields ==
    ASSUME NEW addr \in 0 .. AddrSpace - 1, NEW count \in Nat, Fits(addr, count)
    PROVE  LET r  == addr % 4
               n  == (r + count + 3) \div 4
               mh == MrHdr(addr, count)
           IN /\ r \in 0 .. 3 /\ n \in Nat /\ count >= 1
              /\ 4 * (n - 1) < r + count /\ r + count <= 4 * n
              /\ mh.addr = addr - r
              /\ mh.length = n
              /\ mh.fstdw = {b \in 0 .. 3 : r <= b /\ b < r + count}
              /\ mh.lstdw = IF n = 1 THEN {}
                            ELSE {b \in 0 .. 3 : b < r + count - 4 * (n - 1)}
<1> DEFINE r  == addr % 4
           n  == (r + count + 3) \div 4
           mh == MrHdr(addr, count)
<1>1. /\ AddrSpace \in Nat /\ addr \in Nat /\ count \in Nat \ {0}
      /\ addr + 4 < AddrSpace /\ addr + count < AddrSpace
      /\ Addr32 \in Nat /\ LengthMod \in Nat \ {0}
  BY TlpAssumption DEF Fits
<1>2. r \in 0 .. 3 /\ Align(addr) = addr - r /\ Align(addr) \in Nat
  BY <1>1, AlignFacts
<1>3. n \in Nat /\ count >= 1 /\ 4 * (n - 1) < r + count /\ r + count <= 4 * n
  BY <1>1, <1>2
<1>4. mh.addr = addr - r
  <2>1. CASE addr < Addr32 - 1
    <3>1. Align(addr) \in 0 .. Addr32 - 1
      BY <1>1, <1>2, <2>1
    <3>2. Align(addr) % Addr32 = Align(addr)
      BY <1>1, <3>1
    <3>3. QED
      BY <1>2, <2>1, <3>2 DEF MrHdr
  <2>2. CASE ~ addr < Addr32 - 1
    BY <1>2, <2>2 DEF MrHdr
  <2>3. QED
    BY <2>1, <2>2
<1>5. tlp_calculate_length(addr, count) = n
  BY <1>1, LengthIs
<1>6. mh.length = n
  <2>1. n \in 0 .. LengthMod - 1
    BY <1>1, <1>3, <1>5 DEF Fits
  <2>2. n % LengthMod = n
    BY <1>1, <2>1
  <2>3. QED
    BY <1>5, <2>2 DEF MrHdr
<1>7. mh.fstdw = {b \in 0 .. 3 : r <= b /\ b < r + count}
  BY <1>1, FstdwBytes DEF MrHdr
<1>8. mh.lstdw = IF n = 1 THEN {}
                 ELSE {b \in 0 .. 3 : b < r + count - 4 * (n - 1)}
  BY <1>1, LstdwBytes DEF MrHdr
<1>9. QED
  BY <1>2, <1>3, <1>4, <1>6, <1>7, <1>8

\* The three walks over a byte enable that is an interval of bytes.
LEMMA SkippedIs ==
    ASSUME NEW be \in SUBSET (0 .. 3), NEW r \in be, \A b \in be : r <= b
    PROVE  Skipped(be) = r
<1>1. be # {} /\ \A b \in be : b \in Int
  OBVIOUS
<1>2. ASSUME NEW x \in be, \A c \in be : x <= c
      PROVE  x = r
  BY <1>1, <1>2
<1>3. QED
  BY <1>1, <1>2 DEF Skipped

\* The bytes that are not used after the last enabled one.
LEMMA UnusedIs ==
    ASSUME NEW be \in SUBSET (0 .. 3), NEW m \in be, \A b \in be : b <= m
    PROVE  Unused(be) = 3 - m
<1>1. be # {} /\ \A b \in be : b \in Int
  OBVIOUS
<1>2. ASSUME NEW x \in be, \A c \in be : c <= x
      PROVE  x = m
  BY <1>1, <1>2
<1>3. QED
  BY <1>1, <1>2 DEF Unused

\* The bytes that a first double word leaves out.
LEMMA DisabledIs ==
    ASSUME NEW r \in 0 .. 3, NEW e \in Nat, r < e
    PROVE  Disabled({b \in 0 .. 3 : r <= b /\ b < e})
             = IF e <= 4 THEN 4 - (e - r) ELSE r
<1> DEFINE be == {b \in 0 .. 3 : r <= b /\ b < e}
           m  == IF e <= 4 THEN e - 1 ELSE 3
<1>1. r \in be
  OBVIOUS
<1>2. m \in Int /\ r \in Int /\ r <= m
  OBVIOUS
<1>3. (0 .. 3) \cap be = r .. m
  OBVIOUS
<1>4. Cardinality(r .. m) = m - r + 1
  <2> HIDE DEF m
  <2>1. Cardinality(r .. m) = IF r > m THEN 0 ELSE m - r + 1
    BY <1>2, FS_Interval, ZenonT(30)
  <2>2. QED
    BY <1>2, <2>1
<1>5. IsFiniteSet(0 .. 3) /\ Cardinality(0 .. 3) = 4
  <2>1. 0 \in Int /\ 3 \in Int /\ ~ 0 > 3 /\ 3 - 0 + 1 = 4
    OBVIOUS
  <2>2. IsFiniteSet(0 .. 3) /\ Cardinality(0 .. 3) = IF 0 > 3 THEN 0 ELSE 3 - 0 + 1
    BY <2>1, FS_Interval, ZenonT(30)
  <2>3. QED
    BY <2>1, <2>2, ZenonT(30)
<1>6. Cardinality((0 .. 3) \ be) = 4 - (m - r + 1)
  <2> HIDE DEF m, be
  <2>1. Cardinality((0 .. 3) \ be) = Cardinality(0 .. 3) - Cardinality((0 .. 3) \cap be)
    BY <1>5, FS_Difference, ZenonT(30)
  <2>2. QED
    BY <1>3, <1>4, <1>5, <2>1, ZenonT(30)
<1>7. Disabled(be) = 4 - (m - r + 1)
  BY <1>1, <1>6 DEF Disabled, DoubleWord
<1>8. QED
  BY <1>7

\* The address and the length that are read back from the header.
LEMMA HeaderRoundTrip ==
    ASSUME NEW addr \in 0 .. AddrSpace - 1, NEW count \in Nat, Fits(addr, count)
    PROVE  /\ tlp_mr_addr(MrHdr(addr, count)) = addr
           /\ tlp_mr_data_length(MrHdr(addr, count)) = count
<1> DEFINE r  == addr % 4
           n  == (r + count + 3) \div 4
           mh == MrHdr(addr, count)
<1>1. /\ r \in 0 .. 3 /\ n \in Nat /\ count >= 1
      /\ 4 * (n - 1) < r + count /\ r + count <= 4 * n
      /\ mh.addr = addr - r
      /\ mh.length = n
      /\ mh.fstdw = {b \in 0 .. 3 : r <= b /\ b < r + count}
      /\ mh.lstdw = IF n = 1 THEN {}
                    ELSE {b \in 0 .. 3 : b < r + count - 4 * (n - 1)}
  BY HeaderFields
<1>2. AddrSpace \in Nat /\ addr \in Nat
  BY TlpAssumption
<1> HIDE DEF r, n, mh
<1>3. r \in mh.fstdw /\ mh.fstdw \in SUBSET (0 .. 3) /\ \A b \in mh.fstdw : r <= b
  BY <1>1
<1>4. Skipped(mh.fstdw) = r
  BY <1>3, SkippedIs
<1>5. tlp_mr_addr(mh) = addr
  <2>1. mh.addr + Skipped(mh.fstdw) = addr
    BY <1>1, <1>2, <1>4
  <2>2. QED
    BY <2>1, WrapIdentity DEF tlp_mr_addr
<1>6. Disabled(mh.fstdw) = IF r + count <= 4 THEN 4 - count ELSE r
  <2>1. r + count \in Nat /\ r < r + count /\ (r + count) - r = count
    BY <1>1
  <2>2. QED
    BY <1>1, <2>1, DisabledIs
<1>7. CASE n = 1
  <2>1. mh.lstdw = {} /\ r + count <= 4
    BY <1>1, <1>7
  <2>2. Unused(mh.lstdw) = 0
    BY <2>1 DEF Unused
  <2>3. Disabled(mh.fstdw) = 4 - count
    BY <1>6, <2>1
  <2>4. tlp_mr_data_length(mh) = count
    BY <1>1, <1>7, <2>2, <2>3 DEF tlp_mr_data_length
  <2>5. QED
    BY <1>5, <2>4 DEF mh
<1>8. CASE n # 1
  <2> DEFINE m == r + count - 4 * (n - 1)
  <2>1. m \in 1 .. 4 /\ r + count > 4 /\ mh.lstdw = {b \in 0 .. 3 : b < m}
    BY <1>1, <1>8
  <2>2. m = r + count - 4 * (n - 1)
    OBVIOUS
  <2> HIDE DEF m
  <2>3. /\ m - 1 \in mh.lstdw /\ mh.lstdw \in SUBSET (0 .. 3)
        /\ \A b \in mh.lstdw : b <= m - 1
    BY <2>1
  <2>4. Unused(mh.lstdw) = 3 - (m - 1)
    BY <2>3, UnusedIs
  <2>5. Disabled(mh.fstdw) = r
    BY <1>1, <1>6, <2>1
  <2>6. tlp_mr_data_length(mh) = count
    BY <1>1, <2>1, <2>2, <2>4, <2>5 DEF tlp_mr_data_length
  <2>7. QED
    BY <1>5, <2>6 DEF mh
<1>9. QED
  BY <1>7, <1>8

\* The bytes that the header enables.
LEMMA HeaderEnables ==
    ASSUME NEW addr \in 0 .. AddrSpace - 1, NEW count \in Nat, Fits(addr, count)
    PROVE  EnabledBytes(MrHdr(addr, count)) = addr .. addr + count - 1
<1> DEFINE r  == addr % 4
           n  == (r + count + 3) \div 4
           mh == MrHdr(addr, count)
<1>1. /\ r \in 0 .. 3 /\ n \in Nat /\ count >= 1
      /\ 4 * (n - 1) < r + count /\ r + count <= 4 * n
      /\ mh.addr = addr - r
      /\ mh.length = n
      /\ mh.fstdw = {b \in 0 .. 3 : r <= b /\ b < r + count}
      /\ mh.lstdw = IF n = 1 THEN {}
                    ELSE {b \in 0 .. 3 : b < r + count - 4 * (n - 1)}
  BY HeaderFields
<1>2. addr \in Int
  BY TlpAssumption
<1> HIDE DEF r, n, mh
<1> DEFINE base == addr - r
           top  == 4 * (n - 1)
<1>3. EnabledBytes(mh) = {base + b : b \in mh.fstdw}
                         \cup {base + top + b : b \in mh.lstdw}
                         \cup (base + 4 .. base + top - 1)
  BY <1>1 DEF EnabledBytes
<1>4. base \in Int /\ top \in Int /\ addr = base + r
  BY <1>1, <1>2
<1>5. n = 1 => top = 0
  OBVIOUS
<1>6. n # 1 => top >= 4
  BY <1>1
<1>7. top < r + count /\ r + count <= top + 4
  BY <1>1
<1>8. mh.lstdw = IF n = 1 THEN {} ELSE {b \in 0 .. 3 : b < r + count - top}
  BY <1>1
<1> HIDE DEF base, top
<1>9. ASSUME NEW x
      PROVE  x \in EnabledBytes(mh) <=> x \in addr .. addr + count - 1
  <2>1. ASSUME x \in EnabledBytes(mh)
        PROVE  x \in addr .. addr + count - 1
    <3>1. CASE x \in {base + b : b \in mh.fstdw}
      <4>1. PICK b \in mh.fstdw : x = base + b
        BY <3>1
      <4>2. b \in 0 .. 3 /\ r <= b /\ b < r + count
        BY <1>1, <4>1
      <4>3. QED
        BY <1>1, <1>4, <4>1, <4>2
    <3>2. CASE x \in {base + top + b : b \in mh.lstdw}
      <4>1. PICK b \in mh.lstdw : x = base + top + b
        BY <3>2
      <4>2. n # 1 /\ b \in 0 .. 3 /\ b < r + count - top
        BY <1>8, <4>1
      <4>3. QED
        BY <1>1, <1>4, <1>6, <1>7, <4>1, <4>2
    <3>3. CASE x \in base + 4 .. base + top - 1
      BY <1>1, <1>4, <1>7, <3>3
    <3>4. QED
      BY <1>3, <2>1, <3>1, <3>2, <3>3
  <2>2. ASSUME x \in addr .. addr + count - 1
        PROVE  x \in EnabledBytes(mh)
    <3> DEFINE o == x - base
    <3>1. o \in Int /\ x = base + o /\ r <= o /\ o < r + count /\ o >= 0
      BY <1>1, <1>4, <2>2
    <3> HIDE DEF o
    <3>2. CASE o < 4
      <4>1. o \in mh.fstdw
        BY <1>1, <3>1, <3>2
      <4>2. x \in {base + b : b \in mh.fstdw}
        BY <3>1, <4>1
      <4>3. QED
        BY <1>3, <4>2
    <3>3. CASE o >= 4 /\ o < top
      <4>1. x \in base + 4 .. base + top - 1
        BY <1>4, <3>1, <3>3
      <4>2. QED
        BY <1>3, <4>1
    <3>4. CASE o >= 4 /\ ~ o < top
      <4>1. n # 1
        BY <1>1, <1>5, <1>7, <3>1, <3>4
      <4>2. o - top \in mh.lstdw
        <5>1. o - top \in 0 .. 3 /\ o - top < r + count - top
          BY <1>1, <1>4, <1>7, <3>1, <3>4
        <5>2. mh.lstdw = {b \in 0 .. 3 : b < r + count - top}
          BY <1>8, <4>1
        <5>3. QED
          BY <5>1, <5>2
      <4>3. x = base + top + (o - top)
        BY <1>4, <3>1
      <4>4. x \in {base + top + b : b \in mh.lstdw}
        BY <4>2, <4>3
      <4>5. QED
        BY <1>3, <4>4
    <3>5. QED
      BY <1>4, <3>1, <3>2, <3>3, <3>4
  <2>3. QED
    BY <2>1, <2>2
<1>10. QED
  BY <1>9 DEF mh

(***************************************************************************)
(* The specification.                                                      *)
(***************************************************************************)
\* The packet being handled has the header that was made for it.
ReqMade ==
    req # None => /\ req.addr \in 0 .. AddrSpace - 1 /\ req.count \in Nat
                  /\ req.mh = MrHdr(req.addr, req.count)

\* The worker never changes the header of the packet it handles.
LEMMA RequestsKept == Spec => []ReqMade
<1>1. Init => ReqMade
  BY DEF Init, ReqMade
<1>2. ReqMade /\ [Next]_vars => ReqMade'
  <2> SUFFICES ASSUME ReqMade, [Next]_vars PROVE ReqMade'
    OBVIOUS
  <2>1. ASSUME NEW op \in Ops, NEW addr \in PeerAddrs, NEW count \in PeerCounts,
               ReceiveRequest(op, addr, count)
        PROVE  ReqMade'
    <3>1. addr \in 0 .. AddrSpace - 1 /\ count \in Nat
      BY PsmemAssumption
    <3>2. /\ req'.addr = addr /\ req'.count = count
          /\ req'.mh = MrHdr(addr, count)
      BY <2>1 DEF ReceiveRequest
    <3>3. QED
      BY <3>1, <3>2 DEF ReqMade
  <2>2. CASE SendCompletion
    <3>1. /\ req # None
          /\ req'.addr = req.addr /\ req'.count = req.count /\ req'.mh = req.mh
      BY <2>2 DEF SendCompletion
    <3>2. QED
      BY <3>1 DEF ReqMade
  <2>3. CASE WriteMemory
    <3>1. /\ req # None
          /\ req'.addr = req.addr /\ req'.count = req.count /\ req'.mh = req.mh
      BY <2>3 DEF WriteMemory
    <3>2. QED
      BY <3>1 DEF ReqMade
  <2>4. CASE FreePacket
    BY <2>4 DEF FreePacket, ReqMade
  <2>5. ASSUME NEW new_addr \in NewAddrs, SetPsmemAddr(new_addr)
        PROVE  ReqMade'
    BY <2>5 DEF SetPsmemAddr, ReqMade
  <2>6. ASSUME NEW new_size \in NewSizes, SetPsmemSize(new_size)
        PROVE  ReqMade'
    BY <2>6 DEF SetPsmemSize, ReqMade
  <2>7. CASE UNCHANGED vars
    BY <2>7 DEF vars, ReqMade
  <2>8. QED
    BY <2>1, <2>2, <2>3, <2>4, <2>5, <2>6, <2>7 DEF Next
<1>3. QED
  BY <1>1, <1>2, PTL DEF Spec

\* For every width of the fields, tlp_mr_addr() and tlp_mr_data_length()
\* return what the header of a request was made from.
THEOREM RoundTripHolds == Spec => []RoundTrip
<1>1. ReqMade => RoundTrip
  BY HeaderRoundTrip DEF ReqMade, RoundTrip
<1>2. QED
  BY <1>1, RequestsKept, PTL

\* For every width of the fields, tlp_calculate_fstdw(), _lstdw() and
\* _length() enable the bytes that were asked for and no other.
THEOREM EnablesHold == Spec => []EnablesExact
<1>1. ReqMade => EnablesExact
  BY HeaderEnables DEF ReqMade, EnablesExact
<1>2. QED
  BY <1>1, RequestsKept, PTL

(***************************************************************************)
(* The data of a DMA write.                                                *)
(***************************************************************************)
\* The number of bytes from a to b.
LEMMA Interval ==
    ASSUME NEW a \in Int, NEW b \in Int, a <= b + 1
    PROVE  Cardinality(a .. b) = b - a + 1
<1>1. Cardinality(a .. b) = IF a > b THEN 0 ELSE b - a + 1
  BY FS_Interval, ZenonT(30)
<1>2. QED
  BY <1>1

\* A request that reaches the end of its first double word is padded in
\* front by the bytes before its address and at the end to a double word.
LEMMA PadsAre ==
    ASSUME NEW addr \in 0 .. AddrSpace - 1, NEW count \in Nat, Fits(addr, count),
           (addr % 4) + count >= 4
    PROVE  LET r  == addr % 4
               mh == MrHdr(addr, count)
           IN /\ r \in 0 .. 3
              /\ FrontPad(mh.fstdw) = r /\ tlp_mwr_data(mh) = r
              /\ TailPad(mh.lstdw) = 4 * mh.length - (r + count)
              /\ TailPad(mh.lstdw) \in 0 .. 3
<1> DEFINE r  == addr % 4
           n  == (r + count + 3) \div 4
           mh == MrHdr(addr, count)
<1>1. /\ r \in 0 .. 3 /\ n \in Nat /\ count >= 1
      /\ 4 * (n - 1) < r + count /\ r + count <= 4 * n
      /\ mh.length = n
      /\ mh.fstdw = {b \in 0 .. 3 : r <= b /\ b < r + count}
      /\ mh.lstdw = IF n = 1 THEN {}
                    ELSE {b \in 0 .. 3 : b < r + count - 4 * (n - 1)}
  BY HeaderFields
<1>2. r + count >= 4
  OBVIOUS
<1> HIDE DEF r, n, mh
<1>3. mh.fstdw = {b \in 0 .. 3 : r <= b}
  BY <1>1, <1>2
<1>4. tlp_mwr_data(mh) = r
  <2>1. r \in mh.fstdw /\ mh.fstdw \in SUBSET (0 .. 3) /\ \A b \in mh.fstdw : r <= b
    BY <1>1, <1>3
  <2>2. QED
    BY <2>1, SkippedIs DEF tlp_mwr_data
<1>5. FrontPad(mh.fstdw) = r
  <2>1. CASE r = 0
    <3>1. mh.fstdw = DoubleWord
      BY <1>3, <2>1 DEF DoubleWord
    <3>2. QED
      BY <2>1, <3>1 DEF FrontPad
  <2>2. CASE r # 0
    <3>1. mh.fstdw \notin {{}, DoubleWord}
      <4>1. 0 \in DoubleWord
        BY DEF DoubleWord
      <4>2. 0 \notin mh.fstdw
        BY <1>1, <1>3, <2>2
      <4>3. 3 \in 0 .. 3 /\ r <= 3
        BY <1>1
      <4>4. 3 \in mh.fstdw
        BY <1>3, <4>3
      <4>5. QED
        BY <4>1, <4>2, <4>4
    <3>2. (0 .. 2) \ mh.fstdw = 0 .. r - 1
      BY <1>1, <1>3, <2>2
    <3>3. 0 \in Int /\ r - 1 \in Int /\ 0 <= r - 1 + 1 /\ r - 1 - 0 + 1 = r
      BY <1>1
    <3>4. Cardinality(0 .. r - 1) = r - 1 - 0 + 1
      BY <3>3, Interval
    <3>5. QED
      BY <3>1, <3>2, <3>3, <3>4, Zenon DEF FrontPad
  <2>3. QED
    BY <2>1, <2>2
<1> DEFINE m == r + count - 4 * (n - 1)
<1>6. m \in 1 .. 4 /\ 4 * n - (r + count) = 4 - m
  BY <1>1
<1>7. TailPad(mh.lstdw) = 4 - m
  <2>1. CASE n = 1
    <3>1. mh.lstdw = {} /\ m = 4
      BY <1>1, <1>2, <2>1
    <3>2. QED
      BY <3>1 DEF TailPad
  <2>2. CASE n # 1
    <3>1. mh.lstdw = {b \in 0 .. 3 : b < m}
      BY <1>1, <2>2
    <3> HIDE DEF m
    <3>2. CASE m = 4
      <4>1. mh.lstdw = DoubleWord
        BY <3>1, <3>2 DEF DoubleWord
      <4>2. QED
        BY <3>2, <4>1 DEF TailPad
    <3>3. CASE m # 4
      <4>1. mh.lstdw \notin {{}, DoubleWord}
        <5>1. 0 \in mh.lstdw /\ 3 \in DoubleWord /\ 3 \notin mh.lstdw
          BY <1>6, <3>1, <3>3 DEF DoubleWord
        <5>2. QED
          BY <5>1
      <4>2. (1 .. 3) \ mh.lstdw = m .. 3
        BY <1>6, <3>1, <3>3
      <4>3. m \in Int /\ 3 \in Int /\ m <= 3 + 1 /\ 3 - m + 1 = 4 - m
        BY <1>6
      <4>4. Cardinality(m .. 3) = 3 - m + 1
        BY <4>3, Interval
      <4>5. QED
        BY <4>1, <4>2, <4>3, <4>4, Zenon DEF TailPad
    <3>4. QED
      BY <3>2, <3>3
  <2>3. QED
    BY <2>1, <2>2
<1>8. QED
  BY <1>1, <1>4, <1>5, <1>6, <1>7 DEF r, mh

\* Padding, payload, padding.
Laid(data, f, payload, t) == data = Pad(f) \o payload \o Pad(t)

\* Where the payload is in data that is laid out so.
LEMMA Layout ==
    ASSUME NEW f \in Nat, NEW t \in Nat, NEW count \in Nat, NEW payload \in Seq(Int),
           Len(payload) = count, NEW data, Laid(data, f, payload, t)
    PROVE  /\ data \in Seq(Int) /\ Len(data) = f + count + t
           /\ \A i \in 1 .. count, x \in DOMAIN data :
                 x = f + i => data[x] = payload[i]
<1> DEFINE front == Pad(f)
           tail == Pad(t)
           ahead == front \o payload
<1>1. front \in Seq(Int) /\ Len(front) = f /\ tail \in Seq(Int) /\ Len(tail) = t
  BY DEF Pad, PadByte
<1> HIDE DEF front, tail
<1>2. /\ ahead \in Seq(Int) /\ Len(ahead) = f + count
      /\ \A i \in 1 .. f + count : ahead[i] = IF i <= f THEN front[i] ELSE payload[i - f]
  BY <1>1, ConcatProperties
<1> HIDE DEF ahead
<1>3. /\ data \in Seq(Int) /\ Len(data) = f + count + t
      /\ \A i \in 1 .. f + count + t :
            data[i] = IF i <= f + count THEN ahead[i] ELSE tail[i - (f + count)]
  <2>1. /\ data \in Seq(Int) /\ Len(data) = Len(ahead) + Len(tail)
        /\ \A i \in 1 .. Len(ahead) + Len(tail) :
              data[i] = IF i <= Len(ahead) THEN ahead[i] ELSE tail[i - Len(ahead)]
    <3>1. ahead \in Seq(Int) /\ tail \in Seq(Int)
      BY <1>1, <1>2
    <3>2. data = ahead \o tail
      BY DEF Laid, ahead, front, tail
    <3>3. QED
      BY <3>1, <3>2, ConcatProperties
  <2>2. Len(ahead) = f + count /\ Len(tail) = t
    BY <1>1, <1>2
  <2>3. QED
    BY <2>1, <2>2
<1>4. ASSUME NEW i \in 1 .. count, NEW x \in DOMAIN data, x = f + i
      PROVE  data[x] = payload[i]
  <2>1. x \in 1 .. f + count /\ x \in 1 .. f + count + t /\ x <= f + count
        /\ ~ x <= f /\ x - f = i
    BY <1>4
  <2>2. QED
    BY <1>2, <1>3, <2>1
<1>5. QED
  BY <1>3, <1>4

\* What a request is at each point of the worker, and the data of a write.
Requested ==
    /\ requests \in Nat
    /\ req # None =>
         /\ req.op \in {"MRd", "MWr"}
         /\ req.addr \in PeerAddrs /\ req.count \in PeerCounts
         /\ req.mh = MrHdr(req.addr, req.count)
         /\ req.pc \in IF req.op = "MRd" THEN {"loop", "refused", "done"}
                                         ELSE {"test", "refused", "done"}
         /\ req.op = "MWr" =>
               req.data = WriteData(req.mh, Payload(requests, req.count))

\* At first there is no request.
LEMMA RequestedInit == Init => Requested
BY DEF Init, Requested

\* Every step keeps what is known of the request.
LEMMA RequestedStep ==
    ASSUME Requested, [Next]_vars
    PROVE  Requested'
<1>1. ASSUME NEW op \in Ops, NEW addr \in PeerAddrs, NEW count \in PeerCounts,
             ReceiveRequest(op, addr, count)
      PROVE  Requested'
  <2>1. op \in {"MRd", "MWr"} /\ requests' = requests + 1 /\ requests' \in Nat
    BY <1>1, PsmemAssumption DEF ReceiveRequest, Requested
  <2>2. /\ req'.op = op /\ req'.addr = addr /\ req'.count = count
        /\ req'.mh = MrHdr(addr, count)
        /\ op = "MWr" => req'.data = WriteData(MrHdr(addr, count), Payload(requests + 1, count))
        /\ op = "MRd" => req'.pc \in {"loop", "refused"}
        /\ op = "MWr" => req'.pc = "test"
    BY <1>1, <2>1 DEF ReceiveRequest
  <2>3. QED
    BY <2>1, <2>2 DEF Requested
<1>2. CASE SendCompletion
  <2>1. /\ req # None /\ req.pc = "loop" /\ requests' = requests
        /\ req'.op = req.op /\ req'.addr = req.addr /\ req'.count = req.count
        /\ req'.mh = req.mh /\ req'.pc \in {"loop", "done"}
    BY <1>2 DEF SendCompletion
  <2>2. QED
    BY <2>1 DEF Requested
<1>3. CASE WriteMemory
  <2>1. /\ req # None /\ req.pc = "test" /\ requests' = requests
        /\ req'.op = req.op /\ req'.addr = req.addr /\ req'.count = req.count
        /\ req'.mh = req.mh /\ req'.pc \in {"refused", "done"} /\ req'.data = req.data
    BY <1>3 DEF WriteMemory
  <2>2. QED
    BY <2>1 DEF Requested
<1>4. CASE FreePacket
  BY <1>4 DEF FreePacket, Requested
<1>5. ASSUME NEW new_addr \in NewAddrs, SetPsmemAddr(new_addr)
      PROVE  Requested'
  BY <1>5 DEF SetPsmemAddr, Requested
<1>6. ASSUME NEW new_size \in NewSizes, SetPsmemSize(new_size)
      PROVE  Requested'
  BY <1>6 DEF SetPsmemSize, Requested
<1>7. CASE UNCHANGED vars
  BY <1>7 DEF vars, Requested
<1>8. QED
  BY <1>1, <1>2, <1>3, <1>4, <1>5, <1>6, <1>7 DEF Next

\* The data of a write: its length, and where the payload is in it.
LEMMA DataOfWrite ==
    ASSUME Requested, req # None, req.op = "MWr", Fits(req.addr, req.count),
           (req.addr % 4) + req.count >= 4
    PROVE  LET r == req.addr % 4
           IN /\ r \in 0 .. 3 /\ tlp_mwr_data(req.mh) = r
              /\ req.data \in Seq(Int) /\ Len(req.data) = 4 * req.mh.length
              /\ \A i \in 1 .. req.count : r + i \in DOMAIN req.data
              /\ \A i \in 1 .. req.count, x \in DOMAIN req.data :
                    x = r + i => req.data[x] = Payload(requests, req.count)[i]
<1> DEFINE addr == req.addr
           count == req.count
           r == addr % 4
           mh == MrHdr(addr, count)
           payload == Payload(requests, count)
           t == TailPad(mh.lstdw)
<1>1. /\ addr \in 0 .. AddrSpace - 1 /\ count \in Nat /\ requests \in Nat
      /\ req.mh = mh /\ req.data = WriteData(mh, payload)
  BY PsmemAssumption DEF Requested
<1>2. payload \in Seq(Int) /\ Len(payload) = count
  BY <1>1 DEF Payload
<1>3. /\ r \in 0 .. 3 /\ FrontPad(mh.fstdw) = r /\ tlp_mwr_data(mh) = r
      /\ t = 4 * mh.length - (r + count) /\ t \in 0 .. 3
  BY <1>1, PadsAre
<1>4. mh.length \in Nat
  BY <1>1, HeaderFields
<1> HIDE DEF addr, count, payload, mh, t, r
<1>5. Laid(req.data, r, payload, t)
  BY <1>1, <1>3 DEF WriteData, Laid, t
<1>6. /\ req.data \in Seq(Int) /\ Len(req.data) = r + count + t
      /\ \A i \in 1 .. count, x \in DOMAIN req.data :
            x = r + i => req.data[x] = payload[i]
  <2>1. r \in Nat /\ t \in Nat /\ count \in Nat
    BY <1>1, <1>3
  <2> DEFINE data == req.data
  <2> HIDE DEF data
  <2>2. Laid(data, r, payload, t) /\ payload \in Seq(Int) /\ Len(payload) = count
    BY <1>2, <1>5 DEF data
  <2>3. /\ data \in Seq(Int) /\ Len(data) = r + count + t
    BY <2>1, <2>2, Layout
  <2>4. \A i \in 1 .. count, x \in DOMAIN data : x = r + i => data[x] = payload[i]
    BY <2>1, <2>2, Layout
  <2>5. QED
    BY <2>3, <2>4 DEF data
<1>7. Len(req.data) = 4 * mh.length
  BY <1>1, <1>3, <1>4, <1>6
<1>8. \A i \in 1 .. count : r + i \in DOMAIN req.data
  BY <1>1, <1>3, <1>6
<1>9. QED
  BY <1>1, <1>3, <1>6, <1>7, <1>8 DEF addr, count, r, payload

\* For every width of the fields, the padding of nettlp_send_dma_write()
\* makes the data as long as the header says, when the write reaches the
\* end of its first double word.
THEOREM PacketsWhole == Spec => []PacketWhole
<1>1. Requested => PacketWhole
  BY DataOfWrite DEF PacketWhole
<1>2. Requested /\ [Next]_vars => Requested'
  BY RequestedStep
<1>3. QED
  BY RequestedInit, <1>1, <1>2, PTL DEF Spec

(***************************************************************************)
(* The block of memory.                                                    *)
(***************************************************************************)
BlockInv ==
    /\ psmem_addr \in NewAddrs \cup {0} /\ psmem_size \in Sizes
    /\ psmem_memory = NULL => psmem_addr = 0 \/ psmem_size = 0
    /\ psmem_memory # NULL => psmem_memory \in [0 .. psmem_size - 1 -> Int]

\* What is left of a read lies in the block.
LoopInv ==
    Handled("MRd", "loop") =>
      /\ psmem_memory # NULL
      /\ mrd.len \in Nat /\ mrd.len % 4 = 0 /\ mrd.addr \in Nat
      /\ psmem_addr <= Align(mrd.addr)
      /\ Align(mrd.addr) + mrd.len <= psmem_addr + psmem_size

\* The data of any write is bytes.
LEMMA DataIsBytes ==
    ASSUME Requested, req # None, req.op = "MWr"
    PROVE  req.data \in Seq(Int)
<1>1. \A be : FrontPad(be) \in Nat /\ TailPad(be) \in Nat
  <2>1. ASSUME NEW a \in Int, NEW b \in Int, NEW be
        PROVE  Cardinality((a .. b) \ be) \in Nat
    <3>1. IsFiniteSet(a .. b)
      BY FS_Interval
    <3>2. IsFiniteSet((a .. b) \ be)
      BY <3>1, FS_Difference, Zenon
    <3>3. QED
      BY <3>2, FS_CardinalityType
  <2>2. 0 \in Int /\ 1 \in Int /\ 2 \in Int /\ 3 \in Int
    OBVIOUS
  <2>3. \A be : Cardinality((0 .. 2) \ be) \in Nat /\ Cardinality((1 .. 3) \ be) \in Nat
    BY <2>1, <2>2, Zenon
  <2>4. QED
    BY <2>3 DEF FrontPad, TailPad
<1> DEFINE payload == Payload(requests, req.count)
           f == FrontPad(req.mh.fstdw)
           t == TailPad(req.mh.lstdw)
<1>2. req.count \in Nat /\ requests \in Nat
  BY PsmemAssumption DEF Requested
<1>3. payload \in Seq(Int) /\ Len(payload) = req.count
  BY <1>2 DEF Payload
<1>4. f \in Nat /\ t \in Nat
  BY <1>1
<1>5. Laid(req.data, f, payload, t)
  BY DEF Requested, WriteData, Laid
<1> HIDE DEF f, t, payload
<1>6. QED
  BY <1>2, <1>3, <1>4, <1>5, Layout

\* A block is not NULL.
LEMMA BlockIsNotNull ==
    ASSUME NEW size \in Sizes, NEW block \in [0 .. size - 1 -> Int]
    PROVE  block # NULL /\ size \in Nat
BY PsmemAssumption DEF Sizes

\* Every step keeps the block as large as psmem_size says.
LEMMA BlockStep ==
    ASSUME OrderlyUse, Requested, BlockInv, [Next]_vars
    PROVE  BlockInv'
<1>1. ASSUME NEW new_addr \in NewAddrs, SetPsmemAddr(new_addr)
      PROVE  BlockInv'
  <2>1. CASE Allocated /\ (new_addr = 0 \/ psmem_size = 0)
    <3>1. psmem_memory' = NULL /\ psmem_addr' = psmem_addr /\ psmem_size' = psmem_size
          /\ psmem_size = 0
      BY <1>1, <2>1 DEF SetPsmemAddr, OrderlyUse
    <3>2. QED
      BY <3>1 DEF BlockInv
  <2>2. CASE ~(Allocated /\ (new_addr = 0 \/ psmem_size = 0))
    <3> DEFINE block == IF Allocated THEN Resized(psmem_memory, psmem_size)
                        ELSE Fresh(psmem_size)
    <3>1. psmem_memory' = block /\ psmem_size' = psmem_size
          /\ psmem_addr' \in {psmem_addr, new_addr}
      BY <1>1, <2>2 DEF SetPsmemAddr, Allocations, OrderlyUse
    <3>2. block \in [0 .. psmem_size - 1 -> Int]
      BY DEF BlockInv, Resized, Fresh, Allocated
    <3> HIDE DEF block
    <3>3. block # NULL
      BY <3>2, BlockIsNotNull DEF BlockInv
    <3>4. QED
      BY <3>1, <3>2, <3>3 DEF BlockInv
  <2>3. QED
    BY <2>1, <2>2
<1>2. ASSUME NEW new_size \in NewSizes, SetPsmemSize(new_size)
      PROVE  BlockInv'
  <2>1. CASE Allocated /\ (psmem_addr = 0 \/ new_size = 0)
    <3>1. psmem_memory' = NULL /\ psmem_addr' = psmem_addr /\ psmem_size' = new_size
          /\ (psmem_addr = 0 \/ new_size = 0)
      BY <1>2, <2>1 DEF SetPsmemSize
    <3>2. QED
      BY <3>1 DEF BlockInv, Sizes
  <2>2. CASE ~(Allocated /\ (psmem_addr = 0 \/ new_size = 0))
    <3> DEFINE block == IF Allocated THEN Resized(psmem_memory, new_size)
                        ELSE Fresh(new_size)
    <3>1. psmem_memory' = block /\ psmem_addr' = psmem_addr
          /\ psmem_size' = IF psmem_memory' = NULL THEN psmem_size ELSE new_size
      BY <1>2, <2>2 DEF SetPsmemSize, Allocations, OrderlyUse
    <3>2. block \in [0 .. new_size - 1 -> Int]
      <4>1. CASE Allocated
        <5>1. psmem_memory \in [0 .. psmem_size - 1 -> Int] /\ block = Resized(psmem_memory, new_size)
          BY <4>1 DEF BlockInv, Allocated
        <5>2. QED
          BY <5>1 DEF Resized
      <4>2. CASE ~Allocated
        BY <4>2 DEF Fresh
      <4>3. QED
        BY <4>1, <4>2
    <3> HIDE DEF block
    <3>3. block # NULL /\ new_size \in Sizes
      BY <3>2, BlockIsNotNull DEF Sizes
    <3>4. QED
      BY <3>1, <3>2, <3>3 DEF BlockInv
  <2>3. QED
    BY <2>1, <2>2
<1>3. CASE WriteMemory
  <2>1. UNCHANGED <<psmem_addr, psmem_size>> /\ req # None /\ req.op = "MWr"
    BY <1>3 DEF WriteMemory, Requested
  <2>2. CASE psmem_memory' = psmem_memory
    BY <2>1, <2>2 DEF BlockInv
  <2>3. CASE psmem_memory # NULL /\ psmem_memory' = WriteBytes(tlp_mr_addr(req.mh) - psmem_addr, req.mh, req.data)
    <3>1. psmem_memory \in [0 .. psmem_size - 1 -> Int] /\ psmem_size \in Sizes
      BY <2>3 DEF BlockInv
    <3>2. req.data \in Seq(Int)
      BY <2>1, DataIsBytes
    <3>3. \A i \in DOMAIN req.data : req.data[i] \in Int
      BY <3>2
    <3>4. psmem_memory' \in [0 .. psmem_size - 1 -> Int]
      BY <2>3, <3>1, <3>3 DEF WriteBytes, OutsideByte
    <3>5. psmem_memory' # NULL
      BY <3>1, <3>4, BlockIsNotNull
    <3>6. QED
      BY <2>1, <3>4, <3>5 DEF BlockInv
  <2>4. QED
    BY <1>3, <2>2, <2>3 DEF WriteMemory
<1>4. ASSUME \/ SendCompletion \/ FreePacket \/ UNCHANGED vars
             \/ \E op \in Ops, addr \in PeerAddrs, count \in PeerCounts :
                   ReceiveRequest(op, addr, count)
      PROVE  BlockInv'
  <2>1. UNCHANGED <<psmem_addr, psmem_size, psmem_memory>>
    BY <1>4 DEF SendCompletion, FreePacket, vars, ReceiveRequest
  <2>2. QED
    BY <2>1 DEF BlockInv
<1>5. QED
  BY <1>1, <1>2, <1>3, <1>4 DEF Next

\* What passes the region test is in the block.
LEMMA InBlock ==
    ASSUME OrderlyUse, BlockInv, NEW addr \in PeerAddrs, NEW len \in Nat, len > 0,
           addr + len < AddrSpace, ~OutOfRegion(addr, len)
    PROVE  /\ psmem_memory # NULL /\ psmem_addr \in Nat /\ psmem_size \in Nat
           /\ psmem_addr % 4 = 0 /\ addr \in Nat
           /\ psmem_addr <= addr /\ addr + len <= psmem_addr + psmem_size
<1>1. /\ addr \in Nat /\ AddrSpace \in Nat /\ psmem_addr \in Nat /\ psmem_size \in Nat
      /\ psmem_size \in Sizes
  BY PsmemAssumption, TlpAssumption DEF BlockInv, Sizes
<1>2. psmem_addr + psmem_size < AddrSpace /\ psmem_addr % 4 = 0 /\ psmem_size <= addr
  BY <1>1 DEF OrderlyUse, BlockInv
<1>3. Wrap(addr + len) = addr + len
  BY <1>1, WrapIdentity
<1>4. Wrap(psmem_addr + psmem_size) = psmem_addr + psmem_size
  BY <1>1, <1>2, WrapIdentity
<1>5. psmem_addr <= addr /\ addr + len <= psmem_addr + psmem_size
  BY <1>1, <1>3, <1>4 DEF OutOfRegion
<1>6. psmem_memory # NULL
  BY <1>1, <1>2, <1>5 DEF BlockInv
<1>7. QED
  BY <1>1, <1>2, <1>5, <1>6

\* Every step keeps what is left of a read in the block.
LEMMA LoopStep ==
    ASSUME OrderlyUse, Requested, BlockInv, LoopInv, [Next]_vars
    PROVE  LoopInv'
<1>1. ASSUME NEW op \in Ops, NEW addr \in PeerAddrs, NEW count \in PeerCounts,
             ReceiveRequest(op, addr, count)
      PROVE  LoopInv'
  <2> DEFINE mh == MrHdr(addr, count)
             len == 4 * mh.length
  <2>1. /\ addr \in 0 .. AddrSpace - 1 /\ count \in Nat /\ Fits(addr, count)
        /\ addr + len < AddrSpace /\ AddrSpace \in Nat
    BY PsmemAssumption, TlpAssumption DEF OrderlyUse
  <2>2. tlp_mr_addr(mh) = addr
    BY <2>1, HeaderRoundTrip
  <2>3. len \in Nat /\ len > 0 /\ len % 4 = 0 /\ addr + len < AddrSpace
    <3> DEFINE r == addr % 4
               n == (r + count + 3) \div 4
    <3>1. /\ r \in 0 .. 3 /\ n \in Nat /\ count >= 1 /\ mh.length = n
          /\ 4 * (n - 1) < r + count /\ r + count <= 4 * n
      BY <2>1, HeaderFields
    <3> HIDE DEF r, n, mh
    <3>2. QED
      BY <2>1, <3>1
  <2>4. /\ req'.op = op /\ req'.pc = IF op = "MRd" /\ ~OutOfRegion(addr, len) THEN "loop"
                                     ELSE IF op = "MRd" THEN "refused" ELSE "test"
        /\ mrd'.len = len /\ mrd'.addr = addr
        /\ UNCHANGED <<psmem_addr, psmem_size, psmem_memory>>
    BY <1>1, <2>2 DEF ReceiveRequest
  <2> HIDE DEF len, mh
  <2>5. CASE op = "MRd" /\ ~OutOfRegion(addr, len)
    <3>1. /\ psmem_memory # NULL /\ psmem_addr \in Nat /\ psmem_size \in Nat
          /\ psmem_addr % 4 = 0 /\ addr \in Nat
          /\ psmem_addr <= addr /\ addr + len <= psmem_addr + psmem_size
      BY <2>3, <2>5, InBlock
    <3>2. Align(addr) = 4 * (addr \div 4) /\ Align(addr) <= addr /\ Align(addr) \in Nat
      BY <3>1, AlignFacts
    <3>3. psmem_addr <= Align(addr) /\ Align(addr) + len <= psmem_addr + psmem_size
      BY <2>3, <3>1, <3>2
    <3>4. QED
      BY <2>3, <2>4, <3>1, <3>3 DEF LoopInv
  <2>6. CASE ~(op = "MRd" /\ ~OutOfRegion(addr, len))
    BY <2>4, <2>6 DEF LoopInv, Handled
  <2>7. QED
    BY <2>5, <2>6
<1>2. CASE SendCompletion
  <2> DEFINE send == IF mrd.len < MAXPAYLOADSIZE THEN mrd.len ELSE MAXPAYLOADSIZE
             base == Align(mrd.addr)
  <2>1. /\ req # None /\ req.pc = "loop"
        /\ mrd'.len = mrd.len - send /\ mrd'.addr = base + send
        /\ UNCHANGED <<psmem_addr, psmem_size, psmem_memory>>
    BY <1>2 DEF SendCompletion, Completion
  <2>2. Handled("MRd", "loop")
    BY <2>1 DEF Handled, Requested
  <2>3. /\ psmem_memory # NULL /\ mrd.len \in Nat /\ mrd.len % 4 = 0 /\ mrd.addr \in Nat
        /\ psmem_addr <= base /\ base + mrd.len <= psmem_addr + psmem_size
    BY <2>2 DEF LoopInv
  <2>4. psmem_addr \in Nat /\ psmem_size \in Nat /\ MAXPAYLOADSIZE \in Nat
        /\ MAXPAYLOADSIZE % 4 = 0
    BY PsmemAssumption DEF BlockInv, Sizes
  <2>5. base \in Nat /\ base % 4 = 0
    BY <2>3, AlignFacts
  <2>6. send \in Nat /\ send <= mrd.len /\ send % 4 = 0
    BY <2>3, <2>4
  <2> HIDE DEF send, base
  <2> DEFINE last == base + send
  <2>7. last \in Nat /\ last % 4 = 0
    BY <2>5, <2>6
  <2>8. Align(last) = last
    BY <2>7 DEF Align
  <2>9. mrd.len - send \in Nat /\ (mrd.len - send) % 4 = 0
        /\ psmem_addr <= last /\ last + (mrd.len - send) <= psmem_addr + psmem_size
    BY <2>3, <2>4, <2>5, <2>6
  <2> HIDE DEF last
  <2>10. mrd'.addr = last
    BY <2>1 DEF last
  <2>11. QED
    BY <2>1, <2>3, <2>7, <2>8, <2>9, <2>10 DEF LoopInv
<1>3. CASE WriteMemory
  <2>1. req'.op = req.op /\ req.op = "MWr"
    BY <1>3 DEF WriteMemory, Requested
  <2>2. QED
    BY <2>1 DEF LoopInv, Handled
<1>4. CASE FreePacket
  BY <1>4 DEF FreePacket, LoopInv, Handled
<1>5. ASSUME \/ \E new_addr \in NewAddrs : SetPsmemAddr(new_addr)
             \/ \E new_size \in NewSizes : SetPsmemSize(new_size)
      PROVE  LoopInv'
  BY <1>5 DEF SetPsmemAddr, SetPsmemSize, LoopInv, Handled
<1>6. CASE UNCHANGED vars
  BY <1>6 DEF vars, LoopInv, Handled
<1>7. QED
  BY <1>1, <1>2, <1>3, <1>4, <1>5, <1>6 DEF Next

\* The request at hand is one that fits, and its header says so.
LEMMA RequestFits ==
    ASSUME OrderlyUse, Requested, req # None
    PROVE  /\ req.addr \in PeerAddrs /\ req.addr \in 0 .. AddrSpace - 1
           /\ req.count \in Nat /\ req.count >= 1 /\ req.addr + req.count < AddrSpace
           /\ Fits(req.addr, req.count)
           /\ tlp_mr_addr(req.mh) = req.addr /\ tlp_mr_data_length(req.mh) = req.count
<1>1. /\ req.addr \in PeerAddrs /\ req.count \in PeerCounts
      /\ req.mh = MrHdr(req.addr, req.count)
  BY DEF Requested
<1>2. req.addr \in 0 .. AddrSpace - 1 /\ req.count \in Nat /\ Fits(req.addr, req.count)
  BY <1>1, PsmemAssumption DEF OrderlyUse
<1>3. req.count >= 1 /\ req.addr + req.count < AddrSpace
  BY <1>2 DEF Fits
<1>4. QED
  BY <1>1, <1>2, <1>3, HeaderRoundTrip

\* What the invariants say is what AccessInside asks for.
LEMMA InsideNow ==
    ASSUME OrderlyUse, Requested, BlockInv, LoopInv
    PROVE  AccessInside
<1>1. ASSUME Handled("MRd", "loop"), NEW i \in 0 .. SendLen - 1
      PROVE  Align(mrd.addr) - psmem_addr + i \in Offsets
  <2>1. /\ psmem_memory # NULL /\ mrd.len \in Nat /\ mrd.addr \in Nat
        /\ psmem_addr <= Align(mrd.addr)
        /\ Align(mrd.addr) + mrd.len <= psmem_addr + psmem_size
    BY <1>1 DEF LoopInv
  <2>2. /\ psmem_addr \in Nat /\ psmem_size \in Nat /\ MAXPAYLOADSIZE \in Nat
        /\ Align(mrd.addr) \in Nat
    <3>1. psmem_addr \in Nat /\ psmem_size \in Nat /\ MAXPAYLOADSIZE \in Nat
      BY PsmemAssumption DEF BlockInv, Sizes
    <3>2. Align(mrd.addr) \in Nat
      BY <2>1, AlignFacts
    <3>3. QED
      BY <3>1, <3>2
  <2>3. i \in 0 .. mrd.len - 1
    BY <2>1, <2>2 DEF SendLen
  <2>4. Offsets = 0 .. psmem_size - 1
    BY <2>1 DEF BlockInv, Offsets
  <2>5. QED
    BY <2>1, <2>2, <2>3, <2>4
<1>2. ASSUME Handled("MWr", "test"),
             ~OutOfRegion(tlp_mr_addr(req.mh), tlp_mr_data_length(req.mh)),
             NEW i \in 0 .. tlp_mr_data_length(req.mh) - 1
      PROVE  tlp_mr_addr(req.mh) - psmem_addr + i \in Offsets
  <2>1. /\ req.addr \in PeerAddrs /\ req.count \in Nat /\ req.count > 0
        /\ req.addr + req.count < AddrSpace
        /\ tlp_mr_addr(req.mh) = req.addr /\ tlp_mr_data_length(req.mh) = req.count
    BY <1>2, RequestFits DEF Handled
  <2>2. /\ psmem_memory # NULL /\ psmem_addr \in Nat /\ psmem_size \in Nat /\ req.addr \in Nat
        /\ psmem_addr <= req.addr /\ req.addr + req.count <= psmem_addr + psmem_size
    BY <1>2, <2>1, InBlock
  <2>3. Offsets = 0 .. psmem_size - 1
    BY <2>2 DEF BlockInv, Offsets
  <2>4. QED
    BY <1>2, <2>1, <2>2, <2>3
<1>3. QED
  BY <1>1, <1>2 DEF AccessInside

\* The inductive invariant of the pseudo memory.
MemoryInv == Requested /\ BlockInv /\ LoopInv

\* The invariant holds when the worker starts.
LEMMA MemoryInit == Init => MemoryInv
<1>1. Init => BlockInv /\ LoopInv
  BY DEF Init, BlockInv, LoopInv, Handled, Sizes
<1>2. QED
  BY <1>1, RequestedInit DEF MemoryInv

\* Every step keeps the invariant.
LEMMA MemoryStep ==
    ASSUME OrderlyUse, MemoryInv, [Next]_vars
    PROVE  MemoryInv'
BY RequestedStep, BlockStep, LoopStep DEF MemoryInv

\* With orderly use, no memcpy() of nettlp_psmem_mrd() or nettlp_psmem_mwr()
\* leaves the block, in whichever order the shell moves and resizes it and
\* requests arrive.
THEOREM AccessesInside ==
    ASSUME OrderlyUse
    PROVE  Spec => []AccessInside
<1>1. MemoryInv => AccessInside
  BY InsideNow DEF MemoryInv
<1>2. MemoryInv /\ [Next]_vars => MemoryInv'
  BY MemoryStep
<1>3. QED
  BY MemoryInit, <1>1, <1>2, PTL DEF Spec

\* What fails the region test has a byte out of the region.
LEMMA OutOfBlock ==
    ASSUME OrderlyUse, MemoryInv, req # None, OutOfRegion(req.addr, req.count)
    PROVE  ~ Asked \subseteq 0 .. psmem_size - 1
<1>1. /\ req.addr \in 0 .. AddrSpace - 1 /\ req.count \in Nat /\ req.count >= 1
      /\ req.addr + req.count < AddrSpace
  BY RequestFits DEF MemoryInv
<1>2. /\ psmem_addr \in Nat /\ psmem_size \in Nat /\ AddrSpace \in Nat
      /\ psmem_addr + psmem_size < AddrSpace
  BY PsmemAssumption, TlpAssumption DEF MemoryInv, BlockInv, Sizes, OrderlyUse
<1>3. Wrap(req.addr + req.count) = req.addr + req.count
  BY <1>1, <1>2, WrapIdentity
<1>4. Wrap(psmem_addr + psmem_size) = psmem_addr + psmem_size
  BY <1>2, WrapIdentity
<1>5. \/ req.addr < psmem_addr
      \/ req.addr + req.count > psmem_addr + psmem_size
  BY <1>1, <1>2, <1>3, <1>4 DEF OutOfRegion
<1>6. CASE req.addr < psmem_addr
  <2>1. req.addr - psmem_addr \in Asked
    BY <1>1, <1>2 DEF Asked
  <2>2. QED
    BY <1>1, <1>2, <1>6, <2>1
<1>7. CASE req.addr + req.count > psmem_addr + psmem_size
  <2>1. (req.addr + req.count - 1) - psmem_addr \in Asked
    BY <1>1, <1>2 DEF Asked
  <2>2. QED
    BY <1>1, <1>2, <1>7, <2>1
<1>8. QED
  BY <1>5, <1>6, <1>7

\* A refused write stays one with a byte out of the region.
LEMMA RefusalStep ==
    ASSUME OrderlyUse, MemoryInv, WriteRefusal, [Next]_vars
    PROVE  WriteRefusal'
<1>1. CASE WriteMemory
  <2>1. /\ req # None /\ req'.addr = req.addr /\ req'.count = req.count
        /\ psmem_addr' = psmem_addr /\ psmem_size' = psmem_size
        /\ req'.pc = "refused" =>
              OutOfRegion(tlp_mr_addr(req.mh), tlp_mr_data_length(req.mh))
    BY <1>1 DEF WriteMemory
  <2>2. tlp_mr_addr(req.mh) = req.addr /\ tlp_mr_data_length(req.mh) = req.count
    BY <2>1, RequestFits DEF MemoryInv
  <2>3. Asked' = Asked
    BY <2>1 DEF Asked
  <2>4. req'.pc = "refused" => ~ Asked \subseteq 0 .. psmem_size - 1
    BY <2>1, <2>2, OutOfBlock
  <2>5. QED
    BY <2>1, <2>3, <2>4 DEF WriteRefusal, Handled
<1>2. ASSUME NEW op \in Ops, NEW addr \in PeerAddrs, NEW count \in PeerCounts,
             ReceiveRequest(op, addr, count)
      PROVE  WriteRefusal'
  <2>1. req'.op = "MWr" => req'.pc = "test"
    BY <1>2 DEF ReceiveRequest
  <2>2. QED
    BY <2>1 DEF WriteRefusal, Handled
<1>3. CASE SendCompletion
  <2>1. req'.pc \in {"loop", "done"}
    BY <1>3 DEF SendCompletion
  <2>2. QED
    BY <2>1 DEF WriteRefusal, Handled
<1>4. ASSUME \/ FreePacket
             \/ \E new_addr \in NewAddrs : SetPsmemAddr(new_addr)
             \/ \E new_size \in NewSizes : SetPsmemSize(new_size)
      PROVE  WriteRefusal'
  <2>1. req' = None
    BY <1>4 DEF FreePacket, SetPsmemAddr, SetPsmemSize
  <2>2. QED
    BY <2>1 DEF WriteRefusal, Handled, None
<1>5. CASE UNCHANGED vars
  BY <1>5 DEF vars, WriteRefusal, Handled, Asked
<1>6. QED
  BY <1>1, <1>2, <1>3, <1>4, <1>5 DEF Next

\* With orderly use, nettlp_psmem_mwr() refuses a write only if it has a
\* byte out of the region of psmem_addr and psmem_size.
THEOREM RefusedWritesLeave ==
    ASSUME OrderlyUse
    PROVE  Spec => []WriteRefusal
<1>1. Init => WriteRefusal
  BY DEF Init, WriteRefusal, Handled
<1>2. MemoryInv /\ WriteRefusal /\ [Next]_vars => WriteRefusal'
  BY RefusalStep
<1>3. MemoryInv /\ [Next]_vars => MemoryInv'
  BY MemoryStep
<1>4. QED
  BY MemoryInit, <1>1, <1>2, <1>3, PTL DEF Spec

\* A write that is carried out, and that reaches the end of its first double
\* word, puts its payload where the peer meant it.
LEMMA WriteStep ==
    ASSUME OrderlyUse, MemoryInv, WriteMemory, Handled("MWr", "test"),
           req'.pc = "done", (req.addr % 4) + req.count >= 4
    PROVE  WritesWhatWasMeant
<1> DEFINE addr == req.addr
           count == req.count
           r == addr % 4
           data == req.data
           payload == Payload(requests, count)
           first == addr - psmem_addr
<1>1. /\ addr \in PeerAddrs /\ addr \in Nat /\ count \in Nat /\ count >= 1
      /\ addr + count < AddrSpace /\ Fits(addr, count)
      /\ tlp_mr_addr(req.mh) = addr /\ tlp_mr_data_length(req.mh) = count
  BY RequestFits DEF MemoryInv, Handled
<1>2. ~OutOfRegion(addr, count)
  BY <1>1 DEF WriteMemory
<1>3. /\ psmem_memory # NULL /\ psmem_addr \in Nat /\ psmem_size \in Nat
      /\ psmem_addr <= addr /\ addr + count <= psmem_addr + psmem_size
  BY <1>1, <1>2, InBlock DEF MemoryInv
<1>4. psmem_memory' = WriteBytes(first, req.mh, data)
  BY <1>1, <1>2, <1>3 DEF WriteMemory
<1>5. /\ r \in 0 .. 3 /\ tlp_mwr_data(req.mh) = r
      /\ \A i \in 1 .. count : r + i \in DOMAIN data
      /\ \A i \in 1 .. count, x \in DOMAIN data : x = r + i => data[x] = payload[i]
  BY <1>1, DataOfWrite DEF MemoryInv, Handled
<1>6. DOMAIN psmem_memory = 0 .. psmem_size - 1 /\ Offsets = DOMAIN psmem_memory
  BY <1>3 DEF MemoryInv, BlockInv, Offsets
<1> HIDE DEF r, data, payload
<1>7. \A o \in Offsets : o \in Asked <=> o \in first .. first + count - 1
  <2>1. \A o \in Int : o \in Asked <=> o + psmem_addr \in addr .. addr + count - 1
    BY <1>1, <1>3 DEF Asked
  <2>2. Offsets \subseteq Int
    BY <1>3, <1>6
  <2>3. addr \in Nat /\ count \in Nat /\ psmem_addr \in Nat
    BY <1>1, <1>3
  <2> HIDE DEF addr, count
  <2>4. \A o \in Int : o + psmem_addr \in addr .. addr + count - 1
                       <=> o \in first .. first + count - 1
    BY <2>3
  <2>5. QED
    BY <2>1, <2>2, <2>4
<1>8. psmem_memory' =
        [o \in Offsets |-> LET i == o - first + 1 + r
                           IN IF o \notin first .. first + count - 1
                              THEN psmem_memory[o]
                              ELSE IF i \in DOMAIN data THEN data[i] ELSE OutsideByte]
  BY <1>1, <1>4, <1>5, <1>6 DEF WriteBytes
<1>9. ASSUME NEW o \in Offsets, o \in first .. first + count - 1
      PROVE  /\ (o - first + 1 + r) \in DOMAIN data
             /\ data[o - first + 1 + r] = payload[o - first + 1]
  <2> DEFINE i == o - first + 1
             x == o - first + 1 + r
  <2>1. i \in 1 .. count /\ x = r + i
    <3>1. o \in Int /\ first \in Int /\ count \in Nat /\ r \in Nat
      BY <1>1, <1>3, <1>5, <1>6
    <3> HIDE DEF first, count
    <3>2. QED
      BY <1>9, <3>1
  <2> HIDE DEF i, x
  <2>2. x \in DOMAIN data /\ data[x] = payload[i]
    BY <1>5, <2>1
  <2>3. QED
    BY <2>2 DEF i, x
<1> DEFINE before == [o \in Offsets |-> IF o \in Asked THEN payload[o - first + 1]
                                        ELSE psmem_memory[o]]
<1> HIDE DEF first
<1>10. psmem_memory' = before
  BY <1>7, <1>8, <1>9
<1>11. QED
  BY <1>10 DEF WritesWhatWasMeant, before, first, payload

\* With orderly use, nettlp_psmem_mwr() and the padding of
\* nettlp_send_dma_write() change the bytes the peer meant, to its payload,
\* and no other byte, when the write reaches the end of its first double
\* word.
THEOREM WritesExact ==
    ASSUME OrderlyUse
    PROVE  Spec => WriteExact
<1>1. MemoryInv /\ [Next]_vars =>
        [(/\ Handled("MWr", "test") /\ req'.pc = "done"
          /\ (req.addr % 4) + req.count >= 4) => WritesWhatWasMeant]_vars
  <2> SUFFICES ASSUME MemoryInv, Next, Handled("MWr", "test"), req'.pc = "done",
                      (req.addr % 4) + req.count >= 4
               PROVE  WritesWhatWasMeant
    OBVIOUS
  <2>1. req # None /\ req.pc = "test"
    BY DEF Handled
  <2>2. WriteMemory
    BY <2>1 DEF Next, ReceiveRequest, SendCompletion, FreePacket, SetPsmemAddr,
                SetPsmemSize
  <2>3. QED
    BY <2>2, WriteStep
<1>2. MemoryInv /\ [Next]_vars => MemoryInv'
  BY MemoryStep
<1>3. QED
  BY MemoryInit, <1>1, <1>2, PTL DEF Spec, WriteExact

(***************************************************************************)
(* Reads: the completions of a read continue one another.                  *)
(***************************************************************************)
\* What a completion leaves to be sent.
Left(ch) == ch.bcnt - Len(Received(ch))

\* The bytes of a completion are those the request has at its byte count.
Right(ch) ==
    Received(ch) = ReadBytes(req.addr - psmem_addr + (req.count - ch.bcnt),
                             Len(Received(ch)))

\* The fields of a completion.
Completions == [length : Int, bcnt : Int, lowaddr : Int, data : Seq(Int)]

\* The double words of a request of so many bytes, from so far in the first.
Whole(len, r, bytes) == len = 4 * ((r + bytes + 3) \div 4)

\* Where the loop of nettlp_psmem_mrd() is in the request.
Place ==
    /\ mrd.data_len \in Nat /\ mrd.data_len >= 1 /\ mrd.data_len <= req.count
    /\ mrd.addr = req.addr + (req.count - mrd.data_len)
    /\ Whole(mrd.len, mrd.addr % 4, mrd.data_len)
    /\ mrd.len < 4 * LengthMod

\* Each completion that was sent is right and leaves what the next one says;
\* the last one leaves what the loop has still to send.
Chain ==
    /\ cpls \in Seq(Completions)
    /\ \A i \in 1 .. Len(cpls) : Right(cpls[i])
    /\ \A i \in 1 .. Len(cpls) - 1 : Left(cpls[i]) = cpls[i + 1].bcnt
    /\ cpls # <<>> => cpls[1].bcnt = req.count

\* What holds between two turns of the loop of a read.
ReadInv ==
    /\ Handled("MRd", "loop") =>
         /\ Place /\ Chain
         /\ mrd.data_len = IF cpls = <<>> THEN req.count ELSE Left(cpls[Len(cpls)])
    /\ Handled("MRd", "done") =>
         Chain /\ cpls # <<>> /\ Left(cpls[Len(cpls)]) = 0

\* The fields of a completion hold what they are given: a length, a byte
\* count and the place in a double word.
LEMMA FieldsHold ==
    ASSUME NEW addr \in Nat, NEW data_len \in Nat, NEW send \in Nat,
           send % 4 = 0, send < 4 * LengthMod, data_len < 4 * LengthMod
    PROVE  /\ (send \div 4) % LengthMod = send \div 4
           /\ data_len % BcntMod = data_len
           /\ (addr % LowMod) % 4 = addr % 4 /\ addr % LowMod \in Nat
<1>1. /\ LengthMod \in Nat \ {0} /\ BcntMod \in Nat \ {0} /\ BcntMod >= 4 * LengthMod
      /\ LowMod \in Nat \ {0} /\ LowMod % 4 = 0
  BY TlpAssumption
<1>2. send \div 4 \in 0 .. LengthMod - 1
  BY <1>1
<1>3. data_len \in 0 .. BcntMod - 1
  BY <1>1
<1>4. \A m \in Nat \ {0}, x \in Nat : x < m => x % m = x
  OBVIOUS
<1>5. (addr % LowMod) % 4 = addr % 4
  <2> DEFINE q == addr \div LowMod
             l == LowMod \div 4
             m == addr % LowMod
  <2>1. LowMod = 4 * l /\ l \in Nat
    BY <1>1
  <2>2. q \in Nat /\ m \in Nat /\ addr = LowMod * q + m
    BY <1>1
  <2> HIDE DEF q, l, m
  <2>3. PICK p \in Nat : p = l * q
    BY <2>1, <2>2
  <2>4. addr = 4 * p + m
    <3>1. LowMod * q = 4 * (l * q)
      BY <2>1, <2>2
    <3>2. QED
      BY <2>2, <2>3, <3>1
  <2>5. m % 4 = addr % 4
    BY <2>2, <2>3, <2>4
  <2>6. QED
    BY <2>5 DEF m
<1>6. QED
  BY <1>1, <1>2, <1>3, <1>4, <1>5

\* memcpy() of a block gives bytes, and a part of them is a memcpy() too.
LEMMA ReadBytesFacts ==
    ASSUME BlockInv, NEW offset \in Int, NEW n \in Nat
    PROVE  /\ ReadBytes(offset, n) \in Seq(Int) /\ Len(ReadBytes(offset, n)) = n
           /\ \A r \in Nat, k \in Nat : r + k <= n =>
                 /\ SubSeq(ReadBytes(offset, n), r + 1, r + k) = ReadBytes(offset + r, k)
                 /\ Len(ReadBytes(offset + r, k)) = k
<1> DEFINE Byte(o) == IF o \in Offsets THEN psmem_memory[o] ELSE OutsideByte
<1>1. ASSUME NEW o PROVE Byte(o) \in Int
  <2>1. CASE psmem_memory = NULL
    BY <2>1 DEF Offsets, OutsideByte
  <2>2. CASE psmem_memory # NULL
    <3>1. psmem_memory \in [0 .. psmem_size - 1 -> Int] /\ Offsets = 0 .. psmem_size - 1
      BY <2>2 DEF BlockInv, Offsets
    <3>2. QED
      BY <3>1 DEF OutsideByte
  <2>3. QED
    BY <2>1, <2>2
<1>2. \A o, k : ReadBytes(o, k) = [i \in 1 .. k |-> Byte(o + i - 1)]
  BY DEF ReadBytes
<1> HIDE DEF Byte
<1>3. \A o \in Int, k \in Nat : ReadBytes(o, k) \in Seq(Int) /\ Len(ReadBytes(o, k)) = k
  BY <1>1, <1>2
<1>4. ASSUME NEW r \in Nat, NEW k \in Nat, r + k <= n
      PROVE  /\ SubSeq(ReadBytes(offset, n), r + 1, r + k) = ReadBytes(offset + r, k)
             /\ Len(ReadBytes(offset + r, k)) = k
  <2> DEFINE s == ReadBytes(offset, n)
  <2>1. s \in Seq(Int) /\ Len(s) = n
    BY <1>3
  <2>2. SubSeq(s, r + 1, r + k) = [i \in 1 .. k |-> s[i + r]]
    <3> HIDE DEF s
    <3>1. SubSeq(s, r + 1, r + k) = [i \in 1 .. ((r + k) - (r + 1) + 1) |-> s[i + (r + 1) - 1]]
      BY <2>1, <1>4
    <3>2. (r + k) - (r + 1) + 1 = k /\ \A i \in 1 .. k : i + (r + 1) - 1 = i + r
      OBVIOUS
    <3>3. QED
      BY <3>1, <3>2
  <2>3. \A i \in 1 .. k : s[i + r] = Byte(offset + r + i - 1)
    <3> TAKE i \in 1 .. k
    <3>1. i + r \in 1 .. n /\ offset + (i + r) - 1 = offset + r + i - 1
      BY <1>4
    <3>2. QED
      BY <1>2, <3>1
  <2>4. offset + r \in Int
    OBVIOUS
  <2>5. QED
    BY <1>2, <1>3, <2>2, <2>3, <2>4
<1>5. ReadBytes(offset, n) \in Seq(Int) /\ Len(ReadBytes(offset, n)) = n
  BY <1>3
<1>6. QED
  BY <1>4, <1>5

\* The completion of one turn of the loop.
Built(ch, addr, data_len, send, offset) ==
    ch = [length  |-> (send \div 4) % LengthMod,
          bcnt    |-> data_len % BcntMod,
          lowaddr |-> addr % LowMod,
          data    |-> ReadBytes(offset, send)]

\* One turn of the loop, from the variables of the loop to the n bytes a
\* requester takes out of the completion.
Turn(addr, r, data_len, len, send, offset, ch, n) ==
    /\ addr \in Nat /\ r \in 0 .. 3 /\ r = addr % 4
    /\ data_len \in Nat /\ data_len >= 1
    /\ len \in Nat /\ Whole(len, r, data_len) /\ len < 4 * LengthMod
    /\ send = IF len < MAXPAYLOADSIZE THEN len ELSE MAXPAYLOADSIZE
    /\ offset \in Int /\ Built(ch, addr, data_len, send, offset)
    /\ n = IF send = len THEN data_len ELSE send - r

\* One completion: the bytes from the address on, as many as are left or as
\* many as the double words that are sent hold.
LEMMA OneCompletion ==
    ASSUME BlockInv, NEW addr, NEW r, NEW data_len, NEW len, NEW send, NEW offset,
           NEW ch, NEW n, Turn(addr, r, data_len, len, send, offset, ch, n)
    PROVE  /\ ch \in Completions
           /\ ch.bcnt = data_len /\ n \in Nat
           /\ Received(ch) = ReadBytes(offset + r, n)
           /\ Len(Received(ch)) = n
<1> USE DEF Turn
<1>1. MAXPAYLOADSIZE \in Nat /\ MAXPAYLOADSIZE % 4 = 0 /\ MAXPAYLOADSIZE >= 4
      /\ LengthMod \in Nat
  BY PsmemAssumption, TlpAssumption
<1>2. PICK w \in Nat : /\ w = (r + data_len + 3) \div 4 /\ len = 4 * w
                       /\ r + data_len <= len /\ len < r + data_len + 4
  BY DEF Whole
<1>3. PICK m \in Nat : MAXPAYLOADSIZE = 4 * m /\ m >= 1
  BY <1>1
<1> DEFINE v == IF w < m THEN w ELSE m
<1>4. v \in Nat /\ v >= 1 /\ v <= w /\ send = 4 * v
  BY <1>2, <1>3
<1> HIDE DEF v
<1>5. send \in Nat /\ send \div 4 = v /\ send % 4 = 0 /\ send < 4 * LengthMod
      /\ (send = len <=> v = w)
  BY <1>1, <1>2, <1>4
<1>6. data_len < 4 * LengthMod
  BY <1>1, <1>2
<1>7. /\ (send \div 4) % LengthMod = send \div 4
      /\ data_len % BcntMod = data_len
      /\ (addr % LowMod) % 4 = addr % 4 /\ addr % LowMod \in Nat
  BY <1>5, <1>6, FieldsHold
<1>8. /\ ReadBytes(offset, send) \in Seq(Int)
      /\ \A a \in Nat, k \in Nat : a + k <= send =>
            /\ SubSeq(ReadBytes(offset, send), a + 1, a + k) = ReadBytes(offset + a, k)
            /\ Len(ReadBytes(offset + a, k)) = k
  BY <1>5, ReadBytesFacts
<1>9. /\ ch.length = v /\ ch.bcnt = data_len /\ ch.lowaddr % 4 = r
      /\ ch.data = ReadBytes(offset, send) /\ ch \in Completions
  BY <1>4, <1>5, <1>7, <1>8 DEF Built, Completions
<1>10. n \in Nat /\ r \in Nat /\ r + n <= send
  <2>1. r \in Nat /\ send - r \in Nat /\ r + (send - r) <= send
    <3>1. \A x \in Nat, y \in 0 .. 3 :
            x >= 1 => y \in Nat /\ 4 * x - y \in Nat /\ y + (4 * x - y) <= 4 * x
      OBVIOUS
    <3>2. QED
      BY <1>4, <3>1, Zenon
  <2>2. send = len => r + data_len <= send
    BY <1>2
  <2>3. QED
    BY <2>1, <2>2
<1>11. tlp_cpld_data_length(ch) = n
  <2>1. ch.length = ((ch.lowaddr % 4) + ch.bcnt + 3) \div 4 <=> send = len
    BY <1>2, <1>5, <1>9
  <2>2. 4 * ch.length - (ch.lowaddr % 4) = send - r
    BY <1>4, <1>9
  <2>3. QED
    BY <1>9, <2>1, <2>2 DEF tlp_cpld_data_length
<1>12. Received(ch) = SubSeq(ReadBytes(offset, send), r + 1, r + n)
  BY <1>9, <1>11 DEF Received
<1>13. /\ SubSeq(ReadBytes(offset, send), r + 1, r + n) = ReadBytes(offset + r, n)
       /\ Len(ReadBytes(offset + r, n)) = n
  BY <1>8, <1>10
<1>14. Received(ch) = ReadBytes(offset + r, n) /\ Len(Received(ch)) = n
  BY <1>12, <1>13
<1>15. QED
  BY <1>9, <1>10, <1>14

\* One turn of the loop: the next completion is right, it leaves what the
\* loop has still to send, and the loop ends when nothing is left.
LEMMA TurnFacts ==
    ASSUME OrderlyUse, MemoryInv, ReadInv, SendCompletion
    PROVE  \E ch \in Completions :
             /\ cpls' = Append(cpls, ch) /\ Right(ch) /\ ch.bcnt = mrd.data_len
             /\ req'.pc = "loop" => Left(ch) = mrd'.data_len /\ Place'
             /\ req'.pc = "done" => Left(ch) = 0
<1> DEFINE addr == mrd.addr
           data_len == mrd.data_len
           len == mrd.len
           send == IF len < MAXPAYLOADSIZE THEN len ELSE MAXPAYLOADSIZE
           r == addr % 4
           offset == Align(addr) - psmem_addr
           ch == [length  |-> (send \div 4) % LengthMod,
                  bcnt    |-> data_len % BcntMod,
                  lowaddr |-> addr % LowMod,
                  data    |-> ReadBytes(offset, send)]
           n == IF send = len THEN data_len ELSE send - r
<1>1. /\ Handled("MRd", "loop") /\ cpls' = Append(cpls, ch)
      /\ mrd'.len = len - send /\ mrd'.data_len = data_len - (send - r)
      /\ mrd'.addr = Align(addr) + send
      /\ req'.pc = IF mrd'.data_len > 0 THEN "loop" ELSE "done"
      /\ req'.addr = req.addr /\ req'.count = req.count /\ req'.op = req.op
      /\ req # None /\ psmem_addr' = psmem_addr
  <2>1. req # None /\ req.pc = "loop"
    BY DEF SendCompletion
  <2>2. Handled("MRd", "loop")
    BY <2>1 DEF Handled, MemoryInv, Requested
  <2>3. QED
    BY <2>1, <2>2 DEF SendCompletion, Completion
<1>2. /\ data_len \in Nat /\ data_len >= 1 /\ data_len <= req.count
      /\ addr = req.addr + (req.count - data_len)
      /\ Whole(len, r, data_len) /\ len < 4 * LengthMod
  BY <1>1 DEF ReadInv, Place
<1>3. /\ addr \in Nat /\ len \in Nat /\ psmem_addr \in Nat /\ BlockInv
      /\ req.addr \in Nat /\ req.count \in Nat
  <2>1. /\ addr \in Nat /\ len \in Nat /\ BlockInv
    BY <1>1 DEF MemoryInv, LoopInv
  <2>2. psmem_addr \in Nat
    BY <2>1, PsmemAssumption DEF BlockInv
  <2>3. req.addr \in Nat /\ req.count \in Nat
    BY <1>1, RequestFits DEF MemoryInv
  <2>4. QED
    BY <2>1, <2>2, <2>3
<1>4. r \in 0 .. 3 /\ Align(addr) = addr - r /\ Align(addr) \in Nat /\ Align(addr) % 4 = 0
  BY <1>3, AlignFacts
<1>5. offset \in Int /\ offset + r = addr - psmem_addr
  <2> HIDE DEF r, addr
  <2>1. QED
    BY <1>3, <1>4
<1>6. Built(ch, addr, data_len, send, offset)
  BY DEF Built
<1>7. /\ r = addr % 4 /\ len \in Nat
      /\ send = (IF len < MAXPAYLOADSIZE THEN len ELSE MAXPAYLOADSIZE)
  BY <1>3
<1>7a. send = (IF len < MAXPAYLOADSIZE THEN len ELSE MAXPAYLOADSIZE)
  OBVIOUS
<1> HIDE DEF ch, offset, send, r, addr, data_len, len
<1>8. /\ ch \in Completions /\ ch.bcnt = data_len /\ n \in Nat
      /\ Received(ch) = ReadBytes(offset + r, n) /\ Len(Received(ch)) = n
  <2>1. Turn(addr, r, data_len, len, send, offset, ch, n)
    BY <1>2, <1>3, <1>4, <1>5, <1>6, <1>7 DEF Turn
  <2> HIDE DEF n
  <2>2. QED
    BY <1>3, <2>1, OneCompletion
<1>9. Left(ch) = data_len - n
  BY <1>8 DEF Left
<1>10. Right(ch)
  <2>1. req.addr - psmem_addr + (req.count - data_len) = offset + r
    BY <1>2, <1>3, <1>5
  <2>2. QED
    BY <1>8, <2>1 DEF Right
<1>11. PICK w \in Nat : /\ w = (r + data_len + 3) \div 4 /\ len = 4 * w
                        /\ r + data_len <= len /\ len < r + data_len + 4
  BY <1>2, <1>4 DEF Whole
<1>12. PICK m \in Nat : MAXPAYLOADSIZE = 4 * m
  BY PsmemAssumption
<1>13. CASE send = len
  <2>1. data_len - (send - r) <= 0 /\ Left(ch) = 0
    BY <1>2, <1>4, <1>9, <1>11, <1>13
  <2>2. req'.pc = "done"
    <3>1. ~ data_len - (send - r) > 0
      BY <1>2, <1>4, <1>13, <2>1, <1>3
    <3>2. QED
      BY <1>1, <3>1
  <2>3. QED
    BY <1>1, <1>8, <1>10, <2>1, <2>2 DEF data_len
<1>14. CASE send # len
  <2>1. send = 4 * m /\ m < w /\ n = send - r
    <3>1. len = 4 * w
      BY <1>11
    <3>2. QED
      BY <1>12, <1>14, <1>7a, <3>1
  <2> DEFINE left == data_len - (send - r)
             rest == len - send
             next == Align(addr) + send
  <2>2. left \in Nat /\ left >= 1 /\ left <= req.count
    BY <1>2, <1>3, <1>4, <1>8, <1>11, <2>1
  <2>3. next = req.addr + (req.count - left)
    <3>1. Align(addr) = (req.addr + (req.count - data_len)) - r /\ r \in Int
      BY <1>2, <1>4
    <3>2. QED
      BY <1>2, <1>3, <2>1, <3>1
  <2>4. next % 4 = 0
    <3>1. PICK k \in Nat : Align(addr) = 4 * k
      BY <1>4
    <3>2. next = 4 * (k + m) /\ k + m \in Nat
      BY <2>1, <3>1
    <3> HIDE DEF next
    <3>3. QED
      BY <3>2
  <2>5. Whole(rest, 0, left)
    <3>0. len = 4 * w /\ r \in Int /\ data_len \in Int
      BY <1>2, <1>4, <1>11
    <3>1. rest = 4 * (w - m) /\ left = r + data_len - 4 * m
      BY <2>1, <3>0
    <3>2. 0 + left + 3 = (r + data_len + 3) - 4 * m
      BY <3>0, <3>1
    <3>3. ((r + data_len + 3) - 4 * m) \div 4 = w - m
      <4>1. \A x \in Int : (x - 4 * m) \div 4 = (x \div 4) - m
        OBVIOUS
      <4>2. r + data_len + 3 \in Int
        BY <3>0
      <4>3. QED
        BY <1>11, <4>1, <4>2
    <3> HIDE DEF rest, left
    <3>4. QED
      BY <3>1, <3>2, <3>3 DEF Whole
  <2>6. rest < 4 * LengthMod
    BY <1>2, <1>11, <2>1, TlpAssumption
  <2>7. mrd'.data_len = left /\ mrd'.addr = next /\ mrd'.len = rest
    BY <1>1
  <2>8. req'.pc = "loop" /\ Left(ch) = left
    BY <1>1, <1>9, <2>1, <2>2
  <2> HIDE DEF left, rest, next
  <2>9. Place'
    BY <1>1, <2>2, <2>3, <2>4, <2>5, <2>6, <2>7 DEF Place
  <2>10. QED
    BY <1>1, <1>8, <1>10, <2>7, <2>8, <2>9 DEF data_len
<1>15. QED
  BY <1>13, <1>14

\* A completion that continues a chain makes a longer one.
LEMMA ChainGrows ==
    ASSUME Chain, NEW ch \in Completions, cpls' = Append(cpls, ch), Right(ch),
           ch.bcnt = (IF cpls = <<>> THEN req.count ELSE Left(cpls[Len(cpls)])),
           req'.addr = req.addr, req'.count = req.count,
           UNCHANGED <<psmem_addr, psmem_size, psmem_memory>>
    PROVE  Chain' /\ cpls' # <<>> /\ cpls'[Len(cpls')] = ch
<1>1. \A c : Right(c)' <=> Right(c)
  BY DEF Right, ReadBytes, Offsets
<1>2. /\ cpls \in Seq(Completions) /\ Len(cpls) \in Nat
      /\ \A i \in 1 .. Len(cpls) : Right(cpls[i])
      /\ \A i \in 1 .. Len(cpls) - 1 : Left(cpls[i]) = cpls[i + 1].bcnt
      /\ cpls # <<>> => cpls[1].bcnt = req.count
  BY DEF Chain
<1>3. /\ cpls' \in Seq(Completions) /\ Len(cpls') = Len(cpls) + 1
      /\ \A i \in 1 .. Len(cpls) : cpls'[i] = cpls[i]
      /\ cpls'[Len(cpls) + 1] = ch
  BY <1>2
<1>4. ASSUME NEW i \in 1 .. Len(cpls') PROVE Right(cpls[i])'
  <2>1. Right(cpls'[i])
    <3>1. CASE i \in 1 .. Len(cpls)
      BY <1>2, <1>3, <3>1
    <3>2. CASE i = Len(cpls) + 1
      BY <1>3, <3>2
    <3>3. QED
      BY <1>2, <1>3, <3>1, <3>2
  <2>2. QED
    BY <1>1, <2>1 DEF Right, ReadBytes, Offsets
<1>5. ASSUME NEW i \in 1 .. Len(cpls') - 1 PROVE Left(cpls'[i]) = cpls'[i + 1].bcnt
  <2>1. CASE i \in 1 .. Len(cpls) - 1
    BY <1>2, <1>3, <2>1
  <2>2. CASE i = Len(cpls)
    <3>1. cpls # <<>> /\ cpls'[i] = cpls[Len(cpls)] /\ cpls'[i + 1] = ch
      BY <1>2, <1>3, <1>5, <2>2
    <3>2. QED
      BY <3>1
  <2>3. QED
    BY <1>2, <1>3, <2>1, <2>2
<1>6. cpls'[1].bcnt = req.count
  <2>1. CASE cpls = <<>>
    BY <1>2, <1>3, <2>1
  <2>2. CASE cpls # <<>>
    BY <1>2, <1>3, <2>2
  <2>3. QED
    BY <2>1, <2>2
<1>7. cpls' # <<>> /\ cpls'[Len(cpls')] = ch
  BY <1>2, <1>3
<1>8. Chain'
  BY <1>3, <1>4, <1>5, <1>6 DEF Chain, Left
<1>9. QED
  BY <1>7, <1>8

\* Every step keeps what is known of the completions.
LEMMA ReadStep ==
    ASSUME OrderlyUse, MemoryInv, ReadInv, [Next]_vars
    PROVE  ReadInv'
<1>1. ASSUME NEW op \in Ops, NEW addr \in PeerAddrs, NEW count \in PeerCounts,
             ReceiveRequest(op, addr, count)
      PROVE  ReadInv'
  <2> DEFINE mh == MrHdr(addr, count)
             r == addr % 4
             n == (r + count + 3) \div 4
  <2>1. /\ addr \in 0 .. AddrSpace - 1 /\ count \in Nat /\ Fits(addr, count)
    BY PsmemAssumption DEF OrderlyUse
  <2>2. tlp_mr_addr(mh) = addr /\ tlp_mr_data_length(mh) = count
    BY <2>1, HeaderRoundTrip
  <2>3. r \in 0 .. 3 /\ n \in Nat /\ count >= 1 /\ mh.length = n
    BY <2>1, HeaderFields
  <2>4. mh.length < LengthMod
    <3>1. tlp_calculate_length(addr, count) = n
      BY <2>1, LengthIs DEF Fits
    <3>2. QED
      BY <2>1, <2>3, <3>1 DEF Fits
  <2>5. /\ req'.op = op /\ req'.addr = addr /\ req'.count = count
        /\ req'.pc \in {"loop", "refused", "test"} /\ cpls' = <<>>
        /\ mrd'.len = 4 * mh.length /\ mrd'.data_len = count /\ mrd'.addr = addr
    BY <1>1, <2>2 DEF ReceiveRequest
  <2>6. Whole(mrd'.len, mrd'.addr % 4, mrd'.data_len)
    BY <2>3, <2>5 DEF Whole
  <2> HIDE DEF mh, r, n
  <2>7. addr \in Nat /\ LengthMod \in Nat /\ addr + (count - count) = addr
        /\ 4 * mh.length < 4 * LengthMod /\ count <= count
    BY <2>1, <2>3, <2>4, TlpAssumption
  <2>8. Place'
    BY <2>1, <2>3, <2>5, <2>6, <2>7 DEF Place
  <2>9. Chain'
    BY <2>5 DEF Chain
  <2>10. ~ Handled("MRd", "done")'
    BY <2>5 DEF Handled
  <2>11. QED
    BY <2>5, <2>8, <2>9, <2>10 DEF ReadInv
<1>2. CASE SendCompletion
  <2>1. PICK ch \in Completions :
          /\ cpls' = Append(cpls, ch) /\ Right(ch) /\ ch.bcnt = mrd.data_len
          /\ req'.pc = "loop" => Left(ch) = mrd'.data_len /\ Place'
          /\ req'.pc = "done" => Left(ch) = 0
    BY <1>2, TurnFacts
  <2>2. /\ Handled("MRd", "loop") /\ req'.addr = req.addr /\ req'.count = req.count
        /\ UNCHANGED <<psmem_addr, psmem_size, psmem_memory>>
    BY <1>2 DEF SendCompletion, Handled, MemoryInv, Requested
  <2>3. Chain /\ ch.bcnt = IF cpls = <<>> THEN req.count ELSE Left(cpls[Len(cpls)])
    BY <2>1, <2>2 DEF ReadInv
  <2>4. Chain' /\ cpls' # <<>> /\ cpls'[Len(cpls')] = ch
    BY <2>1, <2>2, <2>3, ChainGrows
  <2>5. Handled("MRd", "loop")' => Left(cpls'[Len(cpls')]) = mrd'.data_len /\ Place'
    BY <2>1, <2>4 DEF Handled
  <2>6. Handled("MRd", "done")' => Left(cpls'[Len(cpls')]) = 0
    BY <2>1, <2>4 DEF Handled
  <2>7. QED
    BY <2>4, <2>5, <2>6 DEF ReadInv, Left
<1>3. CASE WriteMemory
  <2>1. req'.op = req.op /\ req.op = "MWr"
    BY <1>3 DEF WriteMemory, MemoryInv, Requested
  <2>2. QED
    BY <2>1 DEF ReadInv, Handled
<1>4. ASSUME \/ FreePacket
             \/ \E new_addr \in NewAddrs : SetPsmemAddr(new_addr)
             \/ \E new_size \in NewSizes : SetPsmemSize(new_size)
      PROVE  ReadInv'
  <2>1. req' = None
    BY <1>4 DEF FreePacket, SetPsmemAddr, SetPsmemSize
  <2>2. QED
    BY <2>1 DEF ReadInv, Handled, None
<1>5. CASE UNCHANGED vars
  <2>1. /\ Place' <=> Place
        /\ Handled("MRd", "loop")' <=> Handled("MRd", "loop")
        /\ Handled("MRd", "done")' <=> Handled("MRd", "done")
    BY <1>5 DEF vars, Place, Handled
  <2>2. Chain' <=> Chain
    BY <1>5 DEF vars, Chain, Right, Left, ReadBytes, Offsets
  <2>3. QED
    BY <1>5, <2>1, <2>2 DEF ReadInv, vars, Left
<1>6. QED
  BY <1>1, <1>2, <1>3, <1>4, <1>5 DEF Next

\* A chain whose last completion leaves nothing is the bytes asked for.
LEMMA ReadNow ==
    ASSUME ReadInv
    PROVE  ReadExact
<1> SUFFICES ASSUME Handled("MRd", "done") PROVE ReadExact
  BY DEF ReadExact
<1>1. Chain /\ cpls # <<>> /\ Left(cpls[Len(cpls)]) = 0
  BY DEF ReadInv
<1>2. /\ cpls \in Seq(Completions) /\ cpls[1].bcnt = req.count
      /\ DOMAIN cpls = 1 .. Len(cpls) /\ Len(cpls) \in Nat
  BY <1>1 DEF Chain
<1>3. ASSUME NEW i \in DOMAIN cpls
      PROVE  /\ Right(cpls[i])
             /\ Left(cpls[i]) = IF i = Len(cpls) THEN 0 ELSE cpls[i + 1].bcnt
  <2>1. CASE i = Len(cpls)
    BY <1>1, <1>2, <2>1 DEF Chain
  <2>2. CASE i # Len(cpls)
    <3>1. i \in 1 .. Len(cpls) - 1 /\ i \in 1 .. Len(cpls)
      BY <1>2, <2>2
    <3>2. QED
      BY <1>1, <2>2, <3>1 DEF Chain
  <2>3. QED
    BY <2>1, <2>2
<1>4. QED
  BY <1>1, <1>2, <1>3 DEF ReadExact, Right, Left

\* With orderly use, the completions that nettlp_psmem_mrd() sends for a read
\* are, put together, the bytes asked for: each begins where the one before
\* it ended and says how many bytes are left, whatever the address, the count
\* and MAXPAYLOADSIZE.
THEOREM ReadsExact ==
    ASSUME OrderlyUse
    PROVE  Spec => []ReadExact
<1>1. Init => ReadInv
  BY DEF Init, ReadInv, Handled
<1>2. MemoryInv /\ ReadInv /\ [Next]_vars => ReadInv'
  BY ReadStep
<1>3. MemoryInv /\ [Next]_vars => MemoryInv'
  BY MemoryStep
<1>4. ReadInv => ReadExact
  BY ReadNow
<1>5. QED
  BY MemoryInit, <1>1, <1>2, <1>3, <1>4, PTL DEF Spec
=============================================================================
