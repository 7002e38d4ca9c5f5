------------------------------- MODULE Psmem -------------------------------
(***************************************************************************)
(* The pseudo memory of nettlp.c: a block of memory that the worker serves *)
(* as a PCIe BAR.  A peer sends memory requests (made as DMA writes and    *)
(* reads are), the worker handles one packet after another on its lcore    *)
(* and the shell sets the address and the size of the block from the main  *)
(* pthread.                                                                *)
(***************************************************************************)
EXTENDS Tlp

CONSTANTS MAXPAYLOADSIZE, \* data bytes of one completion, 256 in the code
          Size0,          \* initial psmem_size, 8 KiB in the code
          PeerAddrs,      \* addresses the peer asks for
          PeerCounts,     \* byte counts the peer asks for
          Ops,            \* subset of {"MRd", "MWr"}
          NewAddrs,       \* arguments of "set nettlp psmem-address"
          NewSizes,       \* arguments of "set nettlp psmem-size"
          MallocMayFail,  \* malloc() and realloc() may return NULL
          MaxRequests, MaxCommands,
          NULL

ASSUME PsmemAssumption ==
    /\ MAXPAYLOADSIZE \in Nat \ {0} /\ MAXPAYLOADSIZE % 4 = 0
    /\ Size0 \in Nat
    /\ PeerAddrs \subseteq 0 .. AddrSpace - 1 /\ PeerCounts \subseteq Nat
    /\ Ops \subseteq {"MRd", "MWr"}
    /\ NewAddrs \subseteq 0 .. AddrSpace - 1 /\ NewSizes \subseteq Nat
    /\ MallocMayFail \in BOOLEAN
    /\ MaxRequests \in Nat /\ MaxCommands \in Nat
    /\ \A size \in NewSizes \cup {Size0} : NULL \notin [0 .. size - 1 -> Int]

VARIABLES
    psmem_addr, psmem_size,
    psmem_memory, \* NULL or the bytes of the block, from offset 0
    req,          \* the packet being handled, with what the peer meant; or None
    mrd,          \* the variables of the loop of nettlp_psmem_mrd()
    cpls,         \* completions sent for req
    requests, commands

vars == <<psmem_addr, psmem_size, psmem_memory, req, mrd, cpls,
          requests, commands>>

None == [op |-> "none"]
NoLoop == [len |-> 0, data_len |-> 0, addr |-> 0]

\* A byte outside of the block, whatever is there.
OutsideByte == -2

\* Fresh memory: its bytes are told apart by their offset.
Fresh(size) == [o \in 0 .. size - 1 |-> o]

\* The payload of the k-th request.
Payload(k, count) == [i \in 1 .. count |-> 1000 * k + i]

\* realloc() keeps the bytes that both blocks have.
Resized(memory, size) ==
    [o \in 0 .. size - 1 |-> IF o \in DOMAIN memory THEN memory[o] ELSE o]

Init ==
    /\ psmem_addr = 0
    /\ psmem_size = Size0
    /\ psmem_memory = NULL
    /\ req = None /\ mrd = NoLoop /\ cpls = <<>>
    /\ requests = 0 /\ commands = 0

(***************************************************************************)
(* The worker.                                                             *)
(***************************************************************************)
\* Mutant: the end of the region is left out of the test.
OutOfRegionLoose(addr, len) ==
    addr < psmem_addr \/ addr > Wrap(psmem_addr + psmem_size)

\* Mutant: the last byte of the region is taken to be outside.
OutOfRegionEarly(addr, len) ==
    addr < psmem_addr \/ Wrap(addr + len) >= Wrap(psmem_addr + psmem_size)

\* The test of nettlp_psmem_mrd() and nettlp_psmem_mwr().
OutOfRegion(addr, len) ==
    \/ addr < psmem_addr
    \/ Wrap(addr + len) > Wrap(psmem_addr + psmem_size)

\* nettlp_psmem_receive() takes a packet off the wire and finds out what it
\* is; a read passes or fails the test on its double words here.
ReceiveRequest(op, addr, count) ==
    LET mh  == MrHdr(addr, count)
        len == 4 * mh.length
    IN /\ req = None /\ requests < MaxRequests
       /\ requests' = requests + 1
       /\ req' = [op   |-> op,  mh |-> mh,
                  addr |-> addr, count |-> count,
                  data |-> IF op = "MWr"
                           THEN WriteData(mh, Payload(requests + 1, count))
                           ELSE <<>>,
                  pc   |-> IF op = "MRd" /\ ~OutOfRegion(tlp_mr_addr(mh), len)
                           THEN "loop"
                           ELSE IF op = "MRd" THEN "refused" ELSE "test"]
       /\ mrd' = [len |-> len, data_len |-> tlp_mr_data_length(mh),
                  addr |-> tlp_mr_addr(mh)]
       /\ cpls' = <<>>
       /\ UNCHANGED <<psmem_addr, psmem_size, psmem_memory, commands>>

\* The offsets of the bytes that are there.
Offsets == IF psmem_memory = NULL THEN {} ELSE DOMAIN psmem_memory

\* memcpy() of n bytes from the block.
ReadBytes(offset, n) ==
    [i \in 1 .. n |-> IF offset + i - 1 \in Offsets
                      THEN psmem_memory[offset + i - 1] ELSE OutsideByte]

\* Mutant: the remaining byte count ignores the bytes before addr.
CompletionWithoutSkip(send_len) ==
    /\ cpls' = Append(cpls,
                 [length  |-> (send_len \div 4) % LengthMod,
                  bcnt    |-> mrd.data_len % BcntMod,
                  lowaddr |-> mrd.addr % LowMod,
                  data    |-> ReadBytes(Align(mrd.addr) - psmem_addr, send_len)])
    /\ mrd' = [len      |-> mrd.len - send_len,
               data_len |-> mrd.data_len - send_len,
               addr     |-> Align(mrd.addr) + send_len]

Completion(send_len) ==
    /\ cpls' = Append(cpls,
                 [length  |-> (send_len \div 4) % LengthMod,
                  bcnt    |-> mrd.data_len % BcntMod,
                  lowaddr |-> mrd.addr % LowMod,
                  data    |-> ReadBytes(Align(mrd.addr) - psmem_addr, send_len)])
    /\ mrd' = [len      |-> mrd.len - send_len,
               data_len |-> mrd.data_len - (send_len - (mrd.addr % 4)),
               addr     |-> Align(mrd.addr) + send_len]

\* One turn of the loop of nettlp_psmem_mrd(): it is left after the turn
\* when no data is left.
SendCompletion ==
    /\ req # None /\ req.pc = "loop"
    /\ Completion(IF mrd.len < MAXPAYLOADSIZE THEN mrd.len ELSE MAXPAYLOADSIZE)
    /\ req' = [req EXCEPT !.pc = IF mrd'.data_len > 0 THEN "loop" ELSE "done"]
    /\ UNCHANGED <<psmem_addr, psmem_size, psmem_memory, requests, commands>>

\* memcpy() of the data of a write to the block, as much of it as is there.
WriteBytes(offset, mh, data) ==
    [o \in DOMAIN psmem_memory |->
        LET i == o - offset + 1 + tlp_mwr_data(mh)
        IN IF o \notin offset .. offset + tlp_mr_data_length(mh) - 1
           THEN psmem_memory[o]
           ELSE IF i \in DOMAIN data THEN data[i] ELSE OutsideByte]

\* nettlp_psmem_mwr().
WriteMemory ==
    /\ req # None /\ req.pc = "test"
    /\ LET addr == tlp_mr_addr(req.mh)
           bad  == OutOfRegion(addr, tlp_mr_data_length(req.mh))
       IN /\ req' = [req EXCEPT !.pc = IF bad THEN "refused" ELSE "done"]
          /\ psmem_memory' =
                IF bad \/ psmem_memory = NULL THEN psmem_memory
                ELSE WriteBytes(addr - psmem_addr, req.mh, req.data)
    /\ UNCHANGED <<psmem_addr, psmem_size, mrd, cpls, requests, commands>>

\* The packet is freed.
FreePacket ==
    /\ req # None /\ req.pc \in {"refused", "done"}
    /\ req' = None /\ mrd' = NoLoop /\ cpls' = <<>>
    /\ UNCHANGED <<psmem_addr, psmem_size, psmem_memory, requests, commands>>

(***************************************************************************)
(* The shell.  A command is taken as one step, and only while the worker   *)
(* handles no request: the code has no lock between the two.               *)
(***************************************************************************)
Allocated == psmem_memory # NULL

\* The results of malloc() or realloc(): a block of the given contents.
Allocations(block) == {block} \cup IF MallocMayFail THEN {NULL} ELSE {}

SetPsmemAddr(new_addr) ==
    /\ req = None /\ commands < MaxCommands
    /\ commands' = commands + 1
    /\ \/ /\ Allocated /\ (new_addr = 0 \/ psmem_size = 0)
          /\ psmem_memory' = NULL
          /\ UNCHANGED psmem_addr
       \/ /\ ~(Allocated /\ (new_addr = 0 \/ psmem_size = 0))
          /\ psmem_memory' \in Allocations(IF Allocated
                                           THEN Resized(psmem_memory, psmem_size)
                                           ELSE Fresh(psmem_size))
          /\ psmem_addr' = IF psmem_memory' = NULL THEN psmem_addr ELSE new_addr
    /\ UNCHANGED <<psmem_size, req, mrd, cpls, requests>>

SetPsmemSize(new_size) ==
    /\ req = None /\ commands < MaxCommands
    /\ commands' = commands + 1
    /\ \/ /\ Allocated /\ (psmem_addr = 0 \/ new_size = 0)
          /\ psmem_memory' = NULL
          /\ psmem_size' = new_size
       \/ /\ ~(Allocated /\ (psmem_addr = 0 \/ new_size = 0))
          /\ psmem_memory' \in Allocations(IF Allocated
                                           THEN Resized(psmem_memory, new_size)
                                           ELSE Fresh(new_size))
          /\ psmem_size' = IF psmem_memory' = NULL THEN psmem_size ELSE new_size
    /\ UNCHANGED <<psmem_addr, req, mrd, cpls, requests>>

Next ==
    \/ \E op \in Ops, addr \in PeerAddrs, count \in PeerCounts :
            ReceiveRequest(op, addr, count)
    \/ SendCompletion
    \/ WriteMemory
    \/ FreePacket
    \/ \E new_addr \in NewAddrs : SetPsmemAddr(new_addr)
    \/ \E new_size \in NewSizes : SetPsmemSize(new_size)

Spec == Init /\ [][Next]_vars

(***************************************************************************)
(* Properties.                                                             *)
(***************************************************************************)
Handled(op, pc) == req # None /\ req.op = op /\ req.pc = pc

SendLen == IF mrd.len < MAXPAYLOADSIZE THEN mrd.len ELSE MAXPAYLOADSIZE

\* What the peer asked for, as offsets in the block.
Asked == {a - psmem_addr : a \in req.addr .. req.addr + req.count - 1}

\* A request of at least one byte, that stays off the end of the address
\* space (tlp_calculate_lstdw() computes addr + 4) and whose double words
\* fit in the length field.
Fits(addr, count) ==
    /\ count >= 1
    /\ addr + 4 < AddrSpace /\ addr + count < AddrSpace
    /\ tlp_calculate_length(addr, count) < LengthMod

Sizes == NewSizes \cup {Size0}

\* What the shell and the peers must keep to: malloc() succeeds, the block is
\* at a multiple of 4 that is not 0 and ends below the end of the address
\* space, and so does every request; and no request is below the greatest
\* size, where the region test passes while there is no block.
OrderlyUse ==
    /\ ~MallocMayFail
    /\ \A a \in NewAddrs : a > 0 /\ a % 4 = 0
    /\ \A a \in NewAddrs \cup {0}, size \in Sizes : a + size < AddrSpace
    /\ \A a \in PeerAddrs, c \in PeerCounts : Fits(a, c) /\ a + 4 * MrHdr(a, c).length < AddrSpace
    /\ \A a \in PeerAddrs, size \in Sizes : size <= a

\* What tlp_mr_addr() and tlp_mr_data_length() find in a header is the
\* address and the count the header was made from.
RoundTrip ==
    (req # None /\ Fits(req.addr, req.count))
    => /\ tlp_mr_addr(req.mh) = req.addr
       /\ tlp_mr_data_length(req.mh) = req.count

\* The bytes a header enables: those of the first and of the last double
\* word by their byte enables, all of the double words between them.
EnabledBytes(mh) ==
    {mh.addr + b : b \in mh.fstdw}
    \cup {mh.addr + 4 * (mh.length - 1) + b : b \in mh.lstdw}
    \cup (mh.addr + 4 .. mh.addr + 4 * (mh.length - 1) - 1)

\* The byte enables and the length that are computed for a request enable
\* the bytes it asks for and no other.
EnablesExact ==
    (req # None /\ Fits(req.addr, req.count))
    => EnabledBytes(req.mh) = req.addr .. req.addr + req.count - 1

\* The padding of a DMA write fills its double words: the data has the
\* length the header says.  (Writes inside one double word are not padded
\* at their end.)
PacketWhole ==
    (/\ req # None /\ req.op = "MWr" /\ Fits(req.addr, req.count)
     /\ (req.addr % 4) + req.count >= 4)
    => Len(req.data) = 4 * req.mh.length

\* The memcpy() calls of nettlp_psmem_mrd() and nettlp_psmem_mwr() stay
\* inside the block that is allocated at that moment.
AccessInside ==
    /\ Handled("MRd", "loop") =>
         \A i \in 0 .. SendLen - 1 :
            Align(mrd.addr) - psmem_addr + i \in Offsets
    /\ (Handled("MWr", "test")
          /\ ~OutOfRegion(tlp_mr_addr(req.mh), tlp_mr_data_length(req.mh))) =>
         \A i \in 0 .. tlp_mr_data_length(req.mh) - 1 :
            tlp_mr_addr(req.mh) - psmem_addr + i \in Offsets

\* The bytes a requester takes out of a completion.
Received(ch) ==
    SubSeq(ch.data, (ch.lowaddr % 4) + 1,
           (ch.lowaddr % 4) + tlp_cpld_data_length(ch))

\* The completions of a read, put together in the order they are sent with
\* tlp_cpld_data_length(), are the bytes of the pseudo memory that were
\* asked for: each begins where the one before it ended, none is missing,
\* none comes twice, and each says in its byte count how many are left.
ReadExact ==
    Handled("MRd", "done") =>
      /\ cpls # <<>> /\ cpls[1].bcnt = req.count
      /\ \A i \in DOMAIN cpls :
            LET bytes == Received(cpls[i])
                done  == req.count - cpls[i].bcnt
            IN /\ bytes = ReadBytes(req.addr - psmem_addr + done, Len(bytes))
               /\ cpls[i].bcnt - Len(bytes)
                     = IF i = Len(cpls) THEN 0 ELSE cpls[i + 1].bcnt

\* A write that is not refused changes the bytes the peer meant, to the
\* payload, and no other byte.
WritesWhatWasMeant ==
    LET first == req.addr - psmem_addr
    IN psmem_memory' =
          [o \in Offsets |-> IF o \in Asked
                             THEN Payload(requests, req.count)[o - first + 1]
                             ELSE psmem_memory[o]]

\* This holds for every write that reaches the end of its first double
\* word, with the padding of nettlp_send_dma_write().
WriteExact ==
    [][(/\ Handled("MWr", "test") /\ req'.pc = "done"
        /\ (req.addr % 4) + req.count >= 4) => WritesWhatWasMeant]_vars

\* The same for every write: the padding puts the bytes where the byte
\* enables say they are (comment in nettlp_send_dma_write()).
AnyWriteExact ==
    [][(/\ Handled("MWr", "test") /\ req'.pc = "done")
        => WritesWhatWasMeant]_vars

\* A write is refused only if one of its bytes is out of the region.
WriteRefusal ==
    Handled("MWr", "refused") => ~ Asked \subseteq 0 .. psmem_size - 1
=============================================================================
