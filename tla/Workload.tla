------------------------------ MODULE Workload ------------------------------
(***************************************************************************)
(* WriteData and WriteDataMmap: a call writes `size` bytes of known data   *)
(* at `offset` of a file.  The known data are one page, repeated, so that  *)
(* a byte tells at which place of a page it belongs.                       *)
(*                                                                         *)
(* WriteData works in three loops of pwrite, each of which may fall short  *)
(* or fail: up to the next page, whole pages, the rest.  WriteDataMmap     *)
(* copies into a shared mapping.  Numbers are unsigned and wrap at Word;   *)
(* the masks of the code are remainders by Page.                           *)
(***************************************************************************)
EXTENDS Integers

CONSTANTS Page,       \* kTestDataSize, also the page size of the kernel
          Word,       \* numbers are unsigned ints: 2^32 in the code
          Functions,  \* a subset of {"WriteData", "WriteDataMmap"}
          Old,        \* a byte that the call has not touched
          Junk        \* a byte from behind the known data

ASSUME WorkloadAssumption ==
    /\ Page \in Nat \ {0} /\ Word \in Nat \ {0} /\ Word % Page = 0
    /\ Functions \subseteq {"WriteData", "WriteDataMmap"}
    /\ Old # Junk /\ {Old, Junk} \cap 0..(Page - 1) = {}

VARIABLES fn, offset, size,   \* the call
          pc,                 \* the loop it is in
          num_written,        \* bytes written so far
          block_written,      \* aligned_written or end_written
          file                \* what each byte of the file holds

call == <<fn, offset, size>>
vars == <<call, pc, num_written, block_written, file>>

kTestDataBlock(i) == IF i < Page THEN i ELSE Junk

Byte == 0..(Word - 1)
Returned == {"success", "error"}

TypeOK ==
    /\ fn \in Functions
    /\ offset \in Byte /\ size \in Byte
    /\ pc \in {"head", "pages", "tail", "mmap", "map_head", "map_pages", "msync",
               "crashed"} \cup Returned
    /\ num_written \in Byte
    /\ block_written \in Byte
    /\ file \in [Byte -> {Old} \cup 0..(Page - 1)]

\* Every range that ends within the numbers.
Init ==
    /\ fn \in Functions
    /\ offset \in Byte
    /\ size \in Byte /\ offset + size <= Word
    /\ pc = IF fn = "WriteData" THEN "head" ELSE "mmap"
    /\ num_written = 0 /\ block_written = 0
    /\ file = [p \in Byte |-> Old]

\* x & ~(kTestDataSize - 1), on unsigned numbers
RoundDown(x) == x - (x % Page)
\* x & (kTestDataSize - 1)
InPage(x) == x % Page
rounded_offset == RoundDown((offset + (Page - 1)) % Word)
\* rounded_offset - offset: the bytes up to the next page
HeadLen == (rounded_offset - offset) % Word

\* Bug: the bytes before the first whole page are not taken off.
AlignedFromOffset == IF size >= Page THEN RoundDown(size) ELSE 0

aligned_size == IF size >= Page THEN RoundDown((size - HeadLen) % Word) ELSE 0
head_size    == IF size < HeadLen THEN size ELSE HeadLen

\* n bytes of the known data, from place `from` on, arrive at `at`.
Put(at, from, n) ==
    file' = [p \in Byte |-> IF p \in at..(at + n - 1)
                            THEN kTestDataBlock(from + (p - at)) ELSE file[p]]
-----------------------------------------------------------------------------
(* WriteData *)

\* One pwrite of up to `count` bytes: it takes any part of them.
Pwrite(from, count) ==
    \E n \in 1..count :
        /\ Put((offset + num_written) % Word, from, n)
        /\ num_written' = num_written + n
        /\ block_written' = IF pc = "head" THEN 0 ELSE block_written + n

\* Bug: the first part starts at the beginning of the known data.
HeadFromStart ==
    /\ pc = "head" /\ num_written < head_size
    /\ Pwrite(InPage(num_written), head_size - num_written)
    /\ UNCHANGED <<call, pc>>

HeadStep ==
    /\ pc = "head" /\ num_written < head_size
    /\ Pwrite(InPage(num_written + offset), head_size - num_written)
    /\ UNCHANGED <<call, pc>>

HeadEnds ==
    /\ pc = "head" /\ num_written >= head_size
    /\ pc' = "pages"
    /\ UNCHANGED <<call, num_written, block_written, file>>

\* Bug: after a short write a whole page is asked for again.
PagesStepWhole ==
    /\ pc = "pages" /\ block_written < aligned_size
    /\ Pwrite(InPage(block_written), Page)
    /\ UNCHANGED <<call, pc>>

PagesStep ==
    /\ pc = "pages" /\ block_written < aligned_size
    /\ Pwrite(InPage(block_written), Page - InPage(block_written))
    /\ UNCHANGED <<call, pc>>

PagesEnd ==
    /\ pc = "pages" /\ block_written >= aligned_size
    /\ pc' = IF num_written = size THEN "success" ELSE "tail"
    /\ block_written' = 0
    /\ UNCHANGED <<call, num_written, file>>

TailStep ==
    /\ pc = "tail" /\ num_written < size
    /\ Pwrite(InPage(block_written), size - num_written)
    /\ UNCHANGED <<call, pc>>

TailEnds ==
    /\ pc = "tail" /\ num_written >= size
    /\ pc' = "success"
    /\ UNCHANGED <<call, num_written, block_written, file>>

PwriteFails ==
    /\ \/ pc = "head" /\ num_written < head_size
       \/ pc = "pages" /\ block_written < aligned_size
       \/ pc = "tail" /\ num_written < size
    /\ pc' = "error"
    /\ UNCHANGED <<call, num_written, block_written, file>>
-----------------------------------------------------------------------------
(* WriteDataMmap *)

filep == RoundDown(offset)
\* The kernel maps whole pages, for `size` bytes.
Mapped == filep..(filep + RoundDown(size + (Page - 1)) - 1)
\* size - rounded_offset_diff
rest_size == (size - HeadLen) % Word

Mmap ==
    /\ pc = "mmap"
    /\ pc' \in IF size = 0 THEN {"error"} ELSE {"map_head", "error"}
    /\ UNCHANGED <<call, num_written, block_written, file>>

\* memcpy into the mapping; a copy that leaves it ends in a signal.
Memcpy(at, from, n, next) ==
    IF at..(at + n - 1) \subseteq Mapped /\ at + n <= Word
    THEN Put(at, from, n) /\ pc' = next
    ELSE file' = file /\ pc' = "crashed"

MapHead ==
    /\ pc = "map_head"
    /\ IF HeadLen = 0 THEN file' = file /\ pc' = "map_pages"
       ELSE Memcpy(offset, InPage(offset), Page - InPage(offset), "map_pages")
    /\ UNCHANGED <<call, num_written, block_written>>

\* Bug: always a whole page is copied.
MapWholePages ==
    /\ pc = "map_pages" /\ num_written # rest_size
    /\ Memcpy(filep + HeadLen + num_written, 0, Page, "map_pages")
    /\ num_written' = (num_written + Page) % Word
    /\ UNCHANGED <<call, block_written>>

MapPages ==
    /\ pc = "map_pages" /\ num_written # rest_size
    /\ LET to_write == IF (num_written + Page) % Word > rest_size
                       THEN (rest_size - num_written) % Word ELSE Page
       IN  /\ Memcpy(filep + HeadLen + num_written, 0, to_write, "map_pages")
           /\ num_written' = (num_written + to_write) % Word
    /\ UNCHANGED <<call, block_written>>

MapPagesEnd ==
    /\ pc = "map_pages" /\ num_written = rest_size
    /\ pc' = "msync"
    /\ UNCHANGED <<call, num_written, block_written, file>>

\* msync says ENOMEM for pages that are not mapped, unless another mapping
\* happens to be there.
Msync ==
    /\ pc = "msync"
    /\ pc' \in Returned
    /\ UNCHANGED <<call, num_written, block_written, file>>
-----------------------------------------------------------------------------
WriteData == HeadStep \/ HeadEnds \/ PagesStep \/ PagesEnd \/ TailStep \/ TailEnds
             \/ PwriteFails
WriteDataMmap == Mmap \/ MapHead \/ MapPages \/ MapPagesEnd \/ Msync

Next == WriteData \/ WriteDataMmap

\* pwrite takes at least a byte, so that a running process gets on.
Spec == Init /\ [][Next]_vars /\ WF_vars(Next)
-----------------------------------------------------------------------------
(* Properties *)

Range == offset..(offset + size - 1)

\* workload.h: the functions "write size bytes of known data at offset" and
\* return 0 on success: then each byte of the range holds what belongs there.
RangeHoldsKnownData == pc = "success" => \A p \in Range : file[p] = InPage(p)

\* The calls that keep the promise: WriteData wherever the range lies, up to the
\* very last number, and WriteDataMmap at the beginning of a page, unless the
\* size is so close to the last number that num_written + kTestDataSize wraps.
Sound == fn = "WriteData" \/ (InPage(offset) = 0 /\ size <= Word - Page)

\* They do so wherever a pwrite fell short.
KnownDataWritten == Sound => RangeHoldsKnownData

\* A byte outside the range is never touched, and none inside gets a byte that
\* belongs elsewhere, also when a pwrite fails half way.
NothingElseWritten ==
    Sound => \A p \in Byte : file[p] # Old => p \in Range /\ file[p] = InPage(p)

\* The loops end: neither the wrapped numbers nor short writes keep a call going
\* for ever, and no copy leaves the mapping.
CallReturns == Sound => <>(pc \in Returned)
-----------------------------------------------------------------------------
(* The inductive invariant: num_written bytes of the range are there, and     *)
(* block_written is in step with the page the next byte belongs to.           *)

Written == \A p \in Byte : file[p] = IF p \in offset..(offset + num_written - 1)
                                     THEN InPage(p) ELSE Old

\* Where the loops of WriteData stand.
Loops ==
    /\ pc \in {"head", "pages", "tail"} \cup Returned
    /\ block_written <= num_written /\ num_written <= size
    /\ pc = "head"    => num_written <= head_size /\ block_written = 0
    /\ pc = "pages"   => num_written = head_size + block_written /\ block_written <= aligned_size
    /\ pc = "tail"    => num_written = head_size + aligned_size + block_written
    /\ pc = "success" => num_written = size
    /\ Written

\* Where the copies of WriteDataMmap stand: whole pages but for the last.
Copies ==
    /\ pc \in {"mmap", "map_head", "map_pages", "msync", "crashed"} \cup Returned
    /\ num_written <= rest_size
    /\ InPage(num_written) = 0 \/ num_written = rest_size
    /\ pc \in {"mmap", "map_head"} => num_written = 0
    /\ pc \in {"msync", "success"} => num_written = rest_size
    /\ Sound => Written /\ pc # "crashed"

WorkloadInv ==
    /\ TypeOK /\ offset + size <= Word
    /\ fn = "WriteData" => Loops
    /\ fn = "WriteDataMmap" => Copies
=============================================================================
