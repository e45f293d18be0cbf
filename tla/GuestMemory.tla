----------------------------- MODULE GuestMemory -----------------------------
(***************************************************************************)
(* The linear memory of a guest and the checked accesses of the host       *)
(* (runtime/memory.rs).  A memory is a function from the addresses it has  *)
(* to bytes; a guest may only ever add addresses at its end.  The widths   *)
(* are parameters: the code has Base = 256 and WordBytes = 4.              *)
(***************************************************************************)
EXTENDS Integers, Sequences, FiniteSets

CONSTANTS
    Base,           \* the number of values of a byte
    WordBytes       \* the bytes of a u32

ASSUME WidthAssumption ==
    /\ Base \in Nat /\ Base > 1
    /\ WordBytes \in Nat /\ WordBytes > 0

Byte == 0 .. Base - 1

\* Base to the power i.
Power[i \in 0 .. 2 * WordBytes] == IF i = 0 THEN 1 ELSE Base * Power[i - 1]

\* u32::MAX and i32::MAX.
WordMax == Power[WordBytes] - 1
SignedMax == WordMax \div 2

\* Any u32 is an address: the bits of the guest's i32 are read as unsigned.
GuestPtr == 0 .. WordMax
GuestSlice == [ptr : GuestPtr, len : GuestPtr]

\* GuestSlice::new refuses a range whose end does not fit in 32 bits.
InRangeOfWord(slice) == slice.ptr + slice.len <= WordMax

Memories(memory) ==
    \E size \in 0 .. WordMax + 1 : memory \in [0 .. size - 1 -> Byte]
Size(memory) == Cardinality(DOMAIN memory)

\* GuestSlice::bounds, against the size the memory has now.
Inside(memory, slice) == slice.ptr + slice.len <= Size(memory)
Readable(memory, slice) == InRangeOfWord(slice) /\ Inside(memory, slice)

Read(memory, slice) == [i \in 1 .. slice.len |-> memory[slice.ptr + i - 1]]

\* GuestMemory::write, after its checks: exactly the bytes of the slice change.
Write(memory, ptr, bytes) ==
    [a \in DOMAIN memory |->
        IF a \in ptr .. ptr + Len(bytes) - 1 THEN bytes[a - ptr + 1]
        ELSE memory[a]]

\* u32 and u64 are little-endian.
LittleEndian(value, width) ==
    [i \in 1 .. width |-> (value \div Power[i - 1]) % Base]
WordOf(bytes, at) ==
    LET digit[i \in 0 .. WordBytes] ==
            IF i = 0 THEN 0
            ELSE digit[i - 1] + bytes[at + i] * Power[i - 1]
    IN  digit[WordBytes]

WordSlice(ptr) == [ptr |-> ptr, len |-> WordBytes]
LongSlice(ptr) == [ptr |-> ptr, len |-> 2 * WordBytes]

\* read_u32 is how a body checks a return pointer before it is written.
HasWord(memory, ptr) == Readable(memory, WordSlice(ptr))
ReadWord(memory, ptr) == WordOf(Read(memory, WordSlice(ptr)), 0)
WriteWord(memory, ptr, value) ==
    Write(memory, ptr, LittleEndian(value, WordBytes))

HasLong(memory, ptr) == Readable(memory, LongSlice(ptr))
\* Mutant: a long whose low byte is not cut to a byte.
WriteLongRaw(memory, ptr, value) ==
    Write(memory, ptr, [i \in 1 .. 2 * WordBytes |-> IF i = 1 THEN value ELSE 0])

WriteLong(memory, ptr, value) ==
    Write(memory, ptr, LittleEndian(value, 2 * WordBytes))

\* memory.grow: the guest adds zeroed addresses at the end.
Grown(memory, more) ==
    [a \in 0 .. Size(memory) + more - 1 |->
        IF a \in DOMAIN memory THEN memory[a] ELSE 0]
=============================================================================
