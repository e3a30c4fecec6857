-------------------------------- MODULE Bus --------------------------------
(***************************************************************************)
(* Memory and the units of the bus (mmio.c), for data of 2^k bytes.        *)
(* Memory is a function from addresses to bytes, of the bytes that are not *)
(* zero or were written: main takes it from malloc as one large block, and *)
(* such a block begins as zeroes.                                          *)
(***************************************************************************)
EXTENDS Word, Sequences

CONSTANTS MEM_LIMIT,   \* the size of the memory, as a word
          Readable,    \* the numbers of the units with a read handler,
          Writable,    \* and of those with a write handler
          UnitValue    \* what a unit returns: a uint64_t

ASSUME UnitAssumption == UnitValue \in Word64

Byte == SUBSET (0..7)

\* From MMIO_BASE on, an address names a unit and a register of it.
InMmio(a) == 48..63 \subseteq a
Unit(a) == ToNat(Get(a, 32, 16))
Register(a) == Get(a, 0, 32)

\* The checks, the same in all the operations of the bus.
BusFault(a, k, units) ==
    IF a \cap 0..(k - 1) # {} THEN "DALT"
    ELSE IF IF InMmio(a) THEN Unit(a) \notin units ELSE Above(a, Minus(MEM_LIMIT, {k}))
      THEN "BERR" ELSE "none"

\* Big-endian, on any host.
MemByte(mem, n) == IF n \in DOMAIN mem THEN mem[n] ELSE {}
MemRead(mem, n, size) ==
    UNION {Left(MemByte(mem, n + i), 8 * (size - 1 - i)) : i \in 0..(size - 1)}

\* Mutant: the bytes of the host's order.
MemWrite_Little(mem, n, size, v) ==
    [i \in DOMAIN mem \cup n..(n + size - 1) |->
        IF i \in n..(n + size - 1) THEN Get(v, 8 * (i - n), 8) ELSE mem[i]]

MemWrite(mem, n, size, v) ==
    [i \in DOMAIN mem \cup n..(n + size - 1) |->
        IF i \in n..(n + size - 1) THEN Get(v, 8 * (n + size - 1 - i), 8) ELSE mem[i]]

\* What a read returns, unless it fails.
ReadValue(e, mem, a, k) ==
    IF e # "none" THEN {}
    ELSE IF InMmio(a) THEN UnitValue ELSE MemRead(mem, ToNat(a), 2^k)

\* read_u1b, read_u2b, read_u4b and read_8b: an error and a value.
BusRead(mem, a, k) ==
    LET e == BusFault(a, k, Readable) IN [e |-> e, v |-> ReadValue(e, mem, a, k)]

\* fetch_u4b, which returns 32 bits of what it read.
FetchWord(mem, a) ==
    LET e == BusFault(a, 2, Readable) IN
    [e |-> IF e = "DALT" THEN "XALT" ELSE e, v |-> ReadValue(e, mem, a, 2) \cap 0..31]

\* write_1b, write_2b, write_4b and write_8b: an error, and what they leave: the
\* memory and the calls of the units' handlers.
BusWrite(mem, io, a, k, v) ==
    LET e == BusFault(a, k, Writable) IN
    [e   |-> e,
     mem |-> IF e = "none" /\ ~InMmio(a) THEN MemWrite(mem, ToNat(a), 2^k, v) ELSE mem,
     io  |-> IF e = "none" /\ InMmio(a)
               THEN Append(io, [unit |-> Unit(a), size |-> 2^k,
                                reg |-> Register(a), v |-> v])
               ELSE io]
=============================================================================
