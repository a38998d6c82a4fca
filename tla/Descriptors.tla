---------------------------- MODULE Descriptors ---------------------------
(***************************************************************************)
(* Addresses in the processor's tables.  A gate and a segment descriptor   *)
(* hold an address in pieces (types.h); setInterruptHandler and setGdt     *)
(* take it apart, the processor puts it together again.  The flags of a    *)
(* gate are the 16 bits of the code.                                       *)
(***************************************************************************)
EXTENDS Integers

CONSTANT BYTE          \* values of a byte (256)
ASSUME ByteAssumption == BYTE \in Nat /\ BYTE > 1

WORD == BYTE * BYTE
DWORD == WORD * WORD

highWord(address) == (address \div WORD) % WORD
lowWord(address) == address % WORD
midByte_8_bits(address) == (address \div BYTE) % BYTE
midByte(address) == (address \div WORD) % BYTE
highByte(address) == (address \div (WORD * BYTE)) % BYTE

KERNEL_CS == 16

(* 0x8E00: P = 1, D = 1, Type = 1110; the privilege level in bits 13, 14. *)
flags(maxAccessibleFromPL) == maxAccessibleFromPL * 2^13 + 36352

Gate(low, selector, bits, high) ==
  [lowOffset |-> low, segmentSelector |-> selector, flags |-> bits, highOffset |-> high]
NoGate == Gate(0, 0, 0, 0)

setInterruptHandler(handler, maxAccessibleFromPL) ==
  Gate(lowWord(handler), KERNEL_CS, flags(maxAccessibleFromPL), highWord(handler))

(* The base of a descriptor of the GDT. *)
Descriptor(base) ==
  [lowBase |-> lowWord(base), midBase |-> midByte(base), highBase |-> highByte(base)]
NoDescriptor == Descriptor(0)

(* What the processor makes of them. *)
Present(gate) == gate.flags \div 2^15 = 1
ClearsIF(gate) == (gate.flags \div 2^8) % 16 = 14
Offset(gate) == gate.lowOffset + WORD * gate.highOffset
Base(descriptor) ==
  descriptor.lowBase + WORD * descriptor.midBase + WORD * BYTE * descriptor.highBase
===========================================================================
