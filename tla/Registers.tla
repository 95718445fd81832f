----------------------------- MODULE Registers -----------------------------
(***************************************************************************)
(* The register model of src/Register.c and Generated/Register*.inc: a     *)
(* register is its class and its number in the class, and the width and    *)
(* the largest register that contains it depend on the machine mode.       *)
(* Registers whose numbers no instruction encodes (the table, test,        *)
(* control-word and bounds-status registers) are members of their class.   *)
(*                                                                         *)
(* Machine integers are here too.  A field of n bits is modelled by Bits[n]*)
(* bits: 8 and 16 keep their width, 32 and 64 are shortened to what TLC's  *)
(* integers hold.  Widths in the model stay 8, 16, 32 and 64.              *)
(***************************************************************************)
EXTENDS Integers, Sequences

NONE == "NONE"
\* tables of three sizes are indexed by a width of 8 or 16, 32, 64
At(size, width) == size[width \div 32 + 1]
\* a register number is split between a field of three bits and a prefix
High(id) == id \div 8
Low(id) == id % 8

\* the first member of sequence s that satisfies P, 0 when none does
First(s, P(_)) ==
    LET hits == {i \in DOMAIN s : P(s[i])}
    IN IF hits = {} THEN 0
       ELSE s[CHOOSE i \in hits : \A j \in hits : i <= j]

SegmentPrefixes == {"SEGMENT_CS", "SEGMENT_SS", "SEGMENT_DS", "SEGMENT_ES",
                    "SEGMENT_FS", "SEGMENT_GS"}
LegacySegments == SegmentPrefixes \ {"SEGMENT_FS", "SEGMENT_GS"}
BranchHints == {"BRANCH_TAKEN", "BRANCH_NOT_TAKEN"}
Modes == {"LONG_64", "LONG_COMPAT_32", "LONG_COMPAT_16",
          "LEGACY_32", "LEGACY_16", "REAL_16"}

----------------------------------------------------------------------------
(* Machine integers                                                        *)

Bits == [n \in {8, 16, 32, 64} |-> CASE n = 8 -> 8 [] n = 16 -> 16
                                     [] n = 32 -> 20 [] n = 64 -> 28]

Unsigned(v, n) == v % 2^Bits[n]
Signed(v, n) ==
    LET u == Unsigned(v, n)
    IN IF u < 2^(Bits[n] - 1) THEN u ELSE u - 2^Bits[n]

FitsSigned(v, n) == -(2^(Bits[n] - 1)) <= v /\ v < 2^(Bits[n] - 1)
FitsUnsigned(v, n) == 0 <= v /\ v < 2^Bits[n]

\* the narrowest of the four sizes for which Fits(v, n) holds
Narrowest(Fits(_, _), v) ==
    IF Fits(v, 8) THEN 8
    ELSE IF Fits(v, 16) THEN 16
    ELSE IF Fits(v, 32) THEN 32
    ELSE 64
ZydisGetSignedImmSize(v) == Narrowest(FitsSigned, v)
\* the argument of the C function is the request's value as a ZyanU64
ZydisGetUnsignedImmSize(v) == Narrowest(FitsUnsigned, Unsigned(v, 64))

----------------------------------------------------------------------------
(* The class table: how many registers a class has, and their width        *)

ClassTable ==
    [GPR8    |-> [last |-> 35, width |-> 8,    width64 |-> 8],
     GPR16   |-> [last |-> 31, width |-> 16,   width64 |-> 16],
     GPR32   |-> [last |-> 31, width |-> 32,   width64 |-> 32],
     GPR64   |-> [last |-> 31, width |-> 0,    width64 |-> 64],
     X87     |-> [last |-> 7,  width |-> 80,   width64 |-> 80],
     MMX     |-> [last |-> 7,  width |-> 64,   width64 |-> 64],
     XMM     |-> [last |-> 31, width |-> 128,  width64 |-> 128],
     YMM     |-> [last |-> 31, width |-> 256,  width64 |-> 256],
     ZMM     |-> [last |-> 31, width |-> 512,  width64 |-> 512],
     TMM     |-> [last |-> 7,  width |-> 8192, width64 |-> 8192],
     SEGMENT |-> [last |-> 5,  width |-> 16,   width64 |-> 16],
     TEST    |-> [last |-> 7,  width |-> 32,   width64 |-> 32],
     CONTROL |-> [last |-> 15, width |-> 32,   width64 |-> 64],
     DEBUG   |-> [last |-> 15, width |-> 32,   width64 |-> 64],
     MASK    |-> [last |-> 7,  width |-> 64,   width64 |-> 64],
     BOUND   |-> [last |-> 3,  width |-> 128,  width64 |-> 128]]

Reg(class, id) == [class |-> class, id |-> id]
NoRegister == Reg(NONE, -1)
\* the three names of the instruction pointer have no number
InstructionPointer(width) ==
    Reg(CASE width = 16 -> "IP" [] width = 32 -> "EIP" [] width = 64 -> "RIP",
        -1)
FlagsRegister(width) ==
    Reg(CASE width = 16 -> "FLAGS" [] width = 32 -> "EFLAGS"
          [] width = 64 -> "RFLAGS", -1)

GprClasses == {"GPR8", "GPR16", "GPR32", "GPR64"}
VectorClasses == {"XMM", "YMM", "ZMM"}
\* the registers with a number
NumberedRegisters ==
    UNION {{Reg(c, i) : i \in 0 .. ClassTable[c].last} :
             c \in DOMAIN ClassTable}

----------------------------------------------------------------------------
(* Exported functions                                                      *)

ZydisRegisterEncode(class, id) ==
    IF class \in DOMAIN ClassTable /\ id \in 0 .. ClassTable[class].last
    THEN Reg(class, id)
    ELSE NoRegister

\* the class of the three instruction pointers and flags is one class each
ZydisRegisterGetClass(reg) ==
    CASE reg.class \in {"IP", "EIP", "RIP"} -> "IP"
      [] reg.class \in {"FLAGS", "EFLAGS", "RFLAGS"} -> "FLAGS"
      [] OTHER -> reg.class

ZydisRegisterClassGetWidth(mode, class) ==
    IF class \notin DOMAIN ClassTable THEN 0
    ELSE IF mode = "LONG_64" THEN ClassTable[class].width64
    ELSE ClassTable[class].width

ZydisRegisterGetWidth(mode, reg) ==
    CASE reg.class \in {"IP", "FLAGS"} -> 16
      [] reg.class \in {"EIP", "EFLAGS"} -> 32
      [] reg.class \in {"RIP", "RFLAGS"} -> IF mode = "LONG_64" THEN 64 ELSE 0
      [] OTHER -> ZydisRegisterClassGetWidth(mode, reg.class)

ZydisGetMachineModeWidth(mode) ==
    CASE mode = "LONG_64" -> 64
      [] mode \in {"LONG_COMPAT_32", "LEGACY_32"} -> 32
      [] OTHER -> 16

GprOfWidth(width) ==
    CASE width = 8 -> "GPR8" [] width = 16 -> "GPR16"
      [] width = 32 -> "GPR32" [] width = 64 -> "GPR64"

\* GPR8_MAPPING: AL..BL and AH..BH are parts of the same four registers
EnclosingNumber(reg) ==
    IF reg.class # "GPR8" THEN reg.id
    ELSE CASE reg.id < 4 -> reg.id
           [] reg.id \in 4 .. 7 -> reg.id - 4
           [] OTHER -> reg.id - 4

ZydisRegisterGetLargestEnclosing(mode, reg) ==
    LET width == ZydisGetMachineModeWidth(mode)
        class == ZydisRegisterGetClass(reg)
    IN IF class = NONE THEN NoRegister
       ELSE IF class = "GPR64" /\ mode # "LONG_64" THEN NoRegister
       ELSE IF class = "IP" THEN InstructionPointer(width)
       ELSE IF class = "FLAGS" THEN FlagsRegister(width)
       ELSE IF class \in GprClasses THEN Reg(GprOfWidth(width), EnclosingNumber(reg))
       ELSE IF class \in VectorClasses THEN Reg("ZMM", reg.id)
       ELSE reg

----------------------------------------------------------------------------
(* Registers in the encoding of an instruction (src/Encoder.c)             *)

HighByte == {Reg("GPR8", i) : i \in 4 .. 7}
LowByte == {Reg("GPR8", i) : i \in 0 .. 3}

\* AH..BH and SPL..DIL share the numbers 4..7
ZydisGetPhysicalId(reg) ==
    IF reg.class = "GPR8" /\ reg.id >= 8 THEN reg.id - 4 ELSE reg.id

=============================================================================
