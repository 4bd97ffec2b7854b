------------------------------ MODULE LowLevel ------------------------------
(***************************************************************************)
(* The assembly exercises and the pangram filters.  A register is a number *)
(* below 2^Width, a bit set held in one is the set of its bits; a char is  *)
(* a number in 0..255, signed where it is compared.                        *)
(***************************************************************************)
EXTENDS Integers, FiniteSets, SequencesExt

CONSTANT Width  \* of a register: 32 in the code

ASSUME WidthAssumption == Width \in Nat \ {0}

Reg(v) == v % 2^Width
Signed(r) == IF r < 2^(Width - 1) THEN r ELSE r - 2^Width

(* sum_to_n.asm: add, dec, and jg on the flags of dec. *)
RECURSIVE SumLoop(_, _)
SumLoop(eax, edi) ==
    IF Signed(edi) - 1 > 0 THEN SumLoop(Reg(eax + edi), Reg(edi - 1)) ELSE Reg(eax + edi)

sum_to_n(n) == SumLoop(0, Reg(n))

(* sum_to_n_2.asm: imul keeps the low half, shr is unsigned. *)
sum_to_n_2(n) == Reg(Reg(n + 1) * Reg(n)) \div 2

(* matrix.asm: the offset of the item that is read. *)
index(cols, rindex, cindex) == Reg(4 * Reg(Reg(cols * rindex) + cindex))

(* binary_convert.asm: the low bit of every char. *)
binary_convert(s) == FoldLeft(LAMBDA eax, cl : Reg(2 * eax) + (cl % 2), 0, s)

(* fib.asm *)
RECURSIVE fib(_)
fib(n) == IF n <= 1 THEN Reg(n) ELSE Reg(fib(n - 1) + fib(n - 2))

------------------------------------------------------------------------------
(* The chars from 'A' on, and the bit that stands for them. *)
IsSkipped(ch) == ch <= 64 \/ ch >= 128
Bit(ch) == ch % 32

(* The bits set for a line; leaving the loop early changes no answer. *)
SeenBits(s) == {Bit(s[i]) : i \in {j \in DOMAIN s : ~IsSkipped(s[j])}}

(* The C filter, with MASK 0x03fffffe. *)
ispangram(s) == 1..25 \subseteq SeenBits(s)

(* The assembly version, with MASK 0x07fffffe. *)
pangram(s) == 1..26 \subseteq SeenBits(s)

(* The Python script: the letters of a line, in lower case, are 26. *)
is_pangram(s) == LET letters == {n \in 97..122 : \E j \in DOMAIN s : s[j] \in {n, n - 32}}
                 IN Cardinality(letters) = 26
=============================================================================
