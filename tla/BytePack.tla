------------------------------- MODULE BytePack -------------------------------
(***************************************************************************)
(* The end of the JPEG encoder: byte_pack.sv with its two bit_pack.sv and  *)
(* the ff00.sv between them.  Codes of varying length come in; out come    *)
(* words of whole bytes, a zero byte after each byte of ones, the last     *)
(* byte and the last word filled with ones.  Each stage may hold the one   *)
(* before it; registers are those of the modules, one action is one clock. *)
(*                                                                         *)
(* A word has Word bits and a byte Byte bits (32 and 8 in the FPGA), and a *)
(* bus of Word bits is a sequence of them, the highest first.              *)
(***************************************************************************)
EXTENDS Naturals, Sequences, SequencesExt

CONSTANTS
  Word, Byte,
  Codes,     \* the codes of the entropy coder
  MaxCodes   \* bound on the codes of an image

ASSUME WordAssumption ==
  /\ Byte \in Nat \ {0} /\ Word \in Nat \ {0} /\ Word % Byte = 0 /\ MaxCodes \in Nat
  /\ \A code \in Codes : code \in Seq({0, 1}) /\ Len(code) \in 1 .. 2 * Word

VARIABLES
  code,      \* the register of the entropy coder: a port
  bit_pack_0, ff00, bit_pack_1,
  given,     \* codes so far
  image,     \* their bits
  ended,     \* the last code was given
  packed,    \* bits that left
  finished   \* out_tlast was among them

packVars == <<code, bit_pack_0, ff00, bit_pack_1, given, image, ended, packed, finished>>

Zeros(n) == [i \in 1 .. n |-> 0]
Ones(n)  == [i \in 1 .. n |-> 1]

(* A bus of n bits that begins with s.                                     *)
Bus(s, n) == SubSeq(s \o Zeros(n), 1, n)

(* A port without data keeps what it had.                                  *)
NoPort == [data |-> Zeros(2 * Word), nbits |-> 0, tlast |-> FALSE, valid |-> FALSE]

-----------------------------------------------------------------------------
(* bit_pack.sv                                                             *)
EmptyBitPack ==
  [in32_data |-> Zeros(Word), in32_nbits |-> 0, in32_tlast |-> FALSE, in32_valid |-> FALSE,
   long_in |-> FALSE, bit_count |-> 0, bit_packer |-> Zeros(2 * Word), tlast_cycle |-> FALSE,
   out_tlast |-> FALSE, out_valid |-> FALSE, out_nbytes |-> 0]

In32Hold(p, out_hold) == (out_hold /\ p.out_valid) \/ (p.tlast_cycle /\ ~p.out_tlast)

InHold(p, in, out_hold) ==
  (In32Hold(p, out_hold) /\ p.in32_valid) \/ (~p.long_in /\ in.nbits > Word)

OutData(p) ==
  [i \in 1 .. Word |-> IF p.out_tlast /\ i > p.bit_count THEN 1 ELSE p.bit_packer[i]]

(* 64 to 32 bits: a long code takes two clocks.                            *)
Align(p, in, out_hold) ==
  IF In32Hold(p, out_hold) /\ p.in32_valid THEN p
  ELSE LET half == [p EXCEPT !.in32_valid = in.valid,
                             !.long_in = ~p.long_in /\ in.valid /\ in.nbits > Word]
       IN  CASE p.long_in ->
                  [half EXCEPT !.in32_nbits = in.nbits - Word, !.in32_tlast = in.tlast,
                               !.in32_data = SubSeq(in.data, Word + 1, 2 * Word)]
             [] ~p.long_in /\ in.valid ->
                  [half EXCEPT !.in32_nbits = IF in.nbits > Word THEN Word ELSE in.nbits,
                               !.in32_tlast = in.tlast /\ in.nbits <= Word,
                               !.in32_data = SubSeq(in.data, 1, Word)]
             [] OTHER -> half

(* next_bit_count_decr; the packer shifts by a word if it is not 0.        *)
Decrement(p) == IF p.out_tlast THEN p.bit_count ELSE IF p.bit_count >= Word THEN Word ELSE 0

(* Mutant: the end is forgotten while a word goes out before it.           *)
NextTlastCycleOnce(p) == p.in32_valid /\ p.in32_tlast

NextTlastCycle(p) == IF p.tlast_cycle THEN ~p.out_tlast ELSE p.in32_valid /\ p.in32_tlast

(* The load is or-ed in behind the bits that stay.                         *)
Pack(p, out_hold) ==
  IF out_hold /\ p.out_valid THEN p
  ELSE LET decr  == Decrement(p)
           load  == p.in32_valid /\ ~In32Hold(p, out_hold)
           shift == IF p.out_tlast \/ decr # 0 THEN Word ELSE 0
           place == p.bit_count - decr
           count == place + (IF load THEN p.in32_nbits ELSE 0)
           tlast == NextTlastCycle(p)
       IN  [p EXCEPT
              !.bit_count = count, !.tlast_cycle = tlast,
              !.out_tlast = tlast /\ count <= Word,
              !.out_valid = (tlast /\ count <= Word) \/ count >= Word,
              !.out_nbytes = IF tlast /\ count <= Word THEN (count + Byte - 1) \div Byte
                                                       ELSE Word \div Byte,
              !.bit_packer = [i \in 1 .. 2 * Word |->
                 IF \/ i + shift <= 2 * Word /\ p.bit_packer[i + shift] = 1
                    \/ load /\ i - place \in 1 .. Word /\ p.in32_data[i - place] = 1
                 THEN 1 ELSE 0]]

(* One clock: both halves see the registers before it.                     *)
BitPack(p, in, out_hold) ==
  LET a == Align(p, in, out_hold)
  IN  [Pack(p, out_hold) EXCEPT !.in32_data = a.in32_data, !.in32_nbits = a.in32_nbits,
         !.in32_tlast = a.in32_tlast, !.in32_valid = a.in32_valid, !.long_in = a.long_in]

-----------------------------------------------------------------------------
(* ff00.sv                                                                 *)
ByteOf(data, i) == SubSeq(data, (i - 1) * Byte + 1, i * Byte)

(* Mutant: bytes of the padding count as well.                             *)
IsFfAll(data, nbytes, i) == ByteOf(data, i) = Ones(Byte)

IsFf(data, nbytes, i) == i <= nbytes /\ ByteOf(data, i) = Ones(Byte)

Stuff(data, nbytes) ==
  Bus(FlattenSeq([i \in 1 .. Word \div Byte |->
        ByteOf(data, i) \o IF IsFf(data, nbytes, i) THEN Zeros(Byte) ELSE <<>>]), 2 * Word)

StuffedBytes(data, nbytes) ==
  nbytes + Cardinality({i \in 1 .. Word \div Byte : IsFf(data, nbytes, i)})

(* p is bit_pack_0 before the clock.                                       *)
Ff00(f, p, out_hold) ==
  IF out_hold /\ f.valid THEN f
  ELSE IF ~p.out_valid THEN [f EXCEPT !.valid = FALSE]
  ELSE [data |-> Stuff(OutData(p), p.out_nbytes), tlast |-> p.out_tlast, valid |-> TRUE,
        nbits |-> Byte * StuffedBytes(OutData(p), p.out_nbytes)]

-----------------------------------------------------------------------------
(* byte_pack.sv: a hold of its output goes back from stage to stage.       *)
Hold1(out_hold) == InHold(bit_pack_1, ff00, out_hold /\ bit_pack_1.out_valid)
Hold0(out_hold) == Hold1(out_hold) /\ ff00.valid
CodeHold(out_hold) == InHold(bit_pack_0, code, Hold0(out_hold) /\ bit_pack_0.out_valid)

PackInit ==
  /\ code = NoPort /\ bit_pack_0 = EmptyBitPack /\ ff00 = NoPort /\ bit_pack_1 = EmptyBitPack
  /\ given = 0 /\ image = <<>> /\ ended = FALSE /\ packed = <<>> /\ finished = FALSE

(* The entropy coder gives its next code, or none, unless it is held.      *)
NewCode(c, tlast) ==
  /\ ~ended /\ given < MaxCodes
  /\ code' = [data |-> Bus(c, 2 * Word), nbits |-> Len(c), tlast |-> tlast, valid |-> TRUE]
  /\ given' = given + 1 /\ image' = image \o c /\ ended' = tlast

KeepCode(valid) == code' = [code EXCEPT !.valid = valid] /\ UNCHANGED <<given, image, ended>>

PackClock(out_hold) ==
  /\ bit_pack_0' = BitPack(bit_pack_0, code, Hold0(out_hold) /\ bit_pack_0.out_valid)
  /\ ff00' = Ff00(ff00, bit_pack_0, Hold1(out_hold) /\ ff00.valid)
  /\ bit_pack_1' = BitPack(bit_pack_1, ff00, out_hold /\ bit_pack_1.out_valid)
  /\ IF CodeHold(out_hold) /\ code.valid
       THEN KeepCode(TRUE)
       ELSE \/ KeepCode(FALSE)
            \/ \E c \in Codes, tlast \in BOOLEAN : (given + 1 = MaxCodes => tlast) /\ NewCode(c, tlast)
  /\ IF bit_pack_1.out_valid /\ ~out_hold
       THEN packed' = packed \o OutData(bit_pack_1) /\ finished' = bit_pack_1.out_tlast
       ELSE UNCHANGED <<packed, finished>>

PackNext == \E out_hold \in BOOLEAN : PackClock(out_hold)

(* The reader of the output does not hold for ever.                        *)
PackSpec == PackInit /\ [][PackNext]_packVars
PackFairSpec == PackSpec /\ WF_packVars(PackClock(FALSE))

-----------------------------------------------------------------------------
(* What a file of JPEG has to hold.                                        *)
Filled(s, n) == IF Len(s) % n = 0 THEN s ELSE s \o Ones(n - (Len(s) % n))

Reference(bits) ==
  LET bytes == Filled(bits, Byte)
  IN  FlattenSeq([i \in 1 .. Len(bytes) \div Byte |->
        ByteOf(bytes, i) \o IF ByteOf(bytes, i) = Ones(Byte) THEN Zeros(Byte) ELSE <<>>])

IsBitPack(p) ==
  /\ p.in32_data \in Seq({0, 1}) /\ Len(p.in32_data) = Word /\ p.in32_nbits \in 0 .. Word
  /\ p.bit_packer \in Seq({0, 1}) /\ Len(p.bit_packer) = 2 * Word
  /\ p.bit_count \in 0 .. 2 * Word - 1 /\ p.out_nbytes \in 0 .. Word \div Byte
  /\ {p.in32_tlast, p.in32_valid, p.long_in, p.tlast_cycle, p.out_tlast, p.out_valid} \subseteq BOOLEAN

(* The counters of the packers never exceed their registers.               *)
PackTypeOK ==
  /\ IsBitPack(bit_pack_0) /\ IsBitPack(bit_pack_1)
  /\ ff00.data \in Seq({0, 1}) /\ Len(ff00.data) = 2 * Word /\ ff00.nbits \in 0 .. 2 * Word
  /\ given \in 0 .. MaxCodes /\ {ended, finished} \subseteq BOOLEAN

(* The words that leave are the stuffed bytes of the codes in their order, *)
(* all of them and filled with ones when the last is out: no bit is lost,  *)
(* doubled or reordered by a hold, a long code, or a zero byte that        *)
(* crosses a word.                                                         *)
ImageIsItsCodes ==
  LET words == Filled(Reference(image), Word)
  IN  IF finished THEN packed = words ELSE IsPrefix(packed, words)

(* After the last code comes the last word, on which the size of the image *)
(* and its being valid depend.                                             *)
LastWordComes == ended ~> finished
===============================================================================
