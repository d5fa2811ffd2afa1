----------------------------- MODULE EntropyCoder -----------------------------
(***************************************************************************)
(* entropy.sv of the JPEG encoder: the run lengths of the coefficients of  *)
(* a block, two at a time, and the pipeline of their codes.  A run of more *)
(* than 15 zeros needs extra codes (ZRL), which are only known to be       *)
(* needed when the next coefficient comes: they are put into places of the *)
(* pipeline in front of it, and are read from the table by the zeros.      *)
(*                                                                         *)
(* One action is one clock without a hold: a hold stops all registers.     *)
(* A coefficient is its size in bits, a code is the symbol it stands for.  *)
(***************************************************************************)
EXTENDS Naturals, Sequences, SequencesExt

CONSTANTS
  Run,          \* zeros of a ZRL: 16
  LastCnt,      \* last pair of a block: 31
  Components,   \* 0 is luma
  Sizes,        \* sizes of the coefficients
  MaxNonzero,   \* bound on the AC coefficients of an image that are not zero
  MaxBlocks,    \* bound on the blocks of an image
  MaxBubbles    \* bound on the clocks without a pair

(* A run that needs a ZRL empties the places where it is put: they are the *)
(* third pair before.  A shorter Run would write over codes of others.     *)
ASSUME EntropyAssumption ==
  /\ {Run, LastCnt, MaxNonzero, MaxBlocks, MaxBubbles} \subseteq Nat \ {0}
  /\ Sizes \subseteq Nat \ {0} /\ 0 \in Components
  /\ 6 < Run /\ 2 * LastCnt + 1 < 4 * Run

VARIABLES
  q, q_valid, q_cnt, q_component, q_last_mcu,    \* the port
  previousDC, rl_stored, rl16_stored,
  code0, code1, code2, coeff0, coeff1, coeff2, codecoeff3,
  out_valid0, out_valid1, out_valid2, out_valid3, last_mcu,
  output, out_tlast,                             \* what this clock gave
  blocks, nonzero, bubbles,
  expected, zeros, dc                            \* an encoder that takes no time

port  == <<q, q_valid, q_cnt, q_component, q_last_mcu>>
bound == <<blocks, nonzero, bubbles>>
model == <<expected, zeros, dc>>
vars  == <<port, previousDC, rl_stored, rl16_stored, code0, code1, code2, coeff0, coeff1, coeff2,
           codecoeff3, out_valid0, out_valid1, out_valid2, out_valid3, last_mcu, output, out_tlast,
           bound, model>>

Slots == {0, 1}
Pair(a, b) == [i \in Slots |-> IF i = 0 THEN a ELSE b]

Code(ac, run, size, component) ==
  [ac |-> ac, run |-> run, size |-> size, chroma |-> component # 0]
Zrl(component) == Code(TRUE, Run - 1, 0, component)
Eob(component) == Code(TRUE, 0, 0, component)

(* The size of a difference of two DC coefficients, as a stand-in.         *)
Difference(a, b) == IF a >= b THEN a - b ELSE b - a

-----------------------------------------------------------------------------
(* Run lengths: from the registers to slot 0, from there to slot 1.        *)
IsDC(i)  == i = 0 /\ q_cnt = 0
IsEob(i) == i = 1 /\ q_cnt = LastCnt /\ q[i] = 0

Count(i, rl, rl16) ==
  IF IsDC(i) \/ q[i] # 0 \/ IsEob(i) THEN [valid |-> TRUE, rl |-> 0, rl16 |-> 0]
  ELSE IF rl = Run - 1 THEN [valid |-> FALSE, rl |-> 0, rl16 |-> (rl16 + 1) % 4]
  ELSE [valid |-> FALSE, rl |-> rl + 1, rl16 |-> rl16]

Count0   == Count(0, rl_stored, rl16_stored)
Count1   == Count(1, Count0.rl, Count0.rl16)
rl       == Pair(rl_stored, Count0.rl)
rl16     == Pair(rl16_stored, Count0.rl16)
rl_valid == Pair(Count0.valid, Count1.valid)

Coeff(i) == IF IsDC(i) THEN Difference(q[i], previousDC[q_component]) ELSE q[i]

(* What the table is asked for: a slot without a code asks for ZRL.        *)
Symbol(i) ==
  IF ~rl_valid[i]  THEN Zrl(q_component)
  ELSE IF IsEob(i) THEN Eob(q_component)
  ELSE IF IsDC(i)  THEN Code(FALSE, 0, Coeff(i), q_component)
  ELSE Code(TRUE, rl[i], Coeff(i), q_component)

(* Mutant: one ZRL goes where two would.                                   *)
NeedsSwapped(i, n) == rl_valid[i] /\ q[i] # 0 /\ IF n = 2 THEN rl16[i] % 2 = 1 ELSE rl16[i] >= 2

(* The coefficient in slot i needs two codes of ZRL, or one more.          *)
Needs(i, n) == rl_valid[i] /\ q[i] # 0 /\ IF n = 2 THEN rl16[i] >= 2 ELSE rl16[i] % 2 = 1

Insert(n) == q_valid /\ \E i \in Slots : Needs(i, n)

(* For the data the code binds q_valid to the first slot only.             *)
InsertTwoData    == (q_valid /\ Needs(0, 2)) \/ Needs(1, 2)
InsertOneData(i) == (i = 1 /\ q_valid /\ Needs(0, 1)) \/ Needs(1, 1)

-----------------------------------------------------------------------------
NoCode == Code(FALSE, 0, 0, 0)

Init ==
  /\ q = Pair(0, 0) /\ q_valid = FALSE /\ q_cnt = LastCnt /\ q_component = 0 /\ q_last_mcu = FALSE
  /\ previousDC = [c \in Components |-> 0] /\ rl_stored = 0 /\ rl16_stored = 0
  /\ code0 = Pair(NoCode, NoCode) /\ code1 = code0 /\ code2 = code0
  /\ coeff0 = Pair(0, 0) /\ coeff1 = coeff0 /\ coeff2 = coeff0
  /\ codecoeff3 = [i \in Slots |-> [code |-> NoCode, coeff |-> 0]]
  /\ out_valid0 = Pair(FALSE, FALSE) /\ out_valid1 = out_valid0
  /\ out_valid2 = out_valid0 /\ out_valid3 = out_valid0
  /\ last_mcu = [n \in 0 .. 3 |-> FALSE] /\ output = <<>> /\ out_tlast = FALSE
  /\ blocks = 0 /\ nonzero = 0 /\ bubbles = 0
  /\ expected = <<>> /\ zeros = 0 /\ dc = [c \in Components |-> 0]

(* The next pair on the port, from the quantizer, which keeps the last one *)
(* on it while it has none.                                                *)
Bubble ==
  /\ q_valid' = FALSE /\ UNCHANGED <<q, q_cnt, q_component, q_last_mcu, blocks, nonzero>>
  /\ IF q_last_mcu /\ q_cnt = LastCnt THEN UNCHANGED bubbles
     ELSE bubbles < MaxBubbles /\ bubbles' = bubbles + 1

NextPair ==
  LET first == q_cnt = LastCnt
  IN  /\ ~(q_last_mcu /\ first) /\ q_valid' = TRUE /\ UNCHANGED bubbles
      /\ q_cnt' = IF first THEN 0 ELSE q_cnt + 1
      /\ IF first THEN /\ q_component' \in Components /\ blocks' = blocks + 1
                       /\ q_last_mcu' \in {blocks + 1 = MaxBlocks, TRUE}
                  ELSE UNCHANGED <<q_component, q_last_mcu, blocks>>
      /\ q' \in [Slots -> {0} \cup Sizes]
      /\ nonzero' = nonzero + (IF q'[0] # 0 /\ ~first THEN 1 ELSE 0) + (IF q'[1] # 0 THEN 1 ELSE 0)
      /\ nonzero' <= MaxNonzero

SomeSlot(valid) == \E i \in Slots : valid[i]

(* Mutant: the mark moves with the codes of the first slot only.           *)
LastMcuFirstSlot ==
  last_mcu' = [n \in 0 .. 3 |->
    CASE n = 0 -> IF q_valid THEN q_last_mcu /\ q_cnt = LastCnt ELSE last_mcu[0]
      [] n = 1 -> IF out_valid0[0] THEN last_mcu[0] ELSE last_mcu[1]
      [] n = 2 -> IF out_valid1[0] THEN last_mcu[1] ELSE last_mcu[2]
      [] n = 3 -> IF out_valid2[0] THEN last_mcu[2] ELSE last_mcu[3]]

(* The mark of the last pair moves with the pairs that have codes.         *)
LastMcu ==
  last_mcu' = [n \in 0 .. 3 |->
    CASE n = 0 -> IF q_valid THEN q_last_mcu /\ q_cnt = LastCnt ELSE last_mcu[0]
      [] n = 1 -> IF SomeSlot(out_valid0) THEN last_mcu[0] ELSE last_mcu[1]
      [] n = 2 -> IF SomeSlot(out_valid1) THEN last_mcu[1] ELSE last_mcu[2]
      [] n = 3 -> IF SomeSlot(out_valid2) THEN last_mcu[2] ELSE last_mcu[3]]

Out(i) == IF out_valid3[i] THEN <<codecoeff3[i]>> ELSE <<>>

Pipeline ==
  /\ code0' = [i \in Slots |-> Symbol(i)]
  /\ coeff0' = [i \in Slots |-> IF q_valid /\ rl_valid[i] THEN Coeff(i) ELSE coeff0[i]]
  /\ out_valid0' = [i \in Slots |-> q_valid /\ rl_valid[i]]
  /\ code1' = [i \in Slots |-> IF out_valid0[i] \/ InsertTwoData THEN code0[i] ELSE code1[i]]
  /\ coeff1' = [i \in Slots |-> IF out_valid0[i] THEN coeff0[i] ELSE IF InsertTwoData THEN 0 ELSE coeff1[i]]
  /\ out_valid1' = IF Insert(2) THEN Pair(TRUE, TRUE) ELSE out_valid0
  /\ code2' = [i \in Slots |-> IF out_valid1[i] THEN code1[i] ELSE IF InsertOneData(i) THEN code0[i] ELSE code2[i]]
  /\ coeff2' = [i \in Slots |-> IF out_valid1[i] THEN coeff1[i] ELSE IF InsertOneData(i) THEN 0 ELSE coeff2[i]]
  /\ out_valid2' = IF Insert(1) THEN [out_valid2 EXCEPT ![1] = TRUE] ELSE out_valid1
  /\ codecoeff3' = [i \in Slots |-> IF out_valid2[i] THEN [code |-> code2[i], coeff |-> coeff2[i]]
                                      ELSE codecoeff3[i]]
  /\ out_valid3' = out_valid2
  /\ output' = Out(0) \o Out(1)
  /\ out_tlast' = (SomeSlot(out_valid3) /\ last_mcu[3])

Runs ==
  IF q_valid
    THEN /\ rl_stored' = Count1.rl /\ rl16_stored' = Count1.rl16
         /\ previousDC' = IF q_last_mcu /\ q_cnt = LastCnt THEN [c \in Components |-> 0]
                          ELSE IF q_cnt = 0 THEN [previousDC EXCEPT ![q_component] = q[0]] ELSE previousDC
    ELSE UNCHANGED <<rl_stored, rl16_stored, previousDC>>

(* What the standard asks for the pair, coefficient by coefficient.        *)
Coded(run, c, component) ==
  [n \in 1 .. run \div Run |-> [code |-> Zrl(component), coeff |-> 0]]
    \o <<[code |-> Code(TRUE, run % Run, c, component), coeff |-> c]>>

DcCode == LET d == Difference(q[0], dc[q_component])
          IN  [code |-> Code(FALSE, 0, d, q_component), coeff |-> d]

First ==
  IF q_cnt = 0 THEN [zeros |-> 0, codes |-> <<DcCode>>]
  ELSE IF q[0] = 0 THEN [zeros |-> zeros + 1, codes |-> <<>>]
  ELSE [zeros |-> 0, codes |-> Coded(zeros, q[0], q_component)]

Second ==
  IF q[1] # 0 THEN [zeros |-> 0, codes |-> Coded(First.zeros, q[1], q_component)]
  ELSE [zeros |-> First.zeros + 1,
        codes |-> IF q_cnt = LastCnt THEN <<[code |-> Eob(q_component), coeff |-> 0]>> ELSE <<>>]

Left == SubSeq(expected, Len(output) + 1, Len(expected))

Expected ==
  IF q_valid
    THEN /\ expected' = Left \o First.codes \o Second.codes
         /\ zeros' = Second.zeros
         /\ dc' = IF q_cnt = 0 THEN [dc EXCEPT ![q_component] = q[0]] ELSE dc
    ELSE expected' = Left /\ UNCHANGED <<zeros, dc>>

Clock == (Bubble \/ NextPair) /\ Runs /\ LastMcu /\ Pipeline /\ Expected

Next == Clock
Spec == Init /\ [][Next]_vars

(* The clock runs; pairs come as long as the image has some.               *)
FairSpec == Spec /\ WF_vars(Clock)

-----------------------------------------------------------------------------
TypeOK ==
  /\ q \in [Slots -> {0} \cup Sizes] /\ q_cnt \in 0 .. LastCnt /\ q_component \in Components
  /\ rl_stored \in 0 .. Run - 1 /\ rl16_stored \in 0 .. 3
  /\ {out_valid0, out_valid1, out_valid2, out_valid3} \subseteq [Slots -> BOOLEAN]
  /\ {q_valid, q_last_mcu, out_tlast} \subseteq BOOLEAN

(* The codes that leave are those that the standard asks for, in order: no *)
(* ZRL is missing, has the code of something else, or takes the place of a *)
(* code, whatever gaps there are between the pairs; and the mark of the    *)
(* end is on the last one.                                                 *)
CodesAreTheBlocks ==
  /\ IsPrefix(output, expected)
  /\ out_tlast => output = expected /\ q_last_mcu /\ q_cnt = LastCnt

(* An image whose last pair has come is marked as ended.                   *)
ImageEnds == (q_valid /\ q_last_mcu /\ q_cnt = LastCnt) ~> out_tlast
===============================================================================
