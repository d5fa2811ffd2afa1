--------------------------- MODULE JpegEncoder_proofs ---------------------------
(***************************************************************************)
(* Theorems about the two ends of the JPEG encoder.                        *)
(*                                                                         *)
(* EntropyCoder, for runs, blocks and images of any size that its          *)
(* assumption allows, with gaps of any length between the pairs: the codes *)
(* that left are, with those in the stages, the codes of the blocks        *)
(* (NothingIsLost).                                                        *)
(*                                                                         *)
(* BytePack, for words and bytes of any width, codes of up to two words    *)
(* and holds at any time.  One clock of a packer keeps the bits in their   *)
(* order (PackStream, AlignStream, PackerStep) and the mark of the end     *)
(* behind them (EndStep).  What ff00 puts between two packers is a word    *)
(* with its bytes escaped (StuffIs), and escaping whole bytes of two       *)
(* texts is escaping each (EscapesJoin).  So what has left, is in the      *)
(* second packer, has been escaped, and is in the first packer is the      *)
(* image (PackIInv).                                                       *)
(***************************************************************************)
EXTENDS EntropyCoder, BytePack, SequenceTheorems, FiniteSetTheorems, WellFoundedInduction, TLAPS

CodeSet == [ac : BOOLEAN, run : Nat, size : Nat, chroma : BOOLEAN]
Item    == [code : CodeSet, coeff : Nat]

RegisterTypes ==
  /\ previousDC \in [Components -> Nat]
  /\ code0 \in [Slots -> CodeSet] /\ code1 \in [Slots -> CodeSet] /\ code2 \in [Slots -> CodeSet]
  /\ coeff0 \in [Slots -> Nat] /\ coeff1 \in [Slots -> Nat] /\ coeff2 \in [Slots -> Nat]
  /\ codecoeff3 \in [Slots -> Item]
  /\ last_mcu \in [0 .. 3 -> BOOLEAN]
  /\ output \in Seq(Item) /\ expected \in Seq(Item)
  /\ zeros \in Nat /\ dc \in [Components -> Nat]

Types == TypeOK /\ RegisterTypes

-----------------------------------------------------------------------------
(* The constants, and sequences of items.                                  *)
LEMMA Constants ==
  /\ Run \in Nat /\ 6 < Run /\ LastCnt \in Nat /\ LastCnt > 0 /\ 2 * LastCnt + 1 < 4 * Run
  /\ Sizes \subseteq Nat /\ 0 \notin Sizes /\ 0 \in Components
BY EntropyAssumption

LEMMA PortType ==
  ASSUME TypeOK
  PROVE  /\ q[0] \in Nat /\ q[1] \in Nat /\ q_cnt \in 0 .. LastCnt /\ q_component \in Components
         /\ rl_stored \in 0 .. Run - 1 /\ rl16_stored \in 0 .. 3
<1>1. \A i \in Slots : q[i] \in {0} \cup Sizes
  BY DEF TypeOK
<1>2. {0} \cup Sizes \subseteq Nat
  BY Constants
<1>3. q_cnt \in 0 .. LastCnt /\ q_component \in Components
  BY DEF TypeOK
<1>4. rl_stored \in 0 .. Run - 1 /\ rl16_stored \in 0 .. 3
  BY DEF TypeOK
<1> QED
  BY <1>1, <1>2, <1>3, <1>4 DEF Slots

LEMMA DifferenceType == \A a, b \in Nat : Difference(a, b) \in Nat
BY DEF Difference

LEMMA FixedCodes ==
  ASSUME NEW component
  PROVE  Zrl(component) \in CodeSet /\ Eob(component) \in CodeSet /\ NoCode \in CodeSet
BY Constants DEF Zrl, Eob, NoCode, Code, CodeSet

-----------------------------------------------------------------------------
(* Run lengths: a slot without a code is one more zero.                    *)
IsZeros(n, r, r16) == r \in 0 .. Run - 1 /\ r16 \in 0 .. 3 /\ n = r16 * Run + r

Spent(c) == c.valid /\ c.rl = 0 /\ c.rl16 = 0

LEMMA CountType ==
  ASSUME TypeOK, NEW i \in Slots, NEW r \in 0 .. Run - 1, NEW r16 \in 0 .. 3
  PROVE  LET c == Count(i, r, r16) IN c.valid \in BOOLEAN /\ c.rl \in 0 .. Run - 1 /\ c.rl16 \in 0 .. 3
BY Constants DEF Count

LEMMA OneMoreZero ==
  ASSUME TypeOK, NEW i \in Slots, NEW n \in Nat, NEW r, NEW r16, IsZeros(n, r, r16), n + 1 < 4 * Run
  PROVE  /\ IsDC(i) \/ q[i] # 0 \/ IsEob(i) => Spent(Count(i, r, r16))
         /\ ~IsDC(i) /\ q[i] = 0 /\ ~IsEob(i) =>
              /\ ~Count(i, r, r16).valid
              /\ IsZeros(n + 1, Count(i, r, r16).rl, Count(i, r, r16).rl16)
<1>1. CASE IsDC(i) \/ q[i] # 0 \/ IsEob(i)
  BY <1>1 DEF Count, Spent
<1>2. CASE ~ (IsDC(i) \/ q[i] # 0 \/ IsEob(i)) /\ r = Run - 1
  <2>1. r16 \in 0 .. 2
    <3>1. r16 # 3
      BY <1>2, Constants DEF IsZeros
    <3> QED
      BY <3>1 DEF IsZeros
  <2>2. n + 1 = (r16 + 1) * Run
    BY <1>2, <2>1, Constants DEF IsZeros
  <2>3. (r16 + 1) % 4 = r16 + 1
    BY <2>1
  <2>4. (r16 + 1) * Run + 0 = n + 1 /\ 0 \in 0 .. Run - 1 /\ r16 + 1 \in 0 .. 3
    BY <2>1, <2>2, Constants
  <2>5. Count(i, r, r16) = [valid |-> FALSE, rl |-> 0, rl16 |-> r16 + 1]
    BY <1>2, <2>3 DEF Count
  <2> QED
    BY <1>2, <2>4, <2>5 DEF IsZeros
<1>3. CASE ~ (IsDC(i) \/ q[i] # 0 \/ IsEob(i)) /\ r # Run - 1
  <2>1. Count(i, r, r16) = [valid |-> FALSE, rl |-> r + 1, rl16 |-> r16]
    BY <1>3 DEF Count
  <2>2. r16 * Run \in Nat
    BY Constants DEF IsZeros
  <2>3. r16 * Run + (r + 1) = n + 1 /\ r + 1 \in 0 .. Run - 1
    BY <1>3, <2>2, Constants DEF IsZeros
  <2> QED
    BY <1>3, <2>1, <2>3 DEF IsZeros
<1> QED
  BY <1>1, <1>2, <1>3

LEMMA RunDivided ==
  ASSUME NEW n \in Nat, NEW r, NEW r16, IsZeros(n, r, r16)
  PROVE  n \div Run = r16 /\ n % Run = r
<1>1. Run \in Nat /\ Run > 0 /\ r \in 0 .. Run - 1
  BY Constants DEF IsZeros
<1>2. CASE r16 = 0
  BY <1>1, <1>2 DEF IsZeros
<1>3. CASE r16 = 1
  BY <1>1, <1>3 DEF IsZeros
<1>4. CASE r16 = 2
  BY <1>1, <1>4 DEF IsZeros
<1>5. CASE r16 = 3
  BY <1>1, <1>5 DEF IsZeros
<1> QED
  BY <1>2, <1>3, <1>4, <1>5 DEF IsZeros

-----------------------------------------------------------------------------
(* The place in its block of the next pair that will be counted, and the   *)
(* image has been counted whole.                                           *)
After  == IF q_cnt = LastCnt THEN 0 ELSE q_cnt + 1
At     == IF q_valid THEN q_cnt ELSE After
IsLast == ~q_valid /\ q_last_mcu /\ q_cnt = LastCnt

(* The registers of the run lengths hold the zeros since the last code.    *)
RunsAreZeros ==
  IF At = 0 THEN rl_stored = 0 /\ rl16_stored = 0
  ELSE IsZeros(zeros, rl_stored, rl16_stored) /\ zeros < 2 * At

(* Zeros leave gaps in the pipeline, and the code of a ZRL behind them.    *)
None(valid) == ~valid[0] /\ ~valid[1]
ZerosLeaveGaps ==
  At # 0 =>
    /\ zeros >= 2 => /\ None(out_valid0)
                     /\ code0[0] = Zrl(q_component) /\ code0[1] = Zrl(q_component)
                     /\ ~q_valid => q[0] = 0 /\ q[1] = 0
    /\ zeros >= 4 => None(out_valid1)
    /\ zeros >= 6 => None(out_valid2)

(* What a stage of the pipeline holds.                                     *)
Held(valid, codes, coeff) ==
  (IF valid[0] THEN <<[code |-> codes[0], coeff |-> coeff[0]]>> ELSE <<>>) \o
  (IF valid[1] THEN <<[code |-> codes[1], coeff |-> coeff[1]]>> ELSE <<>>)
Held0 == Held(out_valid0, code0, coeff0)
Held1 == Held(out_valid1, code1, coeff1)
Held2 == Held(out_valid2, code2, coeff2)
Held3 == Out(0) \o Out(1)

(* Codes that were asked for have left or are in the pipeline, in order.   *)
NothingIsLost == expected = output \o (Held3 \o (Held2 \o (Held1 \o Held0)))

(* A mark of the end is with the last codes.                               *)
MarkIsLast ==
  /\ (\E n \in 0 .. 3 : last_mcu[n]) => IsLast
  /\ SomeSlot(out_valid1) /\ last_mcu[1] => None(out_valid0)
  /\ SomeSlot(out_valid2) /\ last_mcu[2] => None(out_valid0) /\ None(out_valid1)
  /\ SomeSlot(out_valid3) /\ last_mcu[3] => None(out_valid0) /\ None(out_valid1) /\ None(out_valid2)
  /\ out_tlast => /\ IsLast /\ None(out_valid0) /\ None(out_valid1) /\ None(out_valid2)
                  /\ None(out_valid3)

SameDC == ~IsLast => previousDC = dc

IInv == Types /\ RunsAreZeros /\ ZerosLeaveGaps /\ NothingIsLost /\ MarkIsLast /\ SameDC

-----------------------------------------------------------------------------
(* The counts of the two slots of a pair that is on the port.              *)
LEMMA SlotsAre ==
  ASSUME TypeOK
  PROVE  /\ (IsDC(0) <=> q_cnt = 0) /\ ~IsDC(1)
         /\ ~IsEob(0) /\ (IsEob(1) <=> q_cnt = LastCnt /\ q[1] = 0)
         /\ rl[0] = rl_stored /\ rl[1] = Count0.rl
         /\ rl16[0] = rl16_stored /\ rl16[1] = Count0.rl16
         /\ rl_valid[0] = Count0.valid /\ rl_valid[1] = Count1.valid
BY DEF IsDC, IsEob, rl, rl16, rl_valid, Pair, Slots

LEMMA FirstCount ==
  ASSUME TypeOK, zeros \in Nat, RunsAreZeros, q_valid
  PROVE  /\ (rl_valid[0] <=> q_cnt = 0 \/ q[0] # 0)
         /\ IsZeros(First.zeros, Count0.rl, Count0.rl16)
         /\ First.zeros \in Nat /\ First.zeros < 2 * q_cnt + 1
         /\ q_cnt = 0 \/ q[0] # 0 => First.zeros = 0 /\ Count0.rl = 0 /\ Count0.rl16 = 0
         /\ q_cnt # 0 => IsZeros(zeros, rl_stored, rl16_stored) /\ zeros < 2 * q_cnt
         /\ q_cnt = 0 => rl16_stored = 0
<1>1. At = q_cnt /\ q_cnt \in 0 .. LastCnt /\ 0 \in Slots
  BY PortType DEF At, Slots
<1>2. IsZeros(0, 0, 0)
  BY Constants DEF IsZeros
<1>3. CASE q_cnt = 0
  <2>1. Spent(Count0)
    BY <1>3, SlotsAre DEF Count0, Count, Spent
  <2>2. First.zeros = 0
    BY <1>3 DEF First
  <2>3. rl16_stored = 0
    BY <1>1, <1>3 DEF RunsAreZeros
  <2>4. rl_valid[0] /\ IsZeros(First.zeros, Count0.rl, Count0.rl16)
    BY <1>2, <2>1, <2>2, SlotsAre DEF Spent
  <2>5. First.zeros \in Nat /\ First.zeros < 2 * q_cnt + 1
    BY <1>3, <2>2
  <2> QED
    BY <1>3, <2>1, <2>2, <2>3, <2>4, <2>5 DEF Spent
<1>4. CASE q_cnt # 0
  <2>1. IsZeros(zeros, rl_stored, rl16_stored) /\ zeros < 2 * q_cnt
    BY <1>1, <1>4 DEF RunsAreZeros
  <2>2. zeros + 1 < 4 * Run
    BY <1>1, <2>1, Constants
  <2>3. IF q[0] # 0 THEN Spent(Count0)
        ELSE ~Count0.valid /\ IsZeros(zeros + 1, Count0.rl, Count0.rl16)
    BY <1>1, <1>4, <2>1, <2>2, OneMoreZero, SlotsAre DEF Count0
  <2>4. First.zeros = IF q[0] # 0 THEN 0 ELSE zeros + 1
    BY <1>4 DEF First
  <2> QED
    BY <1>1, <1>2, <1>4, <2>1, <2>3, <2>4, SlotsAre DEF Spent
<1> QED
  BY <1>3, <1>4

LEMMA SecondCount ==
  ASSUME TypeOK, zeros \in Nat, RunsAreZeros, q_valid
  PROVE  /\ (rl_valid[1] <=> q[1] # 0 \/ q_cnt = LastCnt)
         /\ q_cnt = LastCnt => Count1.rl = 0 /\ Count1.rl16 = 0
         /\ q_cnt # LastCnt => IsZeros(Second.zeros, Count1.rl, Count1.rl16)
         /\ Second.zeros \in Nat /\ Second.zeros < 2 * (q_cnt + 1)
<1>1. q_cnt \in 0 .. LastCnt /\ 1 \in Slots
  BY PortType DEF Slots
<1>2. IsZeros(0, 0, 0)
  BY Constants DEF IsZeros
<1>3. /\ IsZeros(First.zeros, Count0.rl, Count0.rl16) /\ First.zeros \in Nat
      /\ First.zeros < 2 * q_cnt + 1
  BY FirstCount
<1>4. First.zeros + 1 < 4 * Run
  BY <1>1, <1>3, Constants
<1>5. IF q[1] # 0 \/ q_cnt = LastCnt THEN Spent(Count1)
      ELSE ~Count1.valid /\ IsZeros(First.zeros + 1, Count1.rl, Count1.rl16)
  BY <1>1, <1>3, <1>4, OneMoreZero, SlotsAre DEF Count1
<1>6. Second.zeros = IF q[1] # 0 THEN 0 ELSE First.zeros + 1
  BY DEF Second
<1>7. Second.zeros \in Nat /\ Second.zeros < 2 * (q_cnt + 1)
  BY <1>1, <1>3, <1>6
<1> QED
  BY <1>2, <1>5, <1>6, <1>7, SlotsAre DEF Spent

(* A pair needs as many codes of ZRL as runs were complete before its      *)
(* first coefficient.                                                      *)
ZRLs == IF q[0] # 0 THEN rl16[0] ELSE IF q[1] # 0 THEN rl16[1] ELSE 0

LEMMA NeedsAre ==
  ASSUME TypeOK, zeros \in Nat, RunsAreZeros, q_valid
  PROVE  /\ ZRLs \in 0 .. 3
         /\ Insert(2) <=> ZRLs >= 2
         /\ Insert(1) <=> ZRLs % 2 = 1
         /\ InsertTwoData <=> ZRLs >= 2
         /\ InsertOneData(1) <=> ZRLs % 2 = 1
<1>1. rl16[0] \in 0 .. 3 /\ rl16[1] \in 0 .. 3
  BY FirstCount, SlotsAre, PortType DEF IsZeros
<1>2. q[0] # 0 => rl_valid[0] /\ rl16[1] = 0
  BY FirstCount, SlotsAre
<1>3. q[1] # 0 => rl_valid[1]
  BY SecondCount
<1>4. \A n \in {1, 2}, i \in Slots : Needs(i, n) =
        (rl_valid[i] /\ q[i] # 0 /\ IF n = 2 THEN rl16[i] >= 2 ELSE rl16[i] % 2 = 1)
  BY DEF Needs
<1>5. /\ Needs(0, 2) <=> q[0] # 0 /\ rl16[0] >= 2
      /\ Needs(0, 1) <=> q[0] # 0 /\ rl16[0] % 2 = 1
      /\ Needs(1, 2) <=> q[0] = 0 /\ q[1] # 0 /\ rl16[1] >= 2
      /\ Needs(1, 1) <=> q[0] = 0 /\ q[1] # 0 /\ rl16[1] % 2 = 1
  BY <1>1, <1>2, <1>3 DEF Needs
<1>6. \A n \in {1, 2} : Insert(n) <=> Needs(0, n) \/ Needs(1, n)
  BY DEF Insert, Slots
<1> QED
  BY <1>1, <1>5, <1>6 DEF ZRLs, InsertTwoData, InsertOneData

(* The codes before those of the coefficients.                             *)
ZrlItem   == [code |-> Zrl(q_component), coeff |-> 0]
Zrls(n)   == (IF n % 2 = 1 THEN <<ZrlItem>> ELSE <<>>) \o (IF n >= 2 THEN <<ZrlItem, ZrlItem>> ELSE <<>>)

LEMMA CodedIs ==
  ASSUME TypeOK, NEW n \in Nat, NEW r, NEW r16, IsZeros(n, r, r16), NEW c \in Nat
  PROVE  Coded(n, c, q_component) = Zrls(r16) \o <<[code |-> Code(TRUE, r, c, q_component), coeff |-> c]>>
<1> DEFINE last == <<[code |-> Code(TRUE, r, c, q_component), coeff |-> c]>>
           some(k) == [i \in 1 .. k |-> ZrlItem]
<1>1. n \div Run = r16 /\ n % Run = r
  BY RunDivided
<1>2. Coded(n, c, q_component) = some(r16) \o last
  BY <1>1 DEF Coded, ZrlItem
<1>3. some(r16) = Zrls(r16)
  <2>1. r16 \in 0 .. 3
    BY DEF IsZeros
  <2>2. CASE r16 = 0
    BY <2>2 DEF Zrls
  <2>3. CASE r16 = 1
    BY <2>3 DEF Zrls
  <2>4. CASE r16 = 2
    BY <2>4 DEF Zrls
  <2>5. CASE r16 = 3
    <3>1. some(3) = <<ZrlItem>> \o <<ZrlItem, ZrlItem>>
      OBVIOUS
    <3> QED
      BY <2>5, <3>1 DEF Zrls
  <2> QED
    BY <2>1, <2>2, <2>3, <2>4, <2>5
<1> QED
  BY <1>2, <1>3

One(valid, item) == IF valid THEN <<item>> ELSE <<>>

(* What a pair puts into the first stage.                                  *)
Given(i) == [code |-> Symbol(i), coeff |-> Coeff(i)]

LEMMA GivenType ==
  ASSUME Types, NEW i \in Slots
  PROVE  /\ Coeff(i) \in Nat /\ Symbol(i) \in CodeSet /\ Given(i) \in Item /\ ZrlItem \in Item
         /\ Eob(q_component) \in CodeSet
<1>1. q[i] \in Nat /\ rl[i] \in Nat /\ q_component \in Components
  <2>1. rl[0] \in Nat /\ rl[1] \in Nat
    BY PortType, SlotsAre, CountType, Constants DEF Types, Count0, Slots
  <2> QED
    BY <2>1, PortType DEF Types, Slots
<1>2. Coeff(i) \in Nat
  BY <1>1, DifferenceType DEF Coeff, Types, RegisterTypes
<1>3. Zrl(q_component) \in CodeSet /\ Eob(q_component) \in CodeSet
  BY FixedCodes
<1>4. Code(FALSE, 0, Coeff(i), q_component) \in CodeSet /\ Code(TRUE, rl[i], Coeff(i), q_component) \in CodeSet
  BY <1>1, <1>2 DEF Code, CodeSet
<1>5. Symbol(i) \in CodeSet
  BY <1>3, <1>4 DEF Symbol
<1> QED
  BY <1>2, <1>3, <1>5 DEF Given, ZrlItem, Item

LEMMA ZrlsType ==
  ASSUME ZrlItem \in Item, NEW n \in 0 .. 3
  PROVE  Zrls(n) \in Seq(Item) /\ Zrls(0) = <<>>
BY DEF Zrls

LEMMA FirstCodes ==
  ASSUME Types, RunsAreZeros, SameDC, q_valid
  PROVE  First.codes = Zrls(IF q[0] # 0 THEN rl16[0] ELSE 0) \o One(rl_valid[0], Given(0))
<1>1. zeros \in Nat /\ TypeOK /\ 0 \in Slots
  BY DEF Types, RegisterTypes, Slots
<1>2. Zrls(0) = <<>> /\ Given(0) \in Item
  BY <1>1, ZrlsType, GivenType
<1>3. rl_valid[0] <=> q_cnt = 0 \/ q[0] # 0
  BY <1>1, FirstCount
<1>4. CASE q_cnt = 0
  <2>1. previousDC = dc
    BY DEF SameDC, IsLast
  <2>2. Given(0) = DcCode
    BY <1>1, <1>3, <1>4, <2>1, SlotsAre DEF Given, DcCode, Symbol, Coeff
  <2>3. rl16[0] = 0
    BY <1>1, <1>4, FirstCount, SlotsAre
  <2>4. First.codes = <<DcCode>>
    BY <1>4 DEF First
  <2> QED
    BY <1>2, <1>3, <1>4, <2>2, <2>3, <2>4 DEF One
<1>5. CASE q_cnt # 0 /\ q[0] = 0
  BY <1>2, <1>3, <1>5 DEF First, One
<1>6. CASE q_cnt # 0 /\ q[0] # 0
  <2>1. Given(0) = [code |-> Code(TRUE, rl[0], q[0], q_component), coeff |-> q[0]]
    BY <1>1, <1>3, <1>6, SlotsAre DEF Given, Symbol, Coeff
  <2>2. IsZeros(zeros, rl[0], rl16[0])
    BY <1>1, <1>6, FirstCount, SlotsAre
  <2>3. q[0] \in Nat
    BY <1>1, PortType
  <2>4. Coded(zeros, q[0], q_component) =
          Zrls(rl16[0]) \o <<[code |-> Code(TRUE, rl[0], q[0], q_component), coeff |-> q[0]]>>
    BY <1>1, <2>2, <2>3, CodedIs
  <2> QED
    BY <1>3, <1>6, <2>1, <2>4 DEF First, One
<1> QED
  BY <1>4, <1>5, <1>6

LEMMA SecondCodes ==
  ASSUME Types, RunsAreZeros, q_valid
  PROVE  Second.codes = Zrls(IF q[1] # 0 THEN rl16[1] ELSE 0) \o One(rl_valid[1], Given(1))
<1>1. zeros \in Nat /\ TypeOK /\ 1 \in Slots
  BY DEF Types, RegisterTypes, Slots
<1>2. Zrls(0) = <<>> /\ Given(1) \in Item
  BY <1>1, ZrlsType, GivenType
<1>3. rl_valid[1] <=> q[1] # 0 \/ q_cnt = LastCnt
  BY <1>1, SecondCount
<1>4. CASE q[1] # 0
  <2>1. Given(1) = [code |-> Code(TRUE, rl[1], q[1], q_component), coeff |-> q[1]]
    BY <1>1, <1>3, <1>4, SlotsAre DEF Given, Symbol, Coeff
  <2>2. IsZeros(First.zeros, rl[1], rl16[1]) /\ First.zeros \in Nat
    BY <1>1, FirstCount, SlotsAre
  <2>3. q[1] \in Nat
    BY <1>1, PortType
  <2>4. Coded(First.zeros, q[1], q_component) =
          Zrls(rl16[1]) \o <<[code |-> Code(TRUE, rl[1], q[1], q_component), coeff |-> q[1]]>>
    BY <1>1, <2>2, <2>3, CodedIs
  <2> QED
    BY <1>3, <1>4, <2>1, <2>4 DEF Second, One
<1>5. CASE q[1] = 0 /\ q_cnt = LastCnt
  <2>1. Given(1) = [code |-> Eob(q_component), coeff |-> 0]
    BY <1>1, <1>3, <1>5, SlotsAre DEF Given, Symbol, Coeff
  <2> QED
    BY <1>2, <1>3, <1>5, <2>1 DEF Second, One
<1>6. CASE q[1] = 0 /\ q_cnt # LastCnt
  BY <1>2, <1>3, <1>6 DEF Second, One
<1> QED
  BY <1>4, <1>5, <1>6

(* The codes that a pair asks for: those of ZRL, and what it puts into the *)
(* first stage.                                                            *)
LEMMA PairCodes ==
  ASSUME Types, RunsAreZeros, SameDC, q_valid
  PROVE  First.codes \o Second.codes =
           Zrls(ZRLs) \o (One(rl_valid[0], Given(0)) \o One(rl_valid[1], Given(1)))
<1> DEFINE k0 == IF q[0] # 0 THEN rl16[0] ELSE 0
           k1 == IF q[1] # 0 THEN rl16[1] ELSE 0
           g0 == One(rl_valid[0], Given(0))
           g1 == One(rl_valid[1], Given(1))
<1>1. zeros \in Nat /\ TypeOK /\ 0 \in Slots /\ 1 \in Slots
  BY DEF Types, RegisterTypes, Slots
<1>2. g0 \in Seq(Item) /\ g1 \in Seq(Item) /\ ZrlItem \in Item
  BY <1>1, GivenType DEF One
<1>3. rl16[0] \in 0 .. 3 /\ rl16[1] \in 0 .. 3
  BY <1>1, FirstCount, SlotsAre, PortType DEF IsZeros
<1>4. Zrls(rl16[0]) \in Seq(Item) /\ Zrls(rl16[1]) \in Seq(Item) /\ Zrls(0) = <<>> /\ Zrls(0) \in Seq(Item)
  BY <1>2, <1>3, ZrlsType
<1>5. First.codes = Zrls(k0) \o g0 /\ Second.codes = Zrls(k1) \o g1
  BY FirstCodes, SecondCodes
<1>6. CASE q[0] # 0
  <2>1. rl16[1] = 0
    BY <1>1, <1>6, FirstCount, SlotsAre
  <2>2. k0 = ZRLs /\ k1 = 0 /\ Zrls(k0) \in Seq(Item)
    BY <1>4, <1>6, <2>1 DEF ZRLs
  <2>3. Zrls(k1) \o g1 = g1
    BY <1>2, <1>4, <2>2, ConcatEmptySeq
  <2>4. (Zrls(k0) \o g0) \o g1 = Zrls(k0) \o (g0 \o g1)
    BY <1>2, <2>2, ConcatAssociative
  <2> QED
    BY <1>5, <2>2, <2>3, <2>4
<1>7. CASE q[0] = 0 /\ q_cnt # 0
  <2>1. ~rl_valid[0]
    BY <1>1, <1>7, FirstCount
  <2>2. g0 = <<>> /\ k0 = 0 /\ k1 = ZRLs
    BY <1>7, <2>1 DEF ZRLs, One
  <2>5. Zrls(k1) \in Seq(Item)
    BY <1>4
  <2>3. Zrls(k0) \o g0 = <<>> /\ g0 \o g1 = g1
    BY <1>2, <1>4, <2>2, ConcatEmptySeq
  <2>4. Zrls(k1) \o g1 \in Seq(Item)
    BY <1>2, <2>5, ConcatProperties
  <2> QED
    BY <1>5, <2>2, <2>3, <2>4, ConcatEmptySeq
<1>8. CASE q[0] = 0 /\ q_cnt = 0
  <2>1. rl16[1] = 0
    BY <1>1, <1>8, FirstCount, SlotsAre
  <2>2. k0 = 0 /\ k1 = 0 /\ ZRLs = 0
    BY <1>8, <2>1 DEF ZRLs
  <2>3. g0 \o g1 \in Seq(Item)
    BY <1>2, ConcatProperties
  <2>4. Zrls(0) \o g0 = g0 /\ Zrls(0) \o g1 = g1 /\ Zrls(0) \o (g0 \o g1) = g0 \o g1
    BY <1>2, <1>4, <2>3, ConcatEmptySeq
  <2> QED
    BY <1>5, <2>2, <2>4
<1> QED
  BY <1>6, <1>7, <1>8

(* A run that needs a ZRL has left gaps to put it in.                      *)
LEMMA GapsAreThere ==
  ASSUME IInv, q_valid, ZRLs > 0
  PROVE  /\ None(out_valid0) /\ None(out_valid1) /\ None(out_valid2)
         /\ code0[0] = Zrl(q_component) /\ code0[1] = Zrl(q_component)
<1>1. zeros \in Nat /\ TypeOK /\ RunsAreZeros /\ At = q_cnt
  BY DEF IInv, Types, RegisterTypes, At
<1>2. ASSUME NEW n \in Nat, NEW r, NEW r16, IsZeros(n, r, r16), r16 > 0
      PROVE  n > 6
  <2>1. r16 = 1 \/ r16 = 2 \/ r16 = 3
    BY <1>2 DEF IsZeros
  <2> QED
    BY <1>2, <2>1, Constants DEF IsZeros
<1>3. q_cnt # 0 /\ zeros >= 6
  <2>1. CASE q[0] # 0
    <3>1. rl16_stored > 0
      BY <2>1, <1>1, SlotsAre DEF ZRLs
    <3>2. q_cnt # 0
      BY <3>1, <1>1, FirstCount
    <3> QED
      BY <3>1, <3>2, <1>1, <1>2, FirstCount
  <2>2. CASE q[0] = 0
    <3>1. Count0.rl16 > 0
      BY <2>2, <1>1, SlotsAre DEF ZRLs
    <3>2. First.zeros > 6 /\ q_cnt # 0
      BY <3>1, <1>1, <1>2, FirstCount
    <3>3. First.zeros = zeros + 1
      BY <2>2, <3>2 DEF First
    <3> QED
      BY <1>1, <3>2, <3>3
  <2> QED
    BY <2>1, <2>2
<1> QED
  BY <1>1, <1>3 DEF IInv, ZerosLeaveGaps

LEMMA Twice == ASSUME NEW x PROVE <<x>> \o <<x>> = <<x, x>>
<1>1. <<x, x>> = [i \in 1 .. 2 |-> x]
  OBVIOUS
<1>2. [i \in 1 .. 2 |-> x] = <<x>> \o <<x>>
  OBVIOUS
<1> QED
  BY <1>1, <1>2

(* One clock moves each stage into the next, or puts ZRLs between.         *)
LEMMA StagesMove ==
  ASSUME IInv, Clock
  PROVE  /\ output' = Held3 /\ Held3' = Held2
         /\ Held2' = IF Insert(1) THEN <<ZrlItem>> ELSE Held1
         /\ Held1' = IF Insert(2) THEN <<ZrlItem, ZrlItem>> ELSE Held0
         /\ Held0' = IF q_valid THEN One(rl_valid[0], Given(0)) \o One(rl_valid[1], Given(1)) ELSE <<>>
<1>1. zeros \in Nat /\ TypeOK /\ RunsAreZeros /\ Types
  BY DEF IInv, Types, RegisterTypes
<1>2. Pipeline
  BY DEF Clock
<1>3. output' = Held3
  BY <1>2 DEF Pipeline, Held3
<1>4. Held3' = Held2
  BY <1>2 DEF Pipeline, Held3, Held2, Held, Out, Slots
<1>5. Held2' = IF Insert(1) THEN <<ZrlItem>> ELSE Held1
  <2>1. CASE ~Insert(1)
    <3>1. out_valid2' = out_valid1 /\ \A i \in Slots : out_valid1[i] => code2'[i] = code1[i] /\ coeff2'[i] = coeff1[i]
      BY <1>2, <2>1 DEF Pipeline
    <3> QED
      BY <2>1, <3>1 DEF Held2, Held1, Held, Slots
  <2>2. CASE Insert(1)
    <3>1. q_valid /\ ZRLs > 0 /\ InsertOneData(1)
      <4>1. q_valid
        BY <2>2 DEF Insert
      <4> QED
        BY <1>1, <2>2, <4>1, NeedsAre
    <3>2. None(out_valid0) /\ None(out_valid1) /\ None(out_valid2) /\ code0[1] = Zrl(q_component)
      BY <3>1, GapsAreThere
    <3>3. out_valid2' = [out_valid2 EXCEPT ![1] = TRUE] /\ out_valid2 \in [Slots -> BOOLEAN]
      BY <1>1, <1>2, <2>2 DEF Pipeline, TypeOK
    <3>4. ~out_valid2'[0] /\ out_valid2'[1]
      BY <3>2, <3>3 DEF None, Slots
    <3>5. code2'[1] = Zrl(q_component) /\ coeff2'[1] = 0
      BY <1>2, <3>1, <3>2 DEF Pipeline, None, Slots
    <3> QED
      BY <2>2, <3>4, <3>5 DEF Held2, Held, ZrlItem
  <2> QED
    BY <2>1, <2>2
<1>6. Held1' = IF Insert(2) THEN <<ZrlItem, ZrlItem>> ELSE Held0
  <2>1. CASE ~Insert(2)
    <3>1. out_valid1' = out_valid0 /\ \A i \in Slots : out_valid0[i] => code1'[i] = code0[i] /\ coeff1'[i] = coeff0[i]
      BY <1>2, <2>1 DEF Pipeline
    <3> QED
      BY <2>1, <3>1 DEF Held1, Held0, Held, Slots
  <2>2. CASE Insert(2)
    <3>1. q_valid /\ ZRLs > 0 /\ InsertTwoData
      <4>1. q_valid
        BY <2>2 DEF Insert
      <4> QED
        BY <1>1, <2>2, <4>1, NeedsAre
    <3>2. None(out_valid0) /\ code0[0] = Zrl(q_component) /\ code0[1] = Zrl(q_component)
      BY <3>1, GapsAreThere
    <3>3. out_valid1'[0] /\ out_valid1'[1]
      BY <1>2, <2>2 DEF Pipeline, Pair, Slots
    <3>4. /\ code1'[0] = Zrl(q_component) /\ coeff1'[0] = 0
          /\ code1'[1] = Zrl(q_component) /\ coeff1'[1] = 0
      BY <1>2, <3>1, <3>2 DEF Pipeline, None, Slots
    <3>5. Held1' = <<ZrlItem>> \o <<ZrlItem>>
      BY <3>3, <3>4 DEF Held1, Held, ZrlItem
    <3> QED
      BY <2>2, <3>5, Twice
  <2> QED
    BY <2>1, <2>2
<1>7. Held0' = IF q_valid THEN One(rl_valid[0], Given(0)) \o One(rl_valid[1], Given(1)) ELSE <<>>
  <2>1. \A i \in Slots : /\ out_valid0'[i] <=> q_valid /\ rl_valid[i]
                         /\ code0'[i] = Symbol(i)
                         /\ q_valid /\ rl_valid[i] => coeff0'[i] = Coeff(i)
    BY <1>2 DEF Pipeline
  <2>2. CASE q_valid
    BY <2>1, <2>2 DEF Held0, Held, One, Given, Slots
  <2>3. CASE ~q_valid
    BY <2>1, <2>3 DEF Held0, Held, Slots
  <2> QED
    BY <2>2, <2>3
<1> QED
  BY <1>3, <1>4, <1>5, <1>6, <1>7

LEMMA HeldType ==
  ASSUME Types
  PROVE  /\ Held0 \in Seq(Item) /\ Held1 \in Seq(Item) /\ Held2 \in Seq(Item) /\ Held3 \in Seq(Item)
         /\ output \in Seq(Item)
<1>1. ASSUME NEW valid, NEW codes \in [Slots -> CodeSet], NEW coeff \in [Slots -> Nat]
      PROVE  Held(valid, codes, coeff) \in Seq(Item)
  <2>1. [code |-> codes[0], coeff |-> coeff[0]] \in Item /\ [code |-> codes[1], coeff |-> coeff[1]] \in Item
    BY DEF Item, Slots
  <2> QED
    BY <2>1 DEF Held
<1>2. Held3 \in Seq(Item)
  <2>1. codecoeff3[0] \in Item /\ codecoeff3[1] \in Item
    BY DEF Types, RegisterTypes, Slots
  <2> QED
    BY <2>1 DEF Held3, Out
<1> QED
  BY <1>1, <1>2 DEF Held0, Held1, Held2, Types, RegisterTypes

(* Sequences of items, and what the proofs use of putting them together.   *)
Items      == Seq(Item)
Join(a, b) == a \o b

LEMMA JoinIs ==
  /\ <<>> \in Items
  /\ \A a, b \in Items : Join(a, b) \in Items
  /\ \A a \in Items : Join(a, <<>>) = a /\ Join(<<>>, a) = a
  /\ \A a, b, c \in Items : Join(Join(a, b), c) = Join(a, Join(b, c))
<1>1. ASSUME NEW a \in Items, NEW b \in Items, NEW c \in Items
      PROVE  Join(Join(a, b), c) = Join(a, Join(b, c))
  BY ConcatAssociative DEF Items, Join
<1>2. ASSUME NEW a \in Items, NEW b \in Items
      PROVE  Join(a, b) \in Items /\ Join(a, <<>>) = a /\ Join(<<>>, a) = a
  BY ConcatProperties, ConcatEmptySeq DEF Items, Join
<1> QED
  BY <1>1, <1>2 DEF Items

LEMMA Nest ==
  ASSUME NEW a \in Items, NEW b \in Items, NEW c \in Items, NEW d \in Items, NEW e \in Items
  PROVE  Join(Join(a, Join(b, Join(c, d))), e) = Join(a, Join(b, Join(c, Join(d, e))))
<1>1. Join(c, d) \in Items /\ Join(b, Join(c, d)) \in Items
  BY JoinIs
<1> QED
  BY <1>1, JoinIs

LEMMA LeftIs ==
  ASSUME Types, NothingIsLost
  PROVE  Left = Held3 \o (Held2 \o (Held1 \o Held0)) /\ Left \in Seq(Item)
<1> DEFINE rest == Held3 \o (Held2 \o (Held1 \o Held0))
<1>1. rest \in Seq(Item)
  BY HeldType, ConcatProperties
<1>2. expected = output \o rest /\ output \in Seq(Item)
  BY HeldType DEF NothingIsLost
<1> HIDE DEF rest
<1>3. Len(expected) = Len(output) + Len(rest)
  BY <1>1, <1>2, ConcatProperties
<1>4. CASE rest = <<>>
  <2>1. Left = <<>>
    BY <1>1, <1>2, <1>3, <1>4, SubSeqEmpty, LenProperties DEF Left
  <2> QED
    BY <1>1, <1>4, <2>1 DEF rest
<1>5. CASE rest # <<>>
  <2>1. Len(rest) \in Nat \ {0} /\ Len(output) \in Nat
    BY <1>1, <1>2, <1>5, EmptySeq, LenProperties
  <2>2. Left = SubSeq(rest, 1, Len(rest))
    <3> DEFINE m == Len(output) + 1
               n == Len(output) + Len(rest)
    <3>1. m \in Len(output) + 1 .. Len(output) + Len(rest) /\ n \in Len(output) + 1 .. Len(output) + Len(rest)
      BY <2>1
    <3>2. m - Len(output) = 1 /\ n - Len(output) = Len(rest)
      BY <2>1
    <3>3. SubSeq(output \o rest, m, n) = SubSeq(rest, m - Len(output), n - Len(output))
      BY ONLY <1>1, <1>2, <3>1, SubSeqOfConcat2
    <3> QED
      BY <1>2, <1>3, <3>2, <3>3 DEF Left
  <2> QED
    BY <1>1, <2>2, SubSeqFull DEF rest
<1> QED
  BY <1>4, <1>5

LEMMA CodesType ==
  ASSUME IInv, q_valid
  PROVE  First.codes \in Seq(Item) /\ Second.codes \in Seq(Item)
<1>1. Types /\ TypeOK /\ RunsAreZeros /\ SameDC /\ zeros \in Nat
  BY DEF IInv, Types, RegisterTypes
<1>2. rl16[0] \in 0 .. 3 /\ rl16[1] \in 0 .. 3 /\ 0 \in 0 .. 3
  BY <1>1, FirstCount, SlotsAre, PortType DEF IsZeros
<1>3. \A k \in 0 .. 3 : Zrls(k) \in Seq(Item)
  BY <1>1, GivenType, ZrlsType DEF Slots
<1>4. One(rl_valid[0], Given(0)) \in Seq(Item) /\ One(rl_valid[1], Given(1)) \in Seq(Item)
  BY <1>1, GivenType DEF One, Slots
<1>5. \A k \in 0 .. 3 : \A i \in Slots : Zrls(k) \o One(rl_valid[i], Given(i)) \in Seq(Item)
  BY ONLY <1>3, <1>4, ConcatProperties DEF Slots
<1>6. (IF q[0] # 0 THEN rl16[0] ELSE 0) \in 0 .. 3 /\ (IF q[1] # 0 THEN rl16[1] ELSE 0) \in 0 .. 3
  BY ONLY <1>2
<1> QED
  BY <1>1, <1>5, <1>6, FirstCodes, SecondCodes DEF Slots

LEMMA NothingIsLostNext == IInv /\ Clock => NothingIsLost'
<1> SUFFICES ASSUME IInv, Clock PROVE NothingIsLost'
  OBVIOUS
<1> DEFINE g == One(rl_valid[0], Given(0)) \o One(rl_valid[1], Given(1))
<1>1. /\ Types /\ RunsAreZeros /\ SameDC /\ NothingIsLost /\ zeros \in Nat /\ TypeOK
  BY DEF IInv, Types, RegisterTypes
<1>2. /\ Held0 \in Seq(Item) /\ Held1 \in Seq(Item) /\ Held2 \in Seq(Item) /\ Held3 \in Seq(Item)
  BY <1>1, HeldType
<1>3. Left = Held3 \o (Held2 \o (Held1 \o Held0)) /\ Left \in Seq(Item)
  BY <1>1, LeftIs
<1>4. Expected
  BY DEF Clock
<1>5. ASSUME output' = Held3, Held3' = Held2,
             expected' = Held3 \o (Held2 \o (Held2' \o (Held1' \o Held0')))
      PROVE  NothingIsLost'
  BY <1>5 DEF NothingIsLost
<1>6. CASE ~q_valid
  <2>1. expected' = Held3 \o (Held2 \o (Held1 \o Held0))
    BY <1>3, <1>4, <1>6 DEF Expected
  <2>2. ~Insert(1) /\ ~Insert(2)
    BY <1>6 DEF Insert
  <2>3. Held2' = Held1 /\ Held1' = Held0 /\ Held0' = <<>>
    BY <1>6, <2>2, StagesMove
  <2>4. Held0 \o <<>> = Held0
    BY <1>2, ConcatEmptySeq
  <2> QED
    BY <1>5, <2>1, <2>3, <2>4, StagesMove
<1>7. CASE q_valid
  <2>1. expected' = (Left \o First.codes) \o Second.codes
    BY <1>4, <1>7 DEF Expected
  <2>2. ZRLs \in 0 .. 3 /\ (Insert(2) <=> ZRLs >= 2) /\ (Insert(1) <=> ZRLs % 2 = 1)
    BY <1>1, <1>7, NeedsAre
  <2>3. ZrlItem \in Item /\ g \in Seq(Item)
    <3>1. ZrlItem \in Item /\ Given(0) \in Item /\ Given(1) \in Item
      BY <1>1, GivenType DEF Slots
    <3> QED
      BY <3>1 DEF One
  <2>4. Zrls(ZRLs) \in Seq(Item)
    BY <2>2, <2>3, ZrlsType
  <2>5. First.codes \in Seq(Item) /\ Second.codes \in Seq(Item)
    BY <1>7, CodesType
  <2>6. expected' = Left \o (Zrls(ZRLs) \o g)
    <3>1. (Left \o First.codes) \o Second.codes = Left \o (First.codes \o Second.codes)
      <4>a. Left \in Items /\ First.codes \in Items /\ Second.codes \in Items
        BY <1>3, <2>5 DEF Items
      <4>1. Join(Join(Left, First.codes), Second.codes) = Join(Left, Join(First.codes, Second.codes))
        BY ONLY <4>a, JoinIs
      <4> QED
        BY <4>1 DEF Join
    <3>2. First.codes \o Second.codes = Zrls(ZRLs) \o g
      BY <1>1, <1>7, PairCodes
    <3> QED
      BY <2>1, <3>1, <3>2
  <2> HIDE DEF g
  <2>7. Held0' = g
    BY <1>7, StagesMove DEF g
  <2>8. CASE ZRLs = 0
    <3>1. Held2' = Held1 /\ Held1' = Held0
      BY <2>2, <2>8, StagesMove
    <3>2. Zrls(ZRLs) \o g = g
      BY <2>3, <2>8, ZrlsType, ConcatEmptySeq, SMTT(30)
    <3>3. expected' = Held3 \o (Held2 \o (Held1 \o (Held0 \o g)))
      <4>1. (Held3 \o (Held2 \o (Held1 \o Held0))) \o g = Held3 \o (Held2 \o (Held1 \o (Held0 \o g)))
        <5>1. Join(Join(Held3, Join(Held2, Join(Held1, Held0))), g) =
                Join(Held3, Join(Held2, Join(Held1, Join(Held0, g))))
          BY <1>2, <2>3, Nest DEF Items
        <5> QED
          BY <5>1 DEF Join
      <4> QED
        BY <1>3, <2>6, <3>2, <4>1
    <3> QED
      BY <1>5, <2>7, <3>1, <3>3, StagesMove
  <2>9. CASE ZRLs > 0
    <3>1. None(out_valid0) /\ None(out_valid1) /\ None(out_valid2)
      BY <1>7, <2>9, GapsAreThere
    <3>2. Held0 = <<>> /\ Held1 = <<>> /\ Held2 = <<>>
      BY <3>1 DEF None, Held0, Held1, Held2, Held
    <3>3. Left = Held3
      BY <1>2, <1>3, <3>2, ConcatEmptySeq
    <3>4. Held2' = (IF ZRLs % 2 = 1 THEN <<ZrlItem>> ELSE <<>>) /\ Held1' = (IF ZRLs >= 2 THEN <<ZrlItem, ZrlItem>> ELSE <<>>)
      BY <2>2, <3>2, StagesMove
    <3>5. Zrls(ZRLs) \o g = Held2' \o (Held1' \o g)
      <4>1. Held2' \in Seq(Item) /\ Held1' \in Seq(Item)
        BY <2>3, <3>4
      <4>2. Zrls(ZRLs) = Held2' \o Held1'
        BY <3>4 DEF Zrls
      <4> QED
        BY <2>3, <4>1, <4>2, ConcatAssociative
    <3>6. Held2 \o (Held2' \o (Held1' \o g)) = Held2' \o (Held1' \o g)
      <4>1. Held2' \o (Held1' \o g) \in Seq(Item)
        BY <2>3, <2>4, <3>5, ConcatProperties
      <4> QED
        BY <3>2, <4>1, ConcatEmptySeq
    <3>7. expected' = Held3 \o (Held2 \o (Held2' \o (Held1' \o g)))
      BY <2>6, <3>3, <3>5, <3>6
    <3> QED
      BY <1>5, <2>7, <3>7, StagesMove
  <2> QED
    BY <2>2, <2>8, <2>9
<1> QED
  BY <1>6, <1>7

-----------------------------------------------------------------------------
(* The next pair is the one after that on the port.                        *)
LEMMA PortMoves ==
  ASSUME TypeOK, Clock
  PROVE  /\ At' = After
         /\ q_valid' \in BOOLEAN /\ q_last_mcu' \in BOOLEAN
         /\ q' \in [Slots -> {0} \cup Sizes] /\ q_cnt' \in 0 .. LastCnt /\ q_component' \in Components
         /\ After # 0 => q_component' = q_component
         /\ ~q_valid' => UNCHANGED <<q, q_cnt, q_component, q_last_mcu>>
         /\ q_last_mcu /\ q_cnt = LastCnt => ~q_valid'
<1>1. q_cnt \in 0 .. LastCnt /\ q_component \in Components /\ q_last_mcu \in BOOLEAN
      /\ q \in [Slots -> {0} \cup Sizes]
  BY DEF TypeOK
<1>2. CASE Bubble
  BY <1>1, <1>2 DEF Bubble, At, After
<1>3. CASE NextPair
  <2>1. ~(q_last_mcu /\ q_cnt = LastCnt) /\ q_valid' = TRUE /\ q' \in [Slots -> {0} \cup Sizes]
        /\ q_cnt' = IF q_cnt = LastCnt THEN 0 ELSE q_cnt + 1
    BY <1>3 DEF NextPair
  <2>2. q_cnt' \in 0 .. LastCnt
    BY <1>1, <2>1, Constants
  <2>3. q_cnt # LastCnt => UNCHANGED <<q_component, q_last_mcu>>
    BY <1>3 DEF NextPair
  <2>4. q_component' \in Components /\ q_last_mcu' \in BOOLEAN
    <3>1. CASE q_cnt = LastCnt
      BY <1>3, <3>1 DEF NextPair
    <3> QED
      BY <1>1, <2>3, <3>1
  <2>5. At' = After
    BY <2>1 DEF At, After
  <2>6. After # 0 => q_cnt # LastCnt
    BY DEF After
  <2> QED
    BY <2>1, <2>2, <2>3, <2>4, <2>5, <2>6
<1> QED
  BY <1>2, <1>3 DEF Clock

LEMMA MarksMove ==
  ASSUME LastMcu
  PROVE  /\ last_mcu' = [n \in 0 .. 3 |-> last_mcu'[n]]
         /\ last_mcu'[0] = IF q_valid THEN q_last_mcu /\ q_cnt = LastCnt ELSE last_mcu[0]
         /\ last_mcu'[1] = IF SomeSlot(out_valid0) THEN last_mcu[0] ELSE last_mcu[1]
         /\ last_mcu'[2] = IF SomeSlot(out_valid1) THEN last_mcu[1] ELSE last_mcu[2]
         /\ last_mcu'[3] = IF SomeSlot(out_valid2) THEN last_mcu[2] ELSE last_mcu[3]
BY DEF LastMcu

LEMMA TypesNext ==
  ASSUME IInv, Clock
  PROVE  Types'
<1>1. Types /\ TypeOK /\ RegisterTypes /\ RunsAreZeros /\ SameDC /\ NothingIsLost /\ zeros \in Nat
  BY DEF IInv, Types, RegisterTypes
<1>2. Pipeline /\ Runs /\ LastMcu /\ Expected
  BY DEF Clock
<1>3. rl_valid[0] \in BOOLEAN /\ rl_valid[1] \in BOOLEAN
      /\ Count1.rl \in 0 .. Run - 1 /\ Count1.rl16 \in 0 .. 3
  <2>1. /\ Count0.valid \in BOOLEAN /\ Count0.rl \in 0 .. Run - 1 /\ Count0.rl16 \in 0 .. 3
    BY <1>1, PortType, CountType DEF Count0, Slots
  <2>2. /\ Count1.valid \in BOOLEAN /\ Count1.rl \in 0 .. Run - 1 /\ Count1.rl16 \in 0 .. 3
    BY <1>1, <2>1, CountType DEF Count1, Slots
  <2> QED
    BY <1>1, <2>1, <2>2, SlotsAre
<1>4. TypeOK'
  <2>1. rl_stored' \in 0 .. Run - 1 /\ rl16_stored' \in 0 .. 3
    BY <1>1, <1>2, <1>3 DEF Runs, TypeOK
  <2>2. /\ out_valid0 \in [Slots -> BOOLEAN] /\ out_valid1 \in [Slots -> BOOLEAN]
        /\ out_valid2 \in [Slots -> BOOLEAN] /\ out_valid3 \in [Slots -> BOOLEAN] /\ q_valid \in BOOLEAN
    BY <1>1 DEF TypeOK
  <2>3. out_valid0' \in [Slots -> BOOLEAN]
    BY <1>2, <1>3, <2>2 DEF Pipeline, Slots
  <2>4. out_valid1' \in [Slots -> BOOLEAN]
    BY <1>2, <2>2 DEF Pipeline, Pair
  <2>5. out_valid2' \in [Slots -> BOOLEAN] /\ out_valid3' \in [Slots -> BOOLEAN]
    BY <1>2, <2>2 DEF Pipeline
  <2>6. out_tlast' \in BOOLEAN
    BY <1>2 DEF Pipeline
  <2> QED
    BY <1>1, <2>1, <2>3, <2>4, <2>5, <2>6, PortMoves DEF TypeOK
<1>5. previousDC' \in [Components -> Nat] /\ dc' \in [Components -> Nat] /\ zeros' \in Nat
  <2>1. q[0] \in Nat /\ q_component \in Components
    BY <1>1, PortType
  <2>2. previousDC' \in [Components -> Nat] /\ dc' \in [Components -> Nat]
    <3>1. previousDC \in [Components -> Nat] /\ dc \in [Components -> Nat]
      BY <1>1 DEF RegisterTypes
    <3>2. /\ [previousDC EXCEPT ![q_component] = q[0]] \in [Components -> Nat]
          /\ [dc EXCEPT ![q_component] = q[0]] \in [Components -> Nat]
          /\ [c \in Components |-> 0] \in [Components -> Nat]
      BY <2>1, <3>1
    <3>3. previousDC' \in {previousDC, [previousDC EXCEPT ![q_component] = q[0]], [c \in Components |-> 0]}
      BY <1>2, Zenon DEF Runs
    <3>4. dc' \in {dc, [dc EXCEPT ![q_component] = q[0]]}
      BY <1>2, Zenon DEF Expected
    <3> QED
      BY <3>1, <3>2, <3>3, <3>4, Zenon
  <2>3. zeros' \in Nat
    BY <1>1, <1>2, SecondCount DEF Expected
  <2> QED
    BY <2>2, <2>3
<1>6. /\ code0' \in [Slots -> CodeSet] /\ code1' \in [Slots -> CodeSet] /\ code2' \in [Slots -> CodeSet]
      /\ coeff0' \in [Slots -> Nat] /\ coeff1' \in [Slots -> Nat] /\ coeff2' \in [Slots -> Nat]
  <2>1. \A i \in Slots : Symbol(i) \in CodeSet /\ Coeff(i) \in Nat
    BY <1>1, GivenType
  <2> QED
    BY <1>1, <1>2, <2>1 DEF Pipeline, RegisterTypes
<1>7. codecoeff3' \in [Slots -> Item]
  <2>1. \A i \in Slots : [code |-> code2[i], coeff |-> coeff2[i]] \in Item
    BY <1>1 DEF RegisterTypes, Item
  <2> QED
    BY <1>1, <1>2, <2>1 DEF Pipeline, RegisterTypes
<1>8. last_mcu' \in [0 .. 3 -> BOOLEAN]
  <2>1. q_last_mcu \in BOOLEAN /\ last_mcu \in [0 .. 3 -> BOOLEAN]
    BY <1>1 DEF TypeOK, RegisterTypes
  <2> QED
    <3>1. /\ last_mcu[0] \in BOOLEAN /\ last_mcu[1] \in BOOLEAN
          /\ last_mcu[2] \in BOOLEAN /\ last_mcu[3] \in BOOLEAN
      BY <2>1
    <3>2. /\ last_mcu' = [n \in 0 .. 3 |-> last_mcu'[n]]
          /\ last_mcu'[0] = IF q_valid THEN q_last_mcu /\ q_cnt = LastCnt ELSE last_mcu[0]
          /\ last_mcu'[1] = IF SomeSlot(out_valid0) THEN last_mcu[0] ELSE last_mcu[1]
          /\ last_mcu'[2] = IF SomeSlot(out_valid1) THEN last_mcu[1] ELSE last_mcu[2]
          /\ last_mcu'[3] = IF SomeSlot(out_valid2) THEN last_mcu[2] ELSE last_mcu[3]
      BY MarksMove DEF Clock
    <3>3. last_mcu'[0] \in BOOLEAN
      BY <3>1, <3>2, Zenon
    <3>4. last_mcu'[1] \in BOOLEAN
      BY <3>1, <3>2, Zenon
    <3>5. last_mcu'[2] \in BOOLEAN
      BY <3>1, <3>2, Zenon
    <3>6. last_mcu'[3] \in BOOLEAN
      BY <3>1, <3>2, Zenon
    <3>7. \A n \in 0 .. 3 : n = 0 \/ n = 1 \/ n = 2 \/ n = 3
      OBVIOUS
    <3>8. \A n \in 0 .. 3 : last_mcu'[n] \in BOOLEAN
      BY <3>3, <3>4, <3>5, <3>6, <3>7, Zenon
    <3> QED
      BY <3>2, <3>8, Zenon
<1>9. output' \in Seq(Item) /\ expected' \in Seq(Item)
  <2>1. Held3 \in Seq(Item) /\ Left \in Seq(Item)
    BY <1>1, HeldType, LeftIs
  <2>2. output' = Held3
    BY StagesMove
  <2>3. q_valid => First.codes \in Seq(Item) /\ Second.codes \in Seq(Item)
    BY CodesType
  <2> QED
    <3>1. CASE q_valid
      <4>1. expected' = (Left \o First.codes) \o Second.codes
        BY <1>2, <3>1 DEF Expected
      <4>2. Left \o First.codes \in Seq(Item)
        BY <2>1, <2>3, <3>1, ConcatProperties
      <4> QED
        BY <2>1, <2>2, <2>3, <3>1, <4>1, <4>2, ConcatProperties
    <3>2. CASE ~q_valid
      BY <1>2, <2>1, <2>2, <3>2 DEF Expected
    <3> QED
      BY <3>1, <3>2
<1> QED
  BY <1>4, <1>5, <1>6, <1>7, <1>8, <1>9 DEF Types, RegisterTypes

LEMMA RunsNext ==
  ASSUME IInv, Clock
  PROVE  RunsAreZeros'
<1>1. TypeOK /\ RunsAreZeros /\ zeros \in Nat /\ q_cnt \in 0 .. LastCnt
  BY PortType DEF IInv, Types, RegisterTypes
<1>2. Runs /\ Expected /\ At' = After
  BY <1>1, PortMoves DEF Clock
<1>3. CASE ~q_valid
  BY <1>1, <1>2, <1>3 DEF Runs, Expected, RunsAreZeros, At, IsZeros
<1>4. CASE q_valid
  <2>1. rl_stored' = Count1.rl /\ rl16_stored' = Count1.rl16 /\ zeros' = Second.zeros
    BY <1>2, <1>4 DEF Runs, Expected
  <2>2. CASE q_cnt = LastCnt
    BY <1>1, <1>2, <1>4, <2>1, <2>2, SecondCount DEF RunsAreZeros, After
  <2>3. CASE q_cnt # LastCnt
    <3>1. IsZeros(Second.zeros, Count1.rl, Count1.rl16) /\ Second.zeros < 2 * (q_cnt + 1)
      BY <1>1, <1>4, <2>3, SecondCount
    <3>2. After = q_cnt + 1
      BY <2>3 DEF After
    <3> QED
      BY <1>1, <1>2, <2>1, <3>1, <3>2 DEF RunsAreZeros, IsZeros
  <2> QED
    BY <2>2, <2>3
<1> QED
  BY <1>3, <1>4

LEMMA GapsNext ==
  ASSUME IInv, Clock
  PROVE  ZerosLeaveGaps'
<1>1. TypeOK /\ RunsAreZeros /\ zeros \in Nat /\ q_cnt \in 0 .. LastCnt /\ ZerosLeaveGaps
  BY PortType DEF IInv, Types, RegisterTypes
<1>2. Pipeline /\ Expected /\ At' = After
  BY <1>1, PortMoves DEF Clock
<1>0. zeros' \in Nat
  <2>1. q_valid => Second.zeros \in Nat
    BY <1>1, SecondCount
  <2> QED
    BY <1>1, <1>2, <2>1 DEF Expected
<1> SUFFICES ASSUME After # 0, zeros' >= 2
             PROVE  /\ None(out_valid0')
                    /\ code0'[0] = Zrl(q_component') /\ code0'[1] = Zrl(q_component')
                    /\ ~q_valid' => q'[0] = 0 /\ q'[1] = 0
                    /\ zeros' >= 4 => None(out_valid1')
                    /\ zeros' >= 6 => None(out_valid2')
  BY <1>0, <1>2 DEF ZerosLeaveGaps
<1>3. q_cnt # LastCnt /\ q_component' = q_component
  BY <1>1, PortMoves DEF After
(* The pair on the port, new or old, is one of zeros inside of a block.    *)
<1>4. /\ q[0] = 0 /\ q[1] = 0 /\ q_cnt # 0
      /\ IF q_valid THEN zeros' = zeros + 2 ELSE zeros' = zeros
  <2>1. CASE q_valid
    <3>1. zeros' = Second.zeros
      BY <1>2, <2>1 DEF Expected
    <3>2. q[1] = 0 /\ zeros' = First.zeros + 1
      BY <3>1 DEF Second
    <3>3. q_cnt # 0 /\ q[0] = 0
      BY <1>1, <2>1, <3>2, FirstCount
    <3>4. First.zeros = zeros + 1
      BY <3>3 DEF First
    <3> QED
      BY <1>1, <2>1, <3>2, <3>3, <3>4
  <2>2. CASE ~q_valid
    <3>1. zeros' = zeros /\ At = After
      BY <1>2, <2>2 DEF Expected, At
    <3>2. zeros < 2 * (q_cnt + 1)
      BY <1>1, <1>3, <3>1 DEF RunsAreZeros, After
    <3> QED
      BY <1>1, <2>2, <3>1, <3>2 DEF ZerosLeaveGaps
  <2> QED
    BY <2>1, <2>2
<1>5. ~rl_valid[0] /\ ~rl_valid[1]
  BY <1>1, <1>3, <1>4, SlotsAre DEF Count0, Count1, Count
<1>6. Symbol(0) = Zrl(q_component) /\ Symbol(1) = Zrl(q_component)
  BY <1>5 DEF Symbol
<1>7. None(out_valid0') /\ code0'[0] = Zrl(q_component) /\ code0'[1] = Zrl(q_component)
  BY <1>2, <1>5, <1>6 DEF Pipeline, None, Slots
<1>8. ~q_valid' => q'[0] = 0 /\ q'[1] = 0
  BY <1>1, <1>4, PortMoves
<1>9. ~Insert(1) /\ ~Insert(2)
  BY <1>4 DEF Insert, Needs, Slots
<1>10. out_valid1' = out_valid0 /\ out_valid2' = out_valid1
  BY <1>2, <1>9 DEF Pipeline
<1>11. ~q_valid => None(out_valid0) /\ (zeros >= 4 => None(out_valid1))
  BY <1>1, <1>4 DEF ZerosLeaveGaps, At
<1>12. q_valid => (zeros >= 2 => None(out_valid0)) /\ (zeros >= 4 => None(out_valid1))
  BY <1>1, <1>4 DEF ZerosLeaveGaps, At
<1>13. (zeros' >= 4 => None(out_valid1')) /\ (zeros' >= 6 => None(out_valid2'))
  BY <1>1, <1>4, <1>10, <1>11, <1>12
<1> QED
  BY <1>3, <1>7, <1>8, <1>13

LEMMA MarkNext ==
  ASSUME IInv, Clock
  PROVE  MarkIsLast'
<1>1. TypeOK /\ MarkIsLast /\ q_valid \in BOOLEAN /\ q_last_mcu \in BOOLEAN
  BY DEF IInv, Types, TypeOK
<1>2. Pipeline /\ LastMcu
  BY DEF Clock
<1>3. \A v : SomeSlot(v) <=> ~None(v)
  BY DEF SomeSlot, None, Slots
<1>4. /\ None(out_valid3') <=> None(out_valid2)
      /\ ~Insert(1) => (None(out_valid2') <=> None(out_valid1))
      /\ ~Insert(2) => (None(out_valid1') <=> None(out_valid0))
      /\ ~q_valid => None(out_valid0')
  BY <1>2 DEF Pipeline, None, Slots
<1>5. ~q_valid => ~Insert(1) /\ ~Insert(2)
  BY DEF Insert
<1>6. /\ last_mcu'[0] = IF q_valid THEN q_last_mcu /\ q_cnt = LastCnt ELSE last_mcu[0]
      /\ last_mcu'[1] = IF SomeSlot(out_valid0) THEN last_mcu[0] ELSE last_mcu[1]
      /\ last_mcu'[2] = IF SomeSlot(out_valid1) THEN last_mcu[1] ELSE last_mcu[2]
      /\ last_mcu'[3] = IF SomeSlot(out_valid2) THEN last_mcu[2] ELSE last_mcu[3]
  BY <1>2, MarksMove
<1>7. out_tlast' <=> SomeSlot(out_valid3) /\ last_mcu[3]
  BY <1>2 DEF Pipeline
<1>8. q_last_mcu /\ q_cnt = LastCnt => ~q_valid' /\ q_last_mcu' = q_last_mcu /\ q_cnt' = q_cnt
  BY <1>1, PortMoves
(* While pairs come there is no mark.                                      *)
<1>9. CASE q_valid
  <2>1. ~IsLast
    BY <1>9 DEF IsLast
  <2>2. ~last_mcu[0] /\ ~last_mcu[1] /\ ~last_mcu[2] /\ ~last_mcu[3] /\ ~out_tlast
    BY <1>1, <2>1 DEF MarkIsLast
  <2>3. ~last_mcu'[1] /\ ~last_mcu'[2] /\ ~last_mcu'[3] /\ ~out_tlast'
    BY <1>6, <1>7, <2>2
  <2>4. last_mcu'[0] => IsLast'
    <3> SUFFICES ASSUME last_mcu'[0] PROVE IsLast'
      OBVIOUS
    <3>1. q_last_mcu /\ q_cnt = LastCnt
      BY <1>6, <1>9, Zenon
    <3>2. ~q_valid' /\ q_last_mcu' /\ q_cnt' = LastCnt
      BY <1>8, <3>1
    <3> QED
      BY <3>2 DEF IsLast
  <2> QED
    BY <2>3, <2>4 DEF MarkIsLast
<1>10. CASE ~q_valid
  <2>1. IsLast => IsLast'
    BY <1>8 DEF IsLast
  <2>2. (\E n \in 0 .. 3 : last_mcu'[n]) => \E n \in 0 .. 3 : last_mcu[n]
    BY <1>6, <1>10
  <2>3. (\E n \in 0 .. 3 : last_mcu'[n]) => IsLast'
    BY <1>1, <2>1, <2>2 DEF MarkIsLast
  <2>4. /\ None(out_valid3') <=> None(out_valid2)
        /\ None(out_valid2') <=> None(out_valid1)
        /\ None(out_valid1') <=> None(out_valid0)
        /\ None(out_valid0')
    BY <1>4, <1>5, <1>10
  <2>5. SomeSlot(out_valid1') /\ last_mcu'[1] => None(out_valid0')
    BY <2>4
  <2>6. SomeSlot(out_valid2') /\ last_mcu'[2] => None(out_valid0') /\ None(out_valid1')
    BY <1>1, <1>3, <1>6, <2>4 DEF MarkIsLast
  <2>7. SomeSlot(out_valid3') /\ last_mcu'[3] => None(out_valid0') /\ None(out_valid1') /\ None(out_valid2')
    BY <1>1, <1>3, <1>6, <2>4 DEF MarkIsLast
  <2>8. out_tlast' => /\ IsLast' /\ None(out_valid0') /\ None(out_valid1') /\ None(out_valid2')
                      /\ None(out_valid3')
    BY <1>1, <1>7, <2>1, <2>4 DEF MarkIsLast
  <2> QED
    BY <2>3, <2>5, <2>6, <2>7, <2>8 DEF MarkIsLast
<1> QED
  BY <1>1, <1>9, <1>10

LEMMA SameDCNext ==
  ASSUME IInv, Clock
  PROVE  SameDC'
<1>1. TypeOK /\ SameDC /\ Runs /\ Expected
  BY DEF IInv, Types, Clock
<1>2. q_last_mcu /\ q_cnt = LastCnt => ~q_valid' /\ q_last_mcu' = q_last_mcu /\ q_cnt' = q_cnt
  BY <1>1, PortMoves
<1>3. CASE q_last_mcu /\ q_cnt = LastCnt
  BY <1>2, <1>3 DEF SameDC, IsLast
<1>4. CASE ~(q_last_mcu /\ q_cnt = LastCnt)
  <2>1. previousDC = dc
    BY <1>1, <1>4 DEF SameDC, IsLast
  <2>2. previousDC' = dc'
    <3>1. CASE ~q_valid
      BY <1>1, <2>1, <3>1, Zenon DEF Runs, Expected
    <3>2. CASE q_valid /\ q_cnt = 0
      BY <1>1, <1>4, <2>1, <3>2, Zenon DEF Runs, Expected
    <3>3. CASE q_valid /\ q_cnt # 0
      BY <1>1, <1>4, <2>1, <3>3, Zenon DEF Runs, Expected
    <3> QED
      BY <3>1, <3>2, <3>3
  <2> QED
    BY <2>2 DEF SameDC
<1> QED
  BY <1>3, <1>4

-----------------------------------------------------------------------------
LEMMA InitHolds == Init => IInv
<1> SUFFICES ASSUME Init PROVE IInv
  OBVIOUS
<1> USE DEF Init
<1>1. NoCode \in CodeSet
  BY FixedCodes
<1>2. TypeOK
  <2>1. Run - 1 >= 0 /\ Run \in Nat /\ 0 \in Components /\ LastCnt \in 0 .. LastCnt
    BY Constants
  <2>2. q \in [Slots -> {0} \cup Sizes] /\ out_valid0 \in [Slots -> BOOLEAN]
    BY DEF Pair
  <2>3. {out_valid0, out_valid1, out_valid2, out_valid3} \subseteq [Slots -> BOOLEAN]
    BY <2>2, Zenon
  <2>4. {q_valid, q_last_mcu, out_tlast} \subseteq BOOLEAN
    OBVIOUS
  <2>5. q_cnt \in 0 .. LastCnt /\ q_component \in Components
    BY <2>1
  <2>6. rl_stored \in 0 .. Run - 1 /\ rl16_stored \in 0 .. 3
    BY <2>1
  <2> HIDE DEF Init
  <2> QED
    BY <2>2, <2>3, <2>4, <2>5, <2>6 DEF TypeOK
<1>3. RegisterTypes
  <2>1. code0 \in [Slots -> CodeSet] /\ coeff0 \in [Slots -> Nat]
    BY <1>1 DEF Pair
  <2>2. codecoeff3 \in [Slots -> Item]
    BY <1>1 DEF Item
  <2>3. <<>> \in Seq(Item)
    OBVIOUS
  <2> QED
    BY <2>1, <2>2, <2>3 DEF RegisterTypes
<1>4. ~out_valid0[0] /\ ~out_valid0[1]
  BY DEF Pair, Slots
<1>5. None(out_valid0) /\ None(out_valid1) /\ None(out_valid2) /\ None(out_valid3)
  BY <1>4 DEF None
<1>6. At = 0
  BY DEF At, After
<1>7. RunsAreZeros /\ ZerosLeaveGaps /\ SameDC
  BY <1>6 DEF RunsAreZeros, ZerosLeaveGaps, SameDC
<1>8. NothingIsLost
  <2>1. Held0 = <<>> /\ Held1 = <<>> /\ Held2 = <<>> /\ Held3 = <<>>
    BY <1>5 DEF None, Held0, Held1, Held2, Held3, Held, Out
  <2> QED
    BY <2>1 DEF NothingIsLost
<1>9. MarkIsLast
  BY <1>5 DEF MarkIsLast
<1> QED
  BY <1>2, <1>3, <1>7, <1>8, <1>9 DEF IInv, Types

LEMMA StepHolds == IInv /\ [Next]_vars => IInv'
<1> SUFFICES ASSUME IInv, [Next]_vars PROVE IInv'
  OBVIOUS
<1>1. CASE Clock
  BY <1>1, TypesNext, RunsNext, GapsNext, NothingIsLostNext, MarkNext, SameDCNext DEF IInv
<1>2. CASE UNCHANGED vars
  BY <1>2 DEF vars, port, bound, model, IInv, Types, TypeOK, RegisterTypes, RunsAreZeros, At, After,
     ZerosLeaveGaps, NothingIsLost, Held0, Held1, Held2, Held3, Out, MarkIsLast, IsLast, SameDC
<1> QED
  BY <1>1, <1>2 DEF Next

LEMMA Invariance == Spec => []IInv
BY InitHolds, StepHolds, PTL DEF Spec

(* Run lengths, counters and valid bits keep their types: no run is longer *)
(* than the two bits that count its full parts can say.                    *)
THEOREM TypeCorrect == Spec => []TypeOK
<1>1. IInv => TypeOK
  BY DEF IInv, Types
<1> QED
  BY <1>1, Invariance, PTL

(* The codes that leave the pipeline are those of an encoder that takes no *)
(* time, in its order, and the mark of the end comes with the last of the  *)
(* last block.                                                             *)
THEOREM CodesInOrder == Spec => []CodesAreTheBlocks
<1>1. IInv => CodesAreTheBlocks
  <2> SUFFICES ASSUME IInv PROVE CodesAreTheBlocks
    OBVIOUS
  <2> DEFINE rest == Held3 \o (Held2 \o (Held1 \o Held0))
  <2>1. rest \in Seq(Item) /\ output \in Seq(Item)
    BY HeldType, ConcatProperties DEF IInv
  <2>2. expected = output \o rest
    BY DEF IInv, NothingIsLost
  <2>3. IsPrefix(output, expected)
    <3> HIDE DEF rest
    <3>1. Len(output) <= Len(expected) /\ SubSeq(expected, 1, Len(output)) = output
      BY <2>1, <2>2
    <3> QED
      BY <2>1, <2>2, <3>1 DEF IsPrefix
  <2>4. ASSUME out_tlast PROVE output = expected /\ q_last_mcu /\ q_cnt = LastCnt
    <3>1. IsLast /\ None(out_valid0) /\ None(out_valid1) /\ None(out_valid2) /\ None(out_valid3)
      BY <2>4 DEF IInv, MarkIsLast
    <3>2. rest = <<>>
      BY <3>1 DEF None, Held0, Held1, Held2, Held3, Held, Out
    <3> QED
      BY <2>1, <2>2, <3>1, <3>2, ConcatEmptySeq DEF IsLast
  <2> QED
    BY <2>3, <2>4 DEF CodesAreTheBlocks
<1> QED
  BY <1>1, Invariance, PTL

-----------------------------------------------------------------------------
(* BytePack: sequences of bits.                                            *)
Bits == Seq({0, 1})

LEMMA WordSizes ==
  /\ Word \in Nat /\ Word > 0 /\ Byte \in Nat /\ Byte > 0 /\ Word % Byte = 0 /\ MaxCodes \in Nat
  /\ \A c \in Codes : c \in Bits /\ Len(c) \in 1 .. 2 * Word
BY WordAssumption DEF Bits

LEMMA BitsConst ==
  ASSUME NEW n \in Nat
  PROVE  /\ Zeros(n) \in Bits /\ Len(Zeros(n)) = n /\ \A i \in 1 .. n : Zeros(n)[i] = 0
         /\ Ones(n) \in Bits /\ Len(Ones(n)) = n /\ \A i \in 1 .. n : Ones(n)[i] = 1
BY DEF Zeros, Ones, Bits

LEMMA BitsSame ==
  ASSUME NEW s \in Bits, NEW t \in Bits, Len(s) = Len(t), \A i \in 1 .. Len(s) : s[i] = t[i]
  PROVE  s = t
BY SeqEqual DEF Bits

LEMMA BitsPart ==
  ASSUME NEW s \in Bits, NEW m \in Nat, NEW n \in Nat, m <= n, n <= Len(s)
  PROVE  /\ SubSeq(s, m + 1, n) \in Bits /\ Len(SubSeq(s, m + 1, n)) = n - m
         /\ \A i \in 1 .. n - m : SubSeq(s, m + 1, n)[i] = s[m + i]
<1>1. \A i \in m + 1 .. n : s[i] \in {0, 1}
  BY DEF Bits
<1>2. m + 1 \in Int /\ n \in Int
  OBVIOUS
<1>3. /\ SubSeq(s, m + 1, n) \in Seq({0, 1})
      /\ Len(SubSeq(s, m + 1, n)) = IF m + 1 <= n THEN n - (m + 1) + 1 ELSE 0
      /\ \A i \in 1 .. n - (m + 1) + 1 : SubSeq(s, m + 1, n)[i] = s[(m + 1) + i - 1]
  BY <1>1, <1>2, SubSeqProperties
<1>4. n - (m + 1) + 1 = n - m /\ \A i \in 1 .. n - m : (m + 1) + i - 1 = m + i
  OBVIOUS
<1> QED
  BY <1>3, <1>4 DEF Bits

LEMMA BitsFront ==
  ASSUME NEW s \in Bits, NEW n \in Nat, n <= Len(s)
  PROVE  /\ SubSeq(s, 1, n) \in Bits /\ Len(SubSeq(s, 1, n)) = n
         /\ \A i \in 1 .. n : SubSeq(s, 1, n)[i] = s[i]
<1>1. 0 \in Nat /\ 0 <= n /\ 0 + 1 = 1 /\ n - 0 = n /\ \A i \in 1 .. n : 0 + i = i
  OBVIOUS
<1> QED
  BY <1>1, BitsPart

LEMMA BitsJoin ==
  ASSUME NEW s \in Bits, NEW t \in Bits
  PROVE  s \o t \in Bits /\ Len(s \o t) = Len(s) + Len(t) /\ Len(s) \in Nat /\ Len(t) \in Nat
BY ConcatProperties DEF Bits

LEMMA BitsOfJoin ==
  ASSUME NEW s \in Bits, NEW t \in Bits, NEW m, NEW n, Len(s) = m, Len(t) = n
  PROVE  /\ \A i \in 1 .. m : (s \o t)[i] = s[i]
         /\ \A i \in 1 .. n : (s \o t)[m + i] = t[i]
<1>1. m \in Nat /\ n \in Nat
  BY DEF Bits
<1>2. \A i \in 1 .. m + n : (s \o t)[i] = IF i <= m THEN s[i] ELSE t[i - m]
  BY ConcatProperties DEF Bits
<1>3. ASSUME NEW i \in 1 .. n PROVE (s \o t)[m + i] = t[i]
  <2>1. m + i \in 1 .. m + n /\ ~ (m + i <= m) /\ (m + i) - m = i
    BY <1>1
  <2> QED
    BY <1>2, <2>1
<1> QED
  BY <1>1, <1>2, <1>3

LEMMA BitsOfBoth ==
  ASSUME NEW s \in Bits, NEW t \in Bits
  PROVE  /\ \A i \in 1 .. Len(s) : (s \o t)[i] = s[i]
         /\ \A i \in 1 .. Len(t) : (s \o t)[Len(s) + i] = t[i]
BY BitsOfJoin

LEMMA BitsNone ==
  /\ <<>> \in Bits /\ Len(<<>>) = 0
  /\ \A s \in Bits : s \o <<>> = s /\ <<>> \o s = s
  /\ \A s \in Bits, t \in Bits, u \in Bits : (s \o t) \o u = s \o (t \o u)
  /\ \A s : SubSeq(s, 1, 0) = <<>>
<1>1. \A s \in Bits : s \o <<>> = s /\ <<>> \o s = s
  BY ConcatEmptySeq DEF Bits
<1>2. \A s \in Bits, t \in Bits, u \in Bits : (s \o t) \o u = s \o (t \o u)
  BY ConcatAssociative DEF Bits
<1>3. \A s : SubSeq(s, 1, 0) = <<>>
  BY SubSeqEmpty
<1>4. <<>> \in Bits /\ Len(<<>>) = 0
  BY DEF Bits
<1> QED
  BY <1>1, <1>2, <1>3, <1>4

LEMMA BitsAssoc ==
  ASSUME NEW s \in Bits, NEW t \in Bits, NEW u \in Bits
  PROVE  (s \o t) \o u = s \o (t \o u)
BY ConcatAssociative DEF Bits

(* A sequence of bits is any two adjacent parts of it.                     *)
LEMMA BitsAdjacent ==
  ASSUME NEW s \in Bits, NEW m \in Nat, NEW n \in Nat, m <= n, n <= Len(s)
  PROVE  SubSeq(s, 1, m) \o SubSeq(s, m + 1, n) = SubSeq(s, 1, n)
<1> DEFINE a == SubSeq(s, 1, m)
           b == SubSeq(s, m + 1, n)
           c == SubSeq(s, 1, n)
<1>1. a \in Bits /\ Len(a) = m /\ \A i \in 1 .. m : a[i] = s[i]
  <2>1. m <= Len(s)
    BY DEF Bits
  <2> QED
    BY <2>1, BitsFront
<1>2. b \in Bits /\ Len(b) = n - m /\ \A i \in 1 .. n - m : b[i] = s[m + i]
  BY BitsPart
<1>3. c \in Bits /\ Len(c) = n /\ \A i \in 1 .. n : c[i] = s[i]
  BY BitsFront
<1> HIDE DEF a, b, c
<1>4. /\ a \o b \in Bits /\ Len(a \o b) = m + (n - m)
      /\ \A i \in 1 .. m : (a \o b)[i] = a[i]
      /\ \A i \in 1 .. n - m : (a \o b)[m + i] = b[i]
  <2>1. a \o b \in Bits /\ Len(a \o b) = m + (n - m)
    BY <1>1, <1>2, BitsJoin
  <2>2. /\ \A i \in 1 .. m : (a \o b)[i] = a[i]
      /\ \A i \in 1 .. n - m : (a \o b)[m + i] = b[i]
    BY <1>1, <1>2, BitsOfJoin
  <2> QED
    BY <2>1, <2>2
<1>5. ASSUME NEW i \in 1 .. n PROVE (a \o b)[i] = c[i]
  <2>1. CASE i <= m
    <3>1. i \in 1 .. m
      BY <2>1
    <3> QED
      BY <1>1, <1>3, <1>4, <3>1
  <2>2. CASE i > m
    <3>1. i - m \in 1 .. n - m /\ m + (i - m) = i
      BY <2>2
    <3> QED
      BY <1>2, <1>3, <1>4, <3>1
  <2>3. i <= m \/ i > m
    OBVIOUS
  <2> QED
    BY ONLY <2>1, <2>2, <2>3, Zenon
<1>6. a \o b = c
  <2>1. m + (n - m) = n
    OBVIOUS
  <2> QED
    BY <1>3, <1>4, <1>5, <2>1, BitsSame
<1> QED
  BY <1>6 DEF a, b, c

-----------------------------------------------------------------------------
(* bit_packer: what stays moves to the front, the load comes behind it.    *)
Shifted(old, shift, load, place, data) ==
  [i \in 1 .. 2 * Word |->
     IF \/ i + shift <= 2 * Word /\ old[i + shift] = 1
        \/ load /\ i - place \in 1 .. Word /\ data[i - place] = 1
     THEN 1 ELSE 0]

ClearFrom(s, n) == \A i \in n + 1 .. Len(s) : s[i] = 0

LEMMA ShiftedIs ==
  ASSUME NEW old \in Bits, Len(old) = 2 * Word, NEW data \in Bits, Len(data) = Word,
         NEW shift \in {0, Word}, NEW load \in BOOLEAN, NEW place \in Nat
  PROVE  LET new == Shifted(old, shift, load, place, data)
         IN  /\ new \in Bits /\ Len(new) = 2 * Word
             /\ \A i \in 1 .. 2 * Word :
                  new[i] = IF \/ i + shift <= 2 * Word /\ old[i + shift] = 1
                              \/ load /\ i - place \in 1 .. Word /\ data[i - place] = 1
                           THEN 1 ELSE 0
BY WordSizes DEF Shifted, Bits

(* A word leaves, or none: what stays is the rest.                         *)
LEMMA ShiftKeeps ==
  ASSUME NEW old \in Bits, Len(old) = 2 * Word, NEW data \in Bits, Len(data) = Word,
         NEW shift \in {0, Word}, NEW place \in Nat, place + shift <= 2 * Word
  PROVE  SubSeq(old, 1, shift + place) =
           SubSeq(old, 1, shift) \o SubSeq(Shifted(old, shift, FALSE, place, data), 1, place)
<1> DEFINE new == Shifted(old, shift, FALSE, place, data)
<1>0. Word \in Nat /\ shift \in Nat
  BY WordSizes
<1>1. /\ new \in Bits /\ Len(new) = 2 * Word
      /\ \A i \in 1 .. 2 * Word : new[i] = IF i + shift <= 2 * Word /\ old[i + shift] = 1 THEN 1 ELSE 0
  BY WordSizes DEF Shifted, Bits
<1> HIDE DEF new
<1>2. SubSeq(old, shift + 1, shift + place) = SubSeq(new, 1, place)
  <2> DEFINE a == SubSeq(old, shift + 1, shift + place)
             b == SubSeq(new, 1, place)
  <2>1. a \in Bits /\ Len(a) = place /\ \A i \in 1 .. place : a[i] = old[shift + i]
    <3>1. shift + place \in Nat /\ shift <= shift + place /\ shift + place <= Len(old)
          /\ shift + place - shift = place
      BY <1>0
    <3>2. /\ a \in Bits /\ Len(a) = shift + place - shift
          /\ \A i \in 1 .. shift + place - shift : a[i] = old[shift + i]
      BY <1>0, <3>1, BitsPart
    <3> QED
      BY <3>1, <3>2
  <2>2. b \in Bits /\ Len(b) = place /\ \A i \in 1 .. place : b[i] = new[i]
    <3>1. place <= Len(new)
      BY <1>0, <1>1
    <3> QED
      BY <1>1, <3>1, BitsFront
  <2>3. ASSUME NEW i \in 1 .. place PROVE a[i] = b[i]
    <3>1. i \in 1 .. 2 * Word /\ i + shift <= 2 * Word /\ i + shift = shift + i /\ i + shift \in 1 .. Len(old)
      BY <1>0
    <3>2. old[i + shift] \in {0, 1}
      BY <3>1 DEF Bits
    <3> QED
      BY <1>1, <2>1, <2>2, <3>1, <3>2
  <2> HIDE DEF a, b
  <2>4. a = b
    BY <2>1, <2>2, <2>3, BitsSame
  <2> QED
    BY <2>4 DEF a, b
<1>3. SubSeq(old, 1, shift) \o SubSeq(old, shift + 1, shift + place) = SubSeq(old, 1, shift + place)
  <2>1. shift + place \in Nat /\ shift <= shift + place /\ shift + place <= Len(old)
    BY <1>0
  <2> QED
    BY <1>0, <2>1, BitsAdjacent
<1> QED
  BY <1>2, <1>3 DEF new

(* With a load behind clear bits, the rest is followed by the load.        *)
LEMMA ShiftLoads ==
  ASSUME NEW old \in Bits, Len(old) = 2 * Word, NEW data \in Bits, Len(data) = Word,
         NEW shift \in {0, Word}, NEW place \in Nat, place < Word, place + shift < 2 * Word,
         ClearFrom(old, shift + place), NEW n \in 1 .. Word
  PROVE  LET new == Shifted(old, shift, TRUE, place, data)
         IN  /\ SubSeq(old, 1, shift + place) \o SubSeq(data, 1, n) =
                  SubSeq(old, 1, shift) \o SubSeq(new, 1, place + n)
             /\ ClearFrom(data, n) => ClearFrom(new, place + n)
<1> DEFINE new == Shifted(old, shift, TRUE, place, data)
<1>0. Word \in Nat /\ shift \in Nat /\ n \in Nat
  BY WordSizes
<1>1. /\ new \in Bits /\ Len(new) = 2 * Word
      /\ \A i \in 1 .. 2 * Word :
           new[i] = IF \/ i + shift <= 2 * Word /\ old[i + shift] = 1
                       \/ i - place \in 1 .. Word /\ data[i - place] = 1
                    THEN 1 ELSE 0
  BY WordSizes DEF Shifted, Bits
<1> HIDE DEF new
<1>2. ASSUME NEW i \in 1 .. place PROVE new[i] = old[shift + i]
  <2>1. i \in 1 .. 2 * Word /\ i + shift <= 2 * Word /\ shift + i = i + shift /\ i - place \notin 1 .. Word
    BY <1>0
  <2>2. old[i + shift] \in {0, 1}
    <3>1. i + shift \in 1 .. Len(old)
      BY <1>0
    <3> QED
      BY <3>1 DEF Bits
  <2> QED
    BY <1>1, <2>1, <2>2
<1>3. ASSUME NEW i \in place + 1 .. place + Word PROVE new[i] = data[i - place]
  <2>1. i \in 1 .. 2 * Word /\ i - place \in 1 .. Word
    BY <1>0
  <2>2. i + shift <= 2 * Word => old[i + shift] = 0
    <3>1. i + shift <= 2 * Word => i + shift \in (shift + place) + 1 .. Len(old)
      BY <1>0
    <3> QED
      BY <3>1 DEF ClearFrom
  <2>3. data[i - place] \in {0, 1}
    BY <2>1 DEF Bits
  <2> QED
    BY <1>1, <2>1, <2>2, <2>3
<1>4. ASSUME NEW i \in place + Word + 1 .. 2 * Word PROVE new[i] = 0
  <2>1. i \in 1 .. 2 * Word /\ i - place \notin 1 .. Word
    BY <1>0
  <2>2. i + shift <= 2 * Word => old[i + shift] = 0
    <3>1. i + shift <= 2 * Word => i + shift \in (shift + place) + 1 .. Len(old)
      BY <1>0
    <3> QED
      BY <3>1 DEF ClearFrom
  <2> QED
    BY <1>1, <2>1, <2>2
<1>5. SubSeq(old, 1, shift + place) \o SubSeq(data, 1, n) = SubSeq(old, 1, shift) \o SubSeq(new, 1, place + n)
  <2> DEFINE a == SubSeq(old, 1, shift + place)
             b == SubSeq(data, 1, n)
             c == SubSeq(old, 1, shift)
             d == SubSeq(new, 1, place + n)
  <2>0. shift + place \in Nat /\ shift + place <= Len(old) /\ shift <= Len(old) /\ n <= Len(data)
        /\ place + n \in Nat /\ place + n <= Len(new)
    BY <1>0, <1>1
  <2>1. a \in Bits /\ Len(a) = shift + place /\ \A i \in 1 .. shift + place : a[i] = old[i]
    BY <2>0, BitsFront
  <2>2. b \in Bits /\ Len(b) = n /\ \A i \in 1 .. n : b[i] = data[i]
    BY <1>0, <2>0, BitsFront
  <2>3. c \in Bits /\ Len(c) = shift /\ \A i \in 1 .. shift : c[i] = old[i]
    BY <1>0, <2>0, BitsFront
  <2>4. d \in Bits /\ Len(d) = place + n /\ \A i \in 1 .. place + n : d[i] = new[i]
    BY <1>1, <2>0, BitsFront
  <2> HIDE DEF a, b, c, d
  <2>5. /\ a \o b \in Bits /\ Len(a \o b) = (shift + place) + n
        /\ \A i \in 1 .. shift + place : (a \o b)[i] = a[i]
        /\ \A i \in 1 .. n : (a \o b)[shift + place + i] = b[i]
    <3>0. a \in Bits /\ b \in Bits /\ Len(a) = shift + place /\ Len(b) = n
      BY <2>1, <2>2
    <3>1. a \o b \in Bits /\ Len(a \o b) = Len(a) + Len(b)
      BY <3>0, BitsJoin
    <3>2. /\ \A i \in 1 .. Len(a) : (a \o b)[i] = a[i]
          /\ \A i \in 1 .. Len(b) : (a \o b)[Len(a) + i] = b[i]
      BY <3>0, BitsOfBoth
    <3> QED
      BY <3>0, <3>1, <3>2
  <2>6. /\ c \o d \in Bits /\ Len(c \o d) = shift + (place + n)
        /\ \A i \in 1 .. shift : (c \o d)[i] = c[i]
        /\ \A i \in 1 .. place + n : (c \o d)[shift + i] = d[i]
    <3>0. c \in Bits /\ d \in Bits /\ Len(c) = shift /\ Len(d) = place + n
      BY <2>3, <2>4
    <3>1. c \o d \in Bits /\ Len(c \o d) = Len(c) + Len(d)
      BY <3>0, BitsJoin
    <3>2. /\ \A i \in 1 .. Len(c) : (c \o d)[i] = c[i]
          /\ \A i \in 1 .. Len(d) : (c \o d)[Len(c) + i] = d[i]
      BY <3>0, BitsOfBoth
    <3> QED
      BY <3>0, <3>1, <3>2
  <2>7. ASSUME NEW i \in 1 .. shift + place + n PROVE (a \o b)[i] = (c \o d)[i]
    <3>1. CASE i <= shift
      <4>1. i \in 1 .. shift /\ i \in 1 .. shift + place
        BY <1>0, <3>1
      <4> QED
        BY <2>1, <2>3, <2>5, <2>6, <4>1
    <3>2. CASE shift < i /\ i <= shift + place
      <4>1. i - shift \in 1 .. place /\ i - shift \in 1 .. place + n /\ i \in 1 .. shift + place
            /\ shift + (i - shift) = i
        BY <1>0, <3>2
      <4>2. new[i - shift] = old[shift + (i - shift)]
        BY <1>2, <4>1
      <4> QED
        BY <2>1, <2>4, <2>5, <2>6, <4>1, <4>2
    <3>3. CASE shift + place < i
      <4>1. /\ i - shift \in place + 1 .. place + Word /\ i - shift \in 1 .. place + n
            /\ i - (shift + place) \in 1 .. n /\ (i - shift) - place = i - (shift + place)
            /\ shift + (i - shift) = i /\ shift + place + (i - (shift + place)) = i
        BY <1>0, <3>3
      <4>2. new[i - shift] = data[i - (shift + place)]
        BY <1>3, <4>1
      <4> QED
        BY <2>2, <2>4, <2>5, <2>6, <4>1, <4>2
    <3>4. i <= shift \/ (shift < i /\ i <= shift + place) \/ shift + place < i
      BY <1>0
    <3> QED
      BY ONLY <3>1, <3>2, <3>3, <3>4, Zenon
  <2>8. a \o b = c \o d
    <3>1. shift + place + n = shift + (place + n)
      BY <1>0
    <3> QED
      BY <2>5, <2>6, <2>7, <3>1, BitsSame
  <2> QED
    BY <2>8 DEF a, b, c, d
<1>6. ASSUME ClearFrom(data, n) PROVE ClearFrom(new, place + n)
  <2>1. ASSUME NEW i \in place + n + 1 .. Len(new) PROVE new[i] = 0
    <3>1. CASE i <= place + Word
      <4>1. i \in place + 1 .. place + Word /\ i - place \in n + 1 .. Len(data)
        BY <1>0, <1>1, <3>1
      <4> QED
        BY <1>3, <1>6, <4>1 DEF ClearFrom
    <3>2. CASE i > place + Word
      <4>1. i \in place + Word + 1 .. 2 * Word
        BY <1>0, <1>1, <3>2
      <4> QED
        BY <1>4, <4>1
    <3> QED
      BY <1>0, <3>1, <3>2
  <2> QED
    BY <2>1 DEF ClearFrom
<1> QED
  BY <1>5, <1>6 DEF new

(* Without a load clear bits stay clear.                                   *)
LEMMA ShiftClears ==
  ASSUME NEW old \in Bits, Len(old) = 2 * Word, NEW data \in Bits, Len(data) = Word,
         NEW shift \in {0, Word}, NEW place \in Nat, ClearFrom(old, shift + place)
  PROVE  ClearFrom(Shifted(old, shift, FALSE, place, data), place)
<1> DEFINE new == Shifted(old, shift, FALSE, place, data)
<1>0. Word \in Nat /\ shift \in Nat
  BY WordSizes
<1>1. /\ new \in Bits /\ Len(new) = 2 * Word
      /\ \A i \in 1 .. 2 * Word : new[i] = IF i + shift <= 2 * Word /\ old[i + shift] = 1 THEN 1 ELSE 0
  BY WordSizes DEF Shifted, Bits
<1> HIDE DEF new
<1>2. ASSUME NEW i \in place + 1 .. Len(new) PROVE new[i] = 0
  <2>1. i \in 1 .. 2 * Word
    BY <1>0, <1>1
  <2>2. i + shift <= 2 * Word => i + shift \in (shift + place) + 1 .. Len(old)
    BY <1>0, <2>1
  <2> QED
    BY <1>1, <2>1, <2>2 DEF ClearFrom
<1> QED
  BY <1>2 DEF new, ClearFrom

-----------------------------------------------------------------------------
(* A packer and the port before it.                                        *)
BitPackers ==
  [in32_data : Bits, in32_nbits : 0 .. Word, in32_tlast : BOOLEAN, in32_valid : BOOLEAN,
   long_in : BOOLEAN, bit_count : Nat, bit_packer : Bits, tlast_cycle : BOOLEAN,
   out_tlast : BOOLEAN, out_valid : BOOLEAN, out_nbytes : Nat]
Ports == [data : Bits, nbits : 0 .. 2 * Word, tlast : BOOLEAN, valid : BOOLEAN]

Shape(p) ==
  /\ p \in BitPackers /\ Len(p.in32_data) = Word /\ Len(p.bit_packer) = 2 * Word
  /\ p.bit_count < 2 * Word

(* Behind the bits of the last code there may be ones of the padding.      *)
IsPort(in) ==
  /\ in \in Ports /\ Len(in.data) = 2 * Word
  /\ in.valid => in.nbits > 0 /\ (in.tlast \/ ClearFrom(in.data, in.nbits))

IsIn32(p, in) ==
  /\ p.long_in => in.valid /\ in.nbits > Word
  /\ p.in32_valid => p.in32_nbits > 0 /\ (p.in32_tlast \/ ClearFrom(p.in32_data, p.in32_nbits))

IsOut(p) ==
  /\ p.out_tlast <=> p.tlast_cycle /\ p.bit_count <= Word
  /\ p.out_valid <=> p.out_tlast \/ p.bit_count >= Word
  /\ p.out_valid => p.out_nbytes = IF p.out_tlast THEN (p.bit_count + Byte - 1) \div Byte ELSE Word \div Byte
  /\ p.tlast_cycle => p.bit_count > 0

(* The last code is in the port, in the register behind it or in the       *)
(* packer, with none behind it; or all is empty.                           *)
HasLast(p, in) ==
  (in.valid /\ in.tlast) \/ (p.in32_valid /\ p.in32_tlast) \/ p.tlast_cycle
Drained(p, in) == ~in.valid /\ ~p.in32_valid /\ ~p.tlast_cycle /\ p.bit_count = 0

IsEnd(p, in, e) ==
  /\ HasLast(p, in) => e
  /\ e => HasLast(p, in) \/ Drained(p, in)
  /\ p.tlast_cycle => ~p.in32_valid /\ ~in.valid
  /\ p.in32_valid /\ p.in32_tlast => ~in.valid
  /\ (~e \/ HasLast(p, in)) /\ ~p.tlast_cycle => ClearFrom(p.bit_packer, p.bit_count)

IsPacker(p, in, e) == Shape(p) /\ IsPort(in) /\ IsIn32(p, in) /\ IsOut(p) /\ IsEnd(p, in, e)

(* The bits that are still to leave, in their order.                       *)
Kept(p)       == SubSeq(p.bit_packer, 1, p.bit_count)
Waiting(p)    == IF p.in32_valid THEN SubSeq(p.in32_data, 1, p.in32_nbits) ELSE <<>>
Coming(p, in) ==
  IF ~in.valid THEN <<>>
  ELSE IF p.long_in THEN SubSeq(in.data, Word + 1, in.nbits) ELSE SubSeq(in.data, 1, in.nbits)
Rest(p, in) == Kept(p) \o (Waiting(p) \o Coming(p, in))

-----------------------------------------------------------------------------
(* One clock of a packer, register by register.                            *)
Loads(p, hold)  == p.in32_valid /\ ~In32Hold(p, hold)
Shift(p)        == IF p.out_tlast \/ Decrement(p) # 0 THEN Word ELSE 0
Place(p)        == p.bit_count - Decrement(p)
Counted(p, hold) == Place(p) + (IF Loads(p, hold) THEN p.in32_nbits ELSE 0)

LEMMA PackIs ==
  ASSUME NEW p \in BitPackers, NEW hold, ~(hold /\ p.out_valid)
  PROVE  LET n == Pack(p, hold)
         IN  /\ n.bit_count = Counted(p, hold) /\ n.tlast_cycle = NextTlastCycle(p)
             /\ n.out_tlast = (NextTlastCycle(p) /\ Counted(p, hold) <= Word)
             /\ n.out_valid = ((NextTlastCycle(p) /\ Counted(p, hold) <= Word) \/ Counted(p, hold) >= Word)
             /\ n.out_nbytes = IF NextTlastCycle(p) /\ Counted(p, hold) <= Word
                                 THEN (Counted(p, hold) + Byte - 1) \div Byte ELSE Word \div Byte
             /\ n.bit_packer = Shifted(p.bit_packer, Shift(p), Loads(p, hold), Place(p), p.in32_data)
BY DEF Pack, Counted, Place, Loads, Shift, Shifted, BitPackers

LEMMA PackHolds ==
  ASSUME NEW p, NEW hold, hold /\ p.out_valid
  PROVE  Pack(p, hold) = p
BY DEF Pack

LEMMA BitPackIs ==
  ASSUME NEW p \in BitPackers, NEW in, NEW hold
  PROVE  LET n == BitPack(p, in, hold)
             a == Align(p, in, hold)
             b == Pack(p, hold)
         IN  /\ n.in32_data = a.in32_data /\ n.in32_nbits = a.in32_nbits /\ n.in32_tlast = a.in32_tlast
             /\ n.in32_valid = a.in32_valid /\ n.long_in = a.long_in
             /\ n.bit_count = b.bit_count /\ n.bit_packer = b.bit_packer /\ n.tlast_cycle = b.tlast_cycle
             /\ n.out_tlast = b.out_tlast /\ n.out_valid = b.out_valid /\ n.out_nbytes = b.out_nbytes
             /\ n = [in32_data |-> a.in32_data, in32_nbits |-> a.in32_nbits, in32_tlast |-> a.in32_tlast,
                     in32_valid |-> a.in32_valid, long_in |-> a.long_in, bit_count |-> b.bit_count,
                     bit_packer |-> b.bit_packer, tlast_cycle |-> b.tlast_cycle,
                     out_tlast |-> b.out_tlast, out_valid |-> b.out_valid, out_nbytes |-> b.out_nbytes]
<1> DEFINE a == Align(p, in, hold)
           b == Pack(p, hold)
<1>1. BitPack(p, in, hold) =
        [b EXCEPT !.in32_data = a.in32_data, !.in32_nbits = a.in32_nbits,
                  !.in32_tlast = a.in32_tlast, !.in32_valid = a.in32_valid, !.long_in = a.long_in]
  BY DEF BitPack
<1>2. DOMAIN b = {"in32_data", "in32_nbits", "in32_tlast", "in32_valid", "long_in", "bit_count",
                  "bit_packer", "tlast_cycle", "out_tlast", "out_valid", "out_nbytes"}
      /\ b = [x \in DOMAIN b |-> b[x]]
  BY ZenonT(40) DEF Pack, BitPackers
<1> HIDE DEF a, b
<1> QED
  BY <1>1, <1>2 DEF a, b

LEMMA AlignHolds ==
  ASSUME NEW p, NEW in, NEW hold, In32Hold(p, hold) /\ p.in32_valid
  PROVE  Align(p, in, hold) = p
BY DEF Align

LEMMA AlignIs ==
  ASSUME NEW p \in BitPackers, NEW in, NEW hold, ~(In32Hold(p, hold) /\ p.in32_valid)
  PROVE  LET a == Align(p, in, hold)
         IN  /\ a.in32_valid = in.valid /\ a.long_in = (~p.long_in /\ in.valid /\ in.nbits > Word)
             /\ p.long_in =>
                  /\ a.in32_nbits = in.nbits - Word /\ a.in32_tlast = in.tlast
                  /\ a.in32_data = SubSeq(in.data, Word + 1, 2 * Word)
             /\ ~p.long_in /\ in.valid =>
                  /\ a.in32_nbits = IF in.nbits > Word THEN Word ELSE in.nbits
                  /\ a.in32_tlast = (in.tlast /\ in.nbits <= Word)
                  /\ a.in32_data = SubSeq(in.data, 1, Word)
             /\ ~p.long_in /\ ~in.valid =>
                  a.in32_nbits = p.in32_nbits /\ a.in32_tlast = p.in32_tlast /\ a.in32_data = p.in32_data
<1> DEFINE half == [p EXCEPT !.in32_valid = in.valid, !.long_in = ~p.long_in /\ in.valid /\ in.nbits > Word]
<1>1. Align(p, in, hold) =
        CASE p.long_in ->
               [half EXCEPT !.in32_nbits = in.nbits - Word, !.in32_tlast = in.tlast,
                            !.in32_data = SubSeq(in.data, Word + 1, 2 * Word)]
          [] ~p.long_in /\ in.valid ->
               [half EXCEPT !.in32_nbits = IF in.nbits > Word THEN Word ELSE in.nbits,
                            !.in32_tlast = in.tlast /\ in.nbits <= Word,
                            !.in32_data = SubSeq(in.data, 1, Word)]
          [] OTHER -> half
  BY Zenon DEF Align
<1>2. DOMAIN half = {"in32_data", "in32_nbits", "in32_tlast", "in32_valid", "long_in", "bit_count",
                     "bit_packer", "tlast_cycle", "out_tlast", "out_valid", "out_nbytes"}
      /\ half.in32_valid = in.valid /\ half.long_in = (~p.long_in /\ in.valid /\ in.nbits > Word)
      /\ half.in32_nbits = p.in32_nbits /\ half.in32_tlast = p.in32_tlast /\ half.in32_data = p.in32_data
  BY DEF BitPackers
<1> HIDE DEF half
<1>3. CASE p.long_in
  BY <1>1, <1>2, <1>3
<1>4. CASE ~p.long_in /\ in.valid
  BY <1>1, <1>2, <1>4
<1>5. CASE ~p.long_in /\ ~in.valid
  BY <1>1, <1>2, <1>5
<1> QED
  BY <1>3, <1>4, <1>5

-----------------------------------------------------------------------------
(* A clock of a packer: its output is held or not, its port keeps what is  *)
(* held, and else has nothing, or something new.                           *)
IsHeld(p, in, hold) == InHold(p, in, hold) /\ in.valid

PortStep(p, in, e, hold, in2, e2) ==
  \/ IsHeld(p, in, hold) /\ in2 = in /\ e2 = e
  \/ ~IsHeld(p, in, hold) /\ ~in2.valid /\ e2 = e
  \/ ~IsHeld(p, in, hold) /\ ~e /\ in2.valid /\ e2 = in2.tlast

New(p, in, hold, in2) ==
  IF in2.valid /\ ~IsHeld(p, in, hold) THEN SubSeq(in2.data, 1, in2.nbits) ELSE <<>>

Loaded(p, hold) == IF Loads(p, hold) THEN Waiting(p) ELSE <<>>

LEMMA Places ==
  ASSUME NEW p, NEW in, NEW e, NEW hold, IsPacker(p, in, e)
  PROVE  /\ p.bit_count \in Nat /\ p.bit_count < 2 * Word /\ Word \in Nat /\ Word > 0
         /\ Shift(p) \in {0, Word} /\ Place(p) \in Nat /\ Place(p) < Word
         /\ Counted(p, hold) \in Nat /\ Counted(p, hold) < 2 * Word
         /\ p.out_tlast => Place(p) = 0 /\ Counted(p, hold) = 0 /\ ~Loads(p, hold)
         /\ ~p.out_tlast => /\ Place(p) + Shift(p) = p.bit_count /\ Shift(p) + Place(p) = p.bit_count
                            /\ p.out_valid => Shift(p) = Word
                            /\ ~p.out_valid => Shift(p) = 0
         /\ Loads(p, hold) => p.in32_nbits \in 1 .. Word
<1>1. p.bit_count \in Nat /\ p.bit_count < 2 * Word /\ p.in32_nbits \in 0 .. Word /\ Word \in Nat /\ Word > 0
  BY WordSizes DEF IsPacker, Shape, BitPackers
<1>2. p.out_tlast => p.tlast_cycle /\ ~p.in32_valid
  BY DEF IsPacker, IsOut, IsEnd
<1>3. p.out_valid <=> p.out_tlast \/ p.bit_count >= Word
  BY DEF IsPacker, IsOut
<1>4. Loads(p, hold) => p.in32_nbits \in 1 .. Word
  <2>1. Loads(p, hold) => p.in32_nbits > 0
    BY DEF Loads, IsPacker, IsIn32
  <2> QED
    BY <1>1, <2>1
<1>5. CASE p.out_tlast
  <2>1. Decrement(p) = p.bit_count /\ ~Loads(p, hold) /\ Shift(p) = Word
    BY <1>2, <1>5 DEF Decrement, Loads, Shift
  <2> QED
    BY <1>1, <1>5, <2>1 DEF Place, Counted
<1>6. CASE ~p.out_tlast
  <2>1. Decrement(p) = IF p.bit_count >= Word THEN Word ELSE 0
    BY <1>6 DEF Decrement
  <2>2. CASE p.bit_count >= Word
    <3>1. Shift(p) = Word /\ Place(p) = p.bit_count - Word
      BY <1>1, <2>1, <2>2 DEF Shift, Place
    <3> QED
      BY <1>1, <1>3, <1>4, <1>6, <2>2, <3>1 DEF Counted
  <2>3. CASE ~ (p.bit_count >= Word)
    <3>1. Shift(p) = 0 /\ Place(p) = p.bit_count - 0
      BY <1>6, <2>1, <2>3 DEF Shift, Place
    <3> QED
      BY <1>1, <1>3, <1>4, <1>6, <2>3, <3>1 DEF Counted
  <2> QED
    BY <2>2, <2>3
<1> QED
  BY <1>5, <1>6

(* Which word leaves, what stays, and that what is behind it is clear.     *)
LEMMA PackStream ==
  ASSUME NEW p, NEW in, NEW e, NEW hold, IsPacker(p, in, e), ~(hold /\ p.out_valid)
  PROVE  LET n == BitPack(p, in, hold)
         IN  /\ n.bit_packer \in Bits /\ Len(n.bit_packer) = 2 * Word /\ n.bit_count = Counted(p, hold)
             /\ ~p.out_tlast =>
                  Kept(p) \o Loaded(p, hold) =
                    (IF p.out_valid THEN SubSeq(p.bit_packer, 1, Word) ELSE <<>>) \o Kept(n)
             /\ ~p.tlast_cycle /\ ClearFrom(p.bit_packer, p.bit_count) =>
                  n.tlast_cycle \/ ClearFrom(n.bit_packer, n.bit_count)
<1> DEFINE n == BitPack(p, in, hold)
           old == p.bit_packer
           data == p.in32_data
           k == p.in32_nbits
<1>1. p \in BitPackers /\ old \in Bits /\ Len(old) = 2 * Word /\ data \in Bits /\ Len(data) = Word
  BY DEF IsPacker, Shape, BitPackers
<1>2. /\ n.bit_count = Counted(p, hold) /\ n.tlast_cycle = NextTlastCycle(p)
      /\ n.bit_packer = Shifted(old, Shift(p), Loads(p, hold), Place(p), data)
  BY <1>1, BitPackIs, PackIs
<1>3. /\ p.bit_count \in Nat /\ p.bit_count < 2 * Word /\ Word \in Nat /\ Word > 0
      /\ Shift(p) \in {0, Word} /\ Place(p) \in Nat /\ Place(p) < Word
      /\ p.out_tlast => Place(p) = 0 /\ Counted(p, hold) = 0 /\ ~Loads(p, hold)
      /\ ~p.out_tlast => /\ Shift(p) + Place(p) = p.bit_count
                         /\ p.out_valid => Shift(p) = Word
                         /\ ~p.out_valid => Shift(p) = 0
      /\ Loads(p, hold) => k \in 1 .. Word
  BY Places
<1>4. Loads(p, hold) \in BOOLEAN
  BY DEF Loads
<1>5. n.bit_packer \in Bits /\ Len(n.bit_packer) = 2 * Word
  BY <1>1, <1>2, <1>3, <1>4, ShiftedIs
<1>6. Loads(p, hold) => /\ p.in32_valid /\ ~p.tlast_cycle /\ ClearFrom(old, p.bit_count)
                        /\ p.in32_tlast \/ ClearFrom(data, k)
  BY DEF Loads, IsPacker, IsEnd, IsIn32, Drained
<1>7. Loads(p, hold) /\ p.in32_tlast => NextTlastCycle(p)
  BY <1>6 DEF NextTlastCycle
<1>8. ~p.out_tlast \/ Loads(p, hold) =>
        (IF p.out_valid THEN SubSeq(old, 1, Word) ELSE <<>>) = SubSeq(old, 1, Shift(p))
  BY <1>3, BitsNone
<1>9. CASE Loads(p, hold)
  <2> DEFINE new == Shifted(old, Shift(p), TRUE, Place(p), data)
  <2>1. n.bit_packer = new
    BY <1>2, <1>4, <1>9
  <2>2. Place(p) + Shift(p) < 2 * Word /\ ClearFrom(old, Shift(p) + Place(p)) /\ k \in 1 .. Word
    BY <1>3, <1>6, <1>9
  <2>3. /\ SubSeq(old, 1, Shift(p) + Place(p)) \o SubSeq(data, 1, k) =
             SubSeq(old, 1, Shift(p)) \o SubSeq(new, 1, Place(p) + k)
        /\ ClearFrom(data, k) => ClearFrom(new, Place(p) + k)
    <3> HIDE DEF n, old, data, k
    <3> DEFINE x == Shift(p)
               y == Place(p)
    <3>1. x \in {0, Word} /\ y \in Nat /\ y < Word /\ y + x < 2 * Word /\ ClearFrom(old, x + y)
      BY <1>3, <2>2
    <3> HIDE DEF x, y
    <3>2. /\ SubSeq(old, 1, x + y) \o SubSeq(data, 1, k) =
               SubSeq(old, 1, x) \o SubSeq(Shifted(old, x, TRUE, y, data), 1, y + k)
          /\ ClearFrom(data, k) => ClearFrom(Shifted(old, x, TRUE, y, data), y + k)
      <4>1. /\ old \in Bits /\ Len(old) = 2 * Word /\ data \in Bits /\ Len(data) = Word
            /\ x \in {0, Word} /\ y \in Nat /\ y < Word /\ y + x < 2 * Word
            /\ ClearFrom(old, x + y) /\ k \in 1 .. Word
        BY <1>1, <2>2, <3>1
      <4> QED
        BY ONLY <4>1, ShiftLoads, ZenonT(60)
    <3> QED
      BY <3>2 DEF x, y
  <2>4. Counted(p, hold) = Place(p) + k
    BY <1>9 DEF Counted
  <2>5. Kept(p) = SubSeq(old, 1, Shift(p) + Place(p)) /\ Loaded(p, hold) = SubSeq(data, 1, k)
        /\ Kept(n) = SubSeq(new, 1, Place(p) + k)
    BY <1>2, <1>3, <1>6, <1>9, <2>1, <2>4 DEF Kept, Loaded, Waiting
  <2> HIDE DEF n, old, data, k, new
  <2>6. Kept(p) \o Loaded(p, hold) =
          (IF p.out_valid THEN SubSeq(old, 1, Word) ELSE <<>>) \o Kept(n)
    BY <1>8, <1>9, <2>3, <2>5
  <2>7. n.tlast_cycle \/ ClearFrom(n.bit_packer, n.bit_count)
    BY <1>2, <1>6, <1>7, <1>9, <2>1, <2>3, <2>4
  <2> QED
    BY <1>2, <1>5, <2>6, <2>7 DEF n, old
<1>10. CASE ~Loads(p, hold)
  <2> DEFINE new == Shifted(old, Shift(p), FALSE, Place(p), data)
  <2>1. n.bit_packer = new
    BY <1>2, <1>4, <1>10
  <2>2. Counted(p, hold) = Place(p) /\ Loaded(p, hold) = <<>>
    BY <1>3, <1>10 DEF Counted, Loaded
  <2>3. Place(p) + Shift(p) <= 2 * Word
    BY <1>3
  <2>4. SubSeq(old, 1, Shift(p) + Place(p)) = SubSeq(old, 1, Shift(p)) \o SubSeq(new, 1, Place(p))
    BY <1>1, <1>3, <2>3, ShiftKeeps
  <2>5. ~p.out_tlast => Kept(p) = SubSeq(old, 1, Shift(p) + Place(p))
    BY <1>3 DEF Kept
  <2>6. Kept(n) = SubSeq(new, 1, Place(p)) /\ Kept(p) \in Bits
    <3>1. Kept(p) \in Bits
      BY <1>1, <1>3, BitsFront DEF Kept
    <3> QED
      BY <1>2, <2>1, <2>2, <3>1 DEF Kept
  <2>7. ~p.out_tlast /\ ClearFrom(old, p.bit_count) => ClearFrom(new, Place(p))
    BY <1>1, <1>3, ShiftClears
  <2>8. p.out_tlast => p.tlast_cycle
    BY DEF IsPacker, IsOut
  <2> HIDE DEF n, old, data, k, new
  <2>9. ~p.out_tlast => Kept(p) \o Loaded(p, hold) =
          (IF p.out_valid THEN SubSeq(old, 1, Word) ELSE <<>>) \o Kept(n)
    BY <1>8, <2>2, <2>4, <2>5, <2>6, BitsNone
  <2> QED
    BY <1>2, <1>5, <2>1, <2>2, <2>7, <2>8, <2>9 DEF n, old
<1> QED
  BY <1>9, <1>10

(* Half of a code, and parts of it.                                        *)
LEMMA HalfIs ==
  ASSUME NEW data \in Bits, Len(data) = 2 * Word
  PROVE  /\ SubSeq(data, 1, Word) \in Bits /\ Len(SubSeq(data, 1, Word)) = Word
         /\ SubSeq(data, Word + 1, 2 * Word) \in Bits /\ Len(SubSeq(data, Word + 1, 2 * Word)) = Word
         /\ \A n \in 0 .. Word :
              /\ SubSeq(SubSeq(data, 1, Word), 1, n) = SubSeq(data, 1, n)
              /\ ClearFrom(data, n) => ClearFrom(SubSeq(data, 1, Word), n)
         /\ \A n \in Word .. 2 * Word :
              /\ SubSeq(SubSeq(data, Word + 1, 2 * Word), 1, n - Word) = SubSeq(data, Word + 1, n)
              /\ ClearFrom(data, n) => ClearFrom(SubSeq(data, Word + 1, 2 * Word), n - Word)
<1> DEFINE a == SubSeq(data, 1, Word)
           b == SubSeq(data, Word + 1, 2 * Word)
<1>0. Word \in Nat /\ Word <= Len(data) /\ 2 * Word \in Nat /\ Word <= 2 * Word /\ 2 * Word - Word = Word
  BY WordSizes
<1>1. a \in Bits /\ Len(a) = Word /\ \A i \in 1 .. Word : a[i] = data[i]
  BY <1>0, BitsFront
<1>2. b \in Bits /\ Len(b) = Word /\ \A i \in 1 .. Word : b[i] = data[Word + i]
  <2>1. \A n \in Nat : Word <= n /\ n <= Len(data) =>
          LET part == SubSeq(data, Word + 1, n)
          IN  part \in Bits /\ Len(part) = n - Word /\ \A i \in 1 .. n - Word : part[i] = data[Word + i]
    BY <1>0, BitsPart
  <2>2. 2 * Word <= Len(data)
    BY <1>0
  <2>3. b \in Bits /\ Len(b) = 2 * Word - Word /\ \A i \in 1 .. 2 * Word - Word : b[i] = data[Word + i]
    BY <1>0, <2>1, <2>2
  <2> QED
    BY <1>0, <2>3
<1> HIDE DEF a, b
<1>3. ASSUME NEW n \in 0 .. Word
      PROVE  SubSeq(a, 1, n) = SubSeq(data, 1, n) /\ (ClearFrom(data, n) => ClearFrom(a, n))
  <2>1. n \in Nat /\ n <= Len(a) /\ n <= Len(data)
    BY <1>0, <1>1
  <2>2. SubSeq(a, 1, n) \in Bits /\ Len(SubSeq(a, 1, n)) = n /\ \A i \in 1 .. n : SubSeq(a, 1, n)[i] = a[i]
    BY <1>1, <2>1, BitsFront
  <2>3. /\ SubSeq(data, 1, n) \in Bits /\ Len(SubSeq(data, 1, n)) = n
        /\ \A i \in 1 .. n : SubSeq(data, 1, n)[i] = data[i]
    BY <2>1, BitsFront
  <2>4. \A i \in 1 .. n : i \in 1 .. Word
    BY <1>0
  <2>5. SubSeq(a, 1, n) = SubSeq(data, 1, n)
    BY <1>1, <2>2, <2>3, <2>4, BitsSame
  <2>6. ClearFrom(data, n) => ClearFrom(a, n)
    BY <1>0, <1>1 DEF ClearFrom
  <2> QED
    BY <2>5, <2>6
<1>4. ASSUME NEW n \in Word .. 2 * Word
      PROVE  SubSeq(b, 1, n - Word) = SubSeq(data, Word + 1, n) /\ (ClearFrom(data, n) => ClearFrom(b, n - Word))
  <2>1. n \in Nat /\ n - Word \in Nat /\ n - Word <= Len(b) /\ n <= Len(data) /\ Word <= n
    BY <1>0, <1>2
  <2>2. /\ SubSeq(b, 1, n - Word) \in Bits /\ Len(SubSeq(b, 1, n - Word)) = n - Word
        /\ \A i \in 1 .. n - Word : SubSeq(b, 1, n - Word)[i] = b[i]
    BY <1>2, <2>1, BitsFront
  <2>3. /\ SubSeq(data, Word + 1, n) \in Bits /\ Len(SubSeq(data, Word + 1, n)) = n - Word
        /\ \A i \in 1 .. n - Word : SubSeq(data, Word + 1, n)[i] = data[Word + i]
    BY <1>0, <2>1, BitsPart
  <2>4. \A i \in 1 .. n - Word : i \in 1 .. Word
    BY <1>0
  <2>5. SubSeq(b, 1, n - Word) = SubSeq(data, Word + 1, n)
    <3> DEFINE u == SubSeq(b, 1, n - Word)
               v == SubSeq(data, Word + 1, n)
               k == n - Word
    <3>1. u \in Bits /\ v \in Bits /\ Len(u) = k /\ Len(v) = k /\ \A i \in 1 .. k : u[i] = v[i]
      BY <1>2, <2>2, <2>3, <2>4
    <3> HIDE DEF u, v, k
    <3>2. u = v
      BY <3>1, BitsSame
    <3> QED
      BY <3>2 DEF u, v
  <2>6. ASSUME ClearFrom(data, n), NEW i \in (n - Word) + 1 .. Len(b) PROVE b[i] = 0
    <3>1. i \in 1 .. Word /\ Word + i \in n + 1 .. Len(data)
      BY <1>0, <1>2, <2>1
    <3> QED
      BY <1>2, <2>6, <3>1 DEF ClearFrom
  <2>7. ClearFrom(data, n) => ClearFrom(b, n - Word)
    BY <2>6 DEF ClearFrom
  <2> QED
    BY <2>5, <2>7
<1> QED
  BY <1>1, <1>2, <1>3, <1>4 DEF a, b

LEMMA RestType ==
  ASSUME NEW p, NEW in, NEW e, IsPacker(p, in, e)
  PROVE  /\ Kept(p) \in Bits /\ Len(Kept(p)) = p.bit_count
         /\ Waiting(p) \in Bits /\ Coming(p, in) \in Bits
<1>1. p \in BitPackers /\ p.bit_packer \in Bits /\ p.in32_data \in Bits /\ Len(p.in32_data) = Word
      /\ Len(p.bit_packer) = 2 * Word /\ p.bit_count \in Nat /\ p.bit_count < 2 * Word
      /\ p.in32_nbits \in 0 .. Word /\ Word \in Nat
  BY WordSizes DEF IsPacker, Shape, BitPackers
<1>2. in.data \in Bits /\ Len(in.data) = 2 * Word /\ in.nbits \in 0 .. 2 * Word
  BY DEF IsPacker, IsPort, Ports
<1>3. Kept(p) \in Bits /\ Len(Kept(p)) = p.bit_count
  BY <1>1, BitsFront DEF Kept
<1>4. Waiting(p) \in Bits
  <2>1. p.in32_nbits \in Nat /\ p.in32_nbits <= Len(p.in32_data)
    BY <1>1
  <2> QED
    BY <1>1, <2>1, BitsFront, BitsNone DEF Waiting
<1>5. Coming(p, in) \in Bits
  <2>1. in.nbits \in Nat /\ in.nbits <= Len(in.data)
    BY <1>1, <1>2
  <2>2. p.long_in => Word <= in.nbits
    BY <1>1, <1>2 DEF IsPacker, IsIn32
  <2>3. SubSeq(in.data, 1, in.nbits) \in Bits
    BY <1>2, <2>1, BitsFront
  <2>4. p.long_in => SubSeq(in.data, Word + 1, in.nbits) \in Bits
    BY <1>1, <1>2, <2>1, <2>2, BitsPart
  <2> QED
    BY <2>3, <2>4, BitsNone DEF Coming
<1> QED
  BY <1>3, <1>4, <1>5

LEMMA NewType ==
  ASSUME NEW p, NEW in, NEW hold, NEW in2, IsPort(in2)
  PROVE  New(p, in, hold, in2) \in Bits
<1>1. in2.data \in Bits /\ in2.nbits \in Nat /\ in2.nbits <= Len(in2.data)
  BY WordSizes DEF IsPort, Ports
<1>2. SubSeq(in2.data, 1, in2.nbits) \in Bits
  BY <1>1, BitsFront
<1> QED
  BY <1>2, BitsNone DEF New

(* What is waiting or coming goes on to the packer or stays, in order.     *)
LEMMA AlignStream ==
  ASSUME NEW p, NEW in, NEW e, NEW hold, NEW in2, NEW e2,
         IsPacker(p, in, e), IsPort(in2), PortStep(p, in, e, hold, in2, e2)
  PROVE  LET n == BitPack(p, in, hold)
         IN  /\ n.in32_data \in Bits /\ Len(n.in32_data) = Word /\ n.in32_nbits \in 0 .. Word
             /\ {n.in32_tlast, n.in32_valid, n.long_in} \subseteq BOOLEAN
             /\ IsIn32(n, in2)
             /\ Waiting(p) \o (Coming(p, in) \o New(p, in, hold, in2)) =
                  Loaded(p, hold) \o (Waiting(n) \o Coming(n, in2))
<1> DEFINE n == BitPack(p, in, hold)
           a == Align(p, in, hold)
           new == New(p, in, hold, in2)
<1>1. p \in BitPackers /\ p.in32_data \in Bits /\ Len(p.in32_data) = Word /\ p.in32_nbits \in 0 .. Word
      /\ Word \in Nat /\ Word > 0 /\ {p.in32_tlast, p.in32_valid, p.long_in} \subseteq BOOLEAN
  BY WordSizes DEF IsPacker, Shape, BitPackers
<1>2. /\ in.data \in Bits /\ Len(in.data) = 2 * Word /\ in.nbits \in 0 .. 2 * Word
      /\ {in.valid, in.tlast, in2.valid, in2.tlast} \subseteq BOOLEAN
      /\ in.valid => in.nbits > 0 /\ (in.tlast \/ ClearFrom(in.data, in.nbits))
  BY DEF IsPacker, IsPort, Ports
<1>3. /\ n.in32_data = a.in32_data /\ n.in32_nbits = a.in32_nbits /\ n.in32_tlast = a.in32_tlast
      /\ n.in32_valid = a.in32_valid /\ n.long_in = a.long_in
  BY <1>1, BitPackIs
<1>4. Waiting(p) \in Bits /\ Coming(p, in) \in Bits /\ new \in Bits
  BY RestType, NewType
<1>5. p.long_in => in.valid /\ in.nbits > Word
  BY DEF IsPacker, IsIn32
<1>6. p.in32_valid => p.in32_nbits > 0 /\ (p.in32_tlast \/ ClearFrom(p.in32_data, p.in32_nbits))
  BY DEF IsPacker, IsIn32
<1>7. CASE In32Hold(p, hold) /\ p.in32_valid
  <2>1. /\ n.in32_data = p.in32_data /\ n.in32_nbits = p.in32_nbits /\ n.in32_tlast = p.in32_tlast
        /\ n.in32_valid = p.in32_valid /\ n.long_in = p.long_in
    BY <1>3, <1>7, AlignHolds
  <2>2. ~Loads(p, hold) /\ (IsHeld(p, in, hold) <=> in.valid)
    BY <1>2, <1>7 DEF Loads, IsHeld, InHold
  <2>3. IsIn32(n, in2) /\ Coming(p, in) \o new = Coming(n, in2)
    <3>1. CASE in.valid
      <4>1. in2 = in
        BY <2>2, <3>1 DEF PortStep
      <4>2. new = <<>>
        BY <2>2, <3>1 DEF New
      <4>3. Coming(n, in2) = Coming(p, in)
        BY <2>1, <4>1 DEF Coming
      <4> HIDE DEF n, new
      <4> QED
        BY <1>4, <1>5, <1>6, <2>1, <4>1, <4>2, <4>3, BitsNone DEF IsIn32
    <3>2. CASE ~in.valid
      <4>1. ~n.long_in
        BY <1>5, <2>1, <3>2
      <4>2. Coming(p, in) = <<>>
        BY <3>2 DEF Coming
      <4>3. Coming(n, in2) = new
        BY <2>2, <3>2, <4>1 DEF Coming, New
      <4> HIDE DEF n, new
      <4> QED
        BY <1>4, <1>6, <2>1, <4>1, <4>2, <4>3, BitsNone DEF IsIn32
    <3> QED
      BY <3>1, <3>2
  <2>4. Waiting(n) = Waiting(p) /\ Loaded(p, hold) = <<>>
    BY <2>1, <2>2 DEF Waiting, Loaded
  <2> HIDE DEF n, new
  <2>5. Waiting(p) \o Coming(n, in2) = <<>> \o (Waiting(p) \o Coming(n, in2))
    <3>1. Coming(n, in2) \in Bits
      BY <1>4, <2>3, BitsJoin
    <3>2. Waiting(p) \o Coming(n, in2) \in Bits
      BY <1>4, <3>1, BitsJoin
    <3> QED
      BY <3>2, BitsNone
  <2> QED
    BY <1>1, <2>1, <2>3, <2>4, <2>5 DEF n, new
<1>8. CASE ~(In32Hold(p, hold) /\ p.in32_valid)
  <2>1. /\ n.in32_valid = in.valid /\ n.long_in = (~p.long_in /\ in.valid /\ in.nbits > Word)
        /\ p.long_in =>
             /\ n.in32_nbits = in.nbits - Word /\ n.in32_tlast = in.tlast
             /\ n.in32_data = SubSeq(in.data, Word + 1, 2 * Word)
        /\ ~p.long_in /\ in.valid =>
             /\ n.in32_nbits = IF in.nbits > Word THEN Word ELSE in.nbits
             /\ n.in32_tlast = (in.tlast /\ in.nbits <= Word)
             /\ n.in32_data = SubSeq(in.data, 1, Word)
        /\ ~p.long_in /\ ~in.valid =>
             n.in32_nbits = p.in32_nbits /\ n.in32_tlast = p.in32_tlast /\ n.in32_data = p.in32_data
    BY <1>1, <1>3, <1>8, AlignIs
  <2>2. IsHeld(p, in, hold) <=> in.valid /\ ~p.long_in /\ in.nbits > Word
    BY <1>8 DEF IsHeld, InHold
  <2>3. Loaded(p, hold) = Waiting(p)
    BY <1>8 DEF Loaded, Loads, Waiting
  <2>4. /\ n.in32_data \in Bits /\ Len(n.in32_data) = Word /\ n.in32_nbits \in 0 .. Word
        /\ {n.in32_tlast, n.in32_valid, n.long_in} \subseteq BOOLEAN
        /\ IsIn32(n, in2)
        /\ Coming(p, in) \o new = Waiting(n) \o Coming(n, in2)
    <3> HIDE DEF n, a, new
    <3>1. CASE p.long_in
      <4>1. in.nbits \in Word .. 2 * Word /\ in.nbits - Word \in 0 .. Word /\ in.nbits - Word > 0
        BY <1>1, <1>2, <1>5, <3>1
      <4>2. /\ n.in32_valid /\ ~n.long_in /\ n.in32_nbits = in.nbits - Word /\ n.in32_tlast = in.tlast
            /\ n.in32_data = SubSeq(in.data, Word + 1, 2 * Word) /\ in.valid
        BY <1>5, <2>1, <3>1
      <4>3. /\ n.in32_data \in Bits /\ Len(n.in32_data) = Word
            /\ SubSeq(n.in32_data, 1, n.in32_nbits) = SubSeq(in.data, Word + 1, in.nbits)
            /\ ClearFrom(in.data, in.nbits) => ClearFrom(n.in32_data, n.in32_nbits)
        <5> DEFINE m == in.nbits
                   d == in.data
                   half == SubSeq(d, Word + 1, 2 * Word)
        <5>1. d \in Bits /\ Len(d) = 2 * Word /\ m \in Word .. 2 * Word
          BY <1>2, <4>1
        <5> HIDE DEF m, d
        <5>2. /\ half \in Bits /\ Len(half) = Word /\ SubSeq(half, 1, m - Word) = SubSeq(d, Word + 1, m)
              /\ ClearFrom(d, m) => ClearFrom(half, m - Word)
          BY <5>1, HalfIs
        <5> QED
          BY <4>2, <5>2 DEF m, d
      <4>4. Waiting(n) = Coming(p, in)
        BY <3>1, <4>2, <4>3 DEF Waiting, Coming
      <4>5. Coming(n, in2) = new
        BY <2>2, <3>1, <4>2 DEF Coming, New, new
      <4> QED
        BY <1>2, <2>1, <4>1, <4>2, <4>3, <4>4, <4>5 DEF IsIn32
    <3>2. CASE ~p.long_in /\ in.valid /\ ~(in.nbits > Word)
      <4>1. in.nbits \in 0 .. Word /\ in.nbits > 0
        BY <1>1, <1>2, <3>2
      <4>2. /\ n.in32_valid /\ ~n.long_in /\ n.in32_nbits = in.nbits /\ n.in32_tlast = in.tlast
            /\ n.in32_data = SubSeq(in.data, 1, Word)
        <5>1. in.nbits <= Word /\ in.tlast \in BOOLEAN
          BY <1>1, <1>2, <4>1
        <5>2. (in.tlast /\ in.nbits <= Word) = in.tlast
          BY <5>1
        <5> QED
          BY <2>1, <3>2, <5>2
      <4>3. /\ n.in32_data \in Bits /\ Len(n.in32_data) = Word
            /\ SubSeq(n.in32_data, 1, n.in32_nbits) = SubSeq(in.data, 1, in.nbits)
            /\ ClearFrom(in.data, in.nbits) => ClearFrom(n.in32_data, n.in32_nbits)
        BY <1>2, <4>1, <4>2, HalfIs
      <4>4. Waiting(n) = Coming(p, in)
        BY <3>2, <4>2, <4>3 DEF Waiting, Coming
      <4>5. Coming(n, in2) = new
        BY <2>2, <3>2, <4>2 DEF Coming, New, new
      <4> QED
        BY <1>2, <2>1, <3>2, <4>1, <4>2, <4>3, <4>4, <4>5 DEF IsIn32
    <3>3. CASE ~p.long_in /\ in.valid /\ in.nbits > Word
      <4>1. Word \in 0 .. Word /\ in.nbits \in Nat /\ in.nbits <= Len(in.data) /\ Word <= in.nbits
        BY <1>1, <1>2, <3>3
      <4>2. /\ n.in32_valid /\ n.long_in /\ n.in32_nbits = Word /\ n.in32_tlast = FALSE
            /\ n.in32_data = SubSeq(in.data, 1, Word)
        <5>1. ~(in.nbits <= Word)
          BY <1>1, <3>3, <4>1
        <5>2. (in.tlast /\ in.nbits <= Word) = FALSE
          BY <5>1
        <5> QED
          BY <2>1, <3>3, <5>2
      <4>3. /\ n.in32_data \in Bits /\ Len(n.in32_data) = Word
            /\ SubSeq(n.in32_data, 1, n.in32_nbits) = SubSeq(in.data, 1, Word)
        <5> DEFINE d == in.data
                   half == SubSeq(d, 1, Word)
        <5>1. d \in Bits /\ Len(d) = 2 * Word
          BY <1>2
        <5> HIDE DEF d
        <5>2. half \in Bits /\ Len(half) = Word /\ SubSeq(half, 1, Word) = SubSeq(d, 1, Word)
          BY <4>1, <5>1, HalfIs
        <5> QED
          BY <4>2, <5>2 DEF d
      <4>4. ClearFrom(n.in32_data, n.in32_nbits)
        BY <1>1, <4>2, <4>3 DEF ClearFrom
      <4>5. in2 = in /\ new = <<>>
        BY <2>2, <3>3 DEF PortStep, New, new
      <4>6. /\ Coming(n, in2) = SubSeq(in.data, Word + 1, in.nbits) /\ Waiting(n) = SubSeq(in.data, 1, Word)
            /\ Coming(p, in) = SubSeq(in.data, 1, in.nbits)
        BY <3>3, <4>2, <4>3, <4>5 DEF Coming, Waiting
      <4>7. SubSeq(in.data, 1, Word) \o SubSeq(in.data, Word + 1, in.nbits) = SubSeq(in.data, 1, in.nbits)
        BY <1>1, <1>2, <4>1, BitsAdjacent
      <4>8. Coming(p, in) \o new = Waiting(n) \o Coming(n, in2)
        BY <1>4, <4>5, <4>6, <4>7, BitsNone
      <4>9. IsIn32(n, in2)
        BY <1>1, <3>3, <4>2, <4>4, <4>5 DEF IsIn32
      <4> QED
        BY <1>1, <4>1, <4>2, <4>3, <4>8, <4>9
    <3>4. CASE ~p.long_in /\ ~in.valid
      <4>1. /\ ~n.in32_valid /\ ~n.long_in /\ n.in32_nbits = p.in32_nbits /\ n.in32_tlast = p.in32_tlast
            /\ n.in32_data = p.in32_data
        BY <2>1, <3>4
      <4>2. Coming(p, in) = <<>> /\ Waiting(n) = <<>> /\ Coming(n, in2) = new
        BY <2>2, <3>4, <4>1 DEF Coming, Waiting, New, new
      <4> QED
        BY <1>1, <2>1, <1>2, <4>1, <4>2 DEF IsIn32
    <3> QED
      BY <3>1, <3>2, <3>3, <3>4
  <2> HIDE DEF n, a, new
  <2> QED
    BY <2>3, <2>4 DEF n, new
<1> QED
  BY <1>7, <1>8

(* The flags of the output, after a clock.                                 *)
LEMMA OutStep ==
  ASSUME NEW p, NEW in, NEW e, NEW hold, IsPacker(p, in, e)
  PROVE  LET n == BitPack(p, in, hold)
         IN  /\ Shape(p) /\ n.bit_count \in Nat /\ n.bit_count < 2 * Word /\ n.bit_packer \in Bits
             /\ Len(n.bit_packer) = 2 * Word /\ n.out_nbytes \in Nat
             /\ {n.tlast_cycle, n.out_tlast, n.out_valid} \subseteq BOOLEAN
             /\ IsOut(n)
<1> DEFINE n == BitPack(p, in, hold)
           b == Pack(p, hold)
<1>1. p \in BitPackers /\ Shape(p) /\ IsOut(p)
  BY DEF IsPacker, Shape
<1>2. /\ n.bit_count = b.bit_count /\ n.bit_packer = b.bit_packer /\ n.tlast_cycle = b.tlast_cycle
      /\ n.out_tlast = b.out_tlast /\ n.out_valid = b.out_valid /\ n.out_nbytes = b.out_nbytes
  BY <1>1, BitPackIs
<1>3. CASE hold /\ p.out_valid
  <2>1. b = p
    BY <1>3, PackHolds
  <2> HIDE DEF n, b
  <2>2. /\ n.bit_count = p.bit_count /\ n.bit_packer = p.bit_packer /\ n.tlast_cycle = p.tlast_cycle
        /\ n.out_tlast = p.out_tlast /\ n.out_valid = p.out_valid /\ n.out_nbytes = p.out_nbytes
    BY <1>2, <2>1
  <2>3. IsOut(n)
    BY <1>1, <2>2 DEF IsOut
  <2>4. /\ p.bit_count \in Nat /\ p.bit_count < 2 * Word /\ p.bit_packer \in Bits
        /\ Len(p.bit_packer) = 2 * Word /\ p.out_nbytes \in Nat
        /\ {p.tlast_cycle, p.out_tlast, p.out_valid} \subseteq BOOLEAN
    BY <1>1 DEF Shape, BitPackers
  <2> QED
    BY <1>1, <2>2, <2>3, <2>4 DEF n
<1>4. CASE ~(hold /\ p.out_valid)
  <2>1. /\ n.tlast_cycle = NextTlastCycle(p) /\ n.bit_count = Counted(p, hold)
        /\ n.out_tlast = (NextTlastCycle(p) /\ Counted(p, hold) <= Word)
        /\ n.out_valid = ((NextTlastCycle(p) /\ Counted(p, hold) <= Word) \/ Counted(p, hold) >= Word)
        /\ n.out_nbytes = IF NextTlastCycle(p) /\ Counted(p, hold) <= Word
                            THEN (Counted(p, hold) + Byte - 1) \div Byte ELSE Word \div Byte
    BY <1>1, <1>2, <1>4, PackIs
  <2>2. n.bit_packer \in Bits /\ Len(n.bit_packer) = 2 * Word
    BY <1>4, PackStream
  <2>3. /\ Counted(p, hold) \in Nat /\ Counted(p, hold) < 2 * Word /\ Place(p) \in Nat
        /\ ~p.out_tlast => Place(p) + Shift(p) = p.bit_count /\ Shift(p) \in {0, Word}
        /\ p.bit_count \in Nat /\ Word \in Nat /\ Word > 0 /\ Byte \in Nat /\ Byte > 0
    BY Places, WordSizes
  <2>4. NextTlastCycle(p) \in BOOLEAN
    BY DEF NextTlastCycle
  <2>5. NextTlastCycle(p) => Counted(p, hold) > 0
    <3>1. CASE p.tlast_cycle
      <4>1. NextTlastCycle(p) => ~p.out_tlast
        BY <3>1 DEF NextTlastCycle
      <4>2. NextTlastCycle(p) => p.bit_count > Word
        BY <1>1, <2>3, <3>1, <4>1 DEF IsOut
      <4>3. NextTlastCycle(p) => Place(p) > 0
        BY <2>3, <4>1, <4>2
      <4> QED
        BY <2>3, <4>3, Places DEF Counted
    <3>2. CASE ~p.tlast_cycle
      <4>1. NextTlastCycle(p) => Loads(p, hold)
        BY <1>4, <3>2 DEF NextTlastCycle, Loads, In32Hold
      <4>2. Loads(p, hold) => p.in32_nbits \in 1 .. Word
        BY Places
      <4> QED
        BY <2>3, <4>1, <4>2 DEF Counted
    <3> QED
      BY <3>1, <3>2
  <2>6. n.out_nbytes \in Nat
    <3>1. Word \div Byte \in Nat /\ \A x \in Nat : x \div Byte \in Nat
      BY <2>3
    <3>2. Counted(p, hold) + Byte - 1 \in Nat
      BY <2>3
    <3> HIDE DEF n
    <3>3. n.out_nbytes = (Counted(p, hold) + Byte - 1) \div Byte \/ n.out_nbytes = Word \div Byte
      BY <2>1
    <3> QED
      BY <3>1, <3>2, <3>3
  <2> HIDE DEF n, b
  <2>7. IsOut(n)
    BY <2>1, <2>3, <2>4, <2>5 DEF IsOut
  <2> QED
    BY <1>1, <2>1, <2>2, <2>3, <2>4, <2>6, <2>7 DEF n
<1> QED
  BY <1>3, <1>4

(* Where the last code is, after a clock.                                  *)
LEMMA EndStep ==
  ASSUME NEW p, NEW in, NEW e \in BOOLEAN, NEW hold, NEW in2, NEW e2 \in BOOLEAN,
         IsPacker(p, in, e), IsPort(in2), PortStep(p, in, e, hold, in2, e2)
  PROVE  LET n == BitPack(p, in, hold)
         IN  /\ IsEnd(n, in2, e2)
             /\ p.out_tlast /\ ~hold => Drained(n, in2) /\ e /\ e2 /\ New(p, in, hold, in2) = <<>>
             /\ e /\ Drained(p, in) => Drained(n, in2)
             /\ e /\ HasLast(p, in) /\ ~(p.out_tlast /\ ~hold) => HasLast(n, in2)
             /\ ~e /\ e2 => HasLast(n, in2)
             /\ e => e2
<1> DEFINE n == BitPack(p, in, hold)
           b == Pack(p, hold)
           a == Align(p, in, hold)
<1>1. p \in BitPackers /\ IsOut(p) /\ IsEnd(p, in, e) /\ IsIn32(p, in)
  BY DEF IsPacker, Shape
<1>2. /\ n.in32_valid = a.in32_valid /\ n.in32_tlast = a.in32_tlast /\ n.long_in = a.long_in
      /\ n.tlast_cycle = b.tlast_cycle /\ n.bit_count = b.bit_count /\ n.bit_packer = b.bit_packer
  BY <1>1, BitPackIs
<1>3. CASE hold /\ p.out_valid
  <2>1. b = p
    BY <1>3, PackHolds
  <2>2. n.tlast_cycle = p.tlast_cycle /\ n.bit_count = p.bit_count /\ n.bit_packer = p.bit_packer
    BY <1>2, <2>1
  <2>3. In32Hold(p, hold)
    BY <1>3 DEF In32Hold
  <2>4. p.bit_count # 0
    BY <1>1, <1>3, WordSizes DEF IsOut
  <2>5. ~Drained(p, in)
    BY <2>4 DEF Drained
  <2>6. CASE p.in32_valid
    <3>1. n.in32_valid = p.in32_valid /\ n.in32_tlast = p.in32_tlast
      BY <1>2, <2>3, <2>6, AlignHolds
    <3>2. IsHeld(p, in, hold) <=> in.valid
      BY <1>1, <2>3, <2>6 DEF IsHeld, InHold, IsPacker, IsPort, Ports
    <3> HIDE DEF n, a, b
    <3>3. CASE in.valid
      <4>1. in2 = in /\ e2 = e
        BY <3>2, <3>3 DEF PortStep
      <4> QED
        BY <1>1, <1>3, <2>2, <2>5, <3>1, <4>1 DEF IsEnd, HasLast, Drained, n
    <3>4. CASE ~in.valid
      <4> QED
        BY <1>1, <1>3, <2>2, <2>5, <2>6, <3>1, <3>2, <3>4 DEF IsEnd, HasLast, Drained, PortStep, n
    <3> QED
      BY <3>3, <3>4
  <2>7. CASE ~p.in32_valid
    <3>1. /\ n.in32_valid = in.valid
          /\ p.long_in => n.in32_tlast = in.tlast
          /\ ~p.long_in /\ in.valid => n.in32_tlast = (in.tlast /\ in.nbits <= Word)
      BY <1>1, <1>2, <2>7, AlignIs
    <3>2. IsHeld(p, in, hold) <=> in.valid /\ ~p.long_in /\ in.nbits > Word
      BY <2>7 DEF IsHeld, InHold
    <3>3. p.long_in => in.valid
      BY <1>1 DEF IsIn32
    <3>4. in.nbits \in Nat /\ Word \in Nat /\ (in.nbits <= Word <=> ~(in.nbits > Word))
      BY WordSizes DEF IsPacker, IsPort, Ports
    <3> HIDE DEF n, a, b
    <3>5. CASE IsHeld(p, in, hold)
      <4>1. in2 = in /\ e2 = e /\ ~n.in32_tlast
        BY <3>1, <3>2, <3>4, <3>5 DEF PortStep
      <4> QED
        BY <1>1, <1>3, <2>2, <2>5, <2>7, <3>1, <3>2, <3>5, <4>1 DEF IsEnd, HasLast, Drained, n
    <3>6. CASE ~IsHeld(p, in, hold)
      <4>1. in.valid => (n.in32_tlast <=> in.tlast)
        BY <3>1, <3>2, <3>4, <3>6
      <4> QED
        BY <1>1, <1>3, <2>2, <2>5, <2>7, <3>1, <3>6, <4>1 DEF IsEnd, HasLast, Drained, PortStep, n
    <3> QED
      BY <3>5, <3>6
  <2> QED
    BY <2>6, <2>7
<1>4. CASE ~(hold /\ p.out_valid)
  <2>1. n.tlast_cycle = NextTlastCycle(p) /\ n.bit_count = Counted(p, hold)
    BY <1>1, <1>2, <1>4, PackIs
  <2>2. ~p.tlast_cycle /\ ClearFrom(p.bit_packer, p.bit_count) => n.tlast_cycle \/ ClearFrom(n.bit_packer, n.bit_count)
    BY <1>4, PackStream
  <2>3. /\ p.out_tlast => Counted(p, hold) = 0
        /\ p.bit_count = 0 /\ ~p.in32_valid => Counted(p, hold) = 0
    <3>1. p.out_tlast => Counted(p, hold) = 0
      BY Places
    <3>2. ASSUME p.bit_count = 0, ~p.in32_valid PROVE Counted(p, hold) = 0
      <4>1. (~Loads(p, hold) /\ Place(p) + Shift(p) = 0) \/ p.out_tlast
        BY <3>2, Places DEF Loads
      <4>2. Place(p) \in Nat /\ Shift(p) \in Nat
        BY Places
      <4> QED
        BY <3>1, <4>1, <4>2 DEF Counted
    <3> QED
      BY <3>1, <3>2
  <2>4. p.out_tlast => p.tlast_cycle
    BY <1>1 DEF IsOut
  <2>5. NextTlastCycle(p) <=> (p.tlast_cycle /\ ~p.out_tlast) \/ (~p.tlast_cycle /\ p.in32_valid /\ p.in32_tlast)
    BY DEF NextTlastCycle
  <2>6. In32Hold(p, hold) <=> p.tlast_cycle /\ ~p.out_tlast
    BY <1>4 DEF In32Hold
  <2>7. ~(In32Hold(p, hold) /\ p.in32_valid)
    BY <1>1, <2>6 DEF IsEnd
  <2>8. /\ n.in32_valid = in.valid
        /\ p.long_in => n.in32_tlast = in.tlast
        /\ ~p.long_in /\ in.valid => n.in32_tlast = (in.tlast /\ in.nbits <= Word)
    BY <1>1, <1>2, <2>7, AlignIs
  <2>9. IsHeld(p, in, hold) <=> in.valid /\ ~p.long_in /\ in.nbits > Word
    BY <2>7 DEF IsHeld, InHold
  <2>10. p.long_in => in.valid
    BY <1>1 DEF IsIn32
  <2>11. in.nbits \in Nat /\ Word \in Nat /\ (in.nbits <= Word <=> ~(in.nbits > Word))
    BY WordSizes DEF IsPacker, IsPort, Ports
  <2>12. IsHeld(p, in, hold) => in2 = in /\ e2 = e /\ ~n.in32_tlast
    BY <2>8, <2>9, <2>11 DEF PortStep
  <2>13. ~IsHeld(p, in, hold) => (in.valid => (n.in32_tlast <=> in.tlast))
    BY <2>8, <2>9, <2>11
  <2>14. ~IsHeld(p, in, hold) => \/ ~in2.valid /\ e2 = e
                                 \/ ~e /\ in2.valid /\ e2 = in2.tlast
    BY DEF PortStep
  <2>15. IsHeld(p, in, hold) => in.valid
    BY DEF IsHeld
  <2>16. p.out_tlast => New(p, in, hold, in2) = <<>>
    <3>1. p.out_tlast => e /\ ~in.valid
      BY <1>1, <2>4 DEF IsEnd, HasLast
    <3> QED
      BY <2>14, <2>15, <3>1 DEF New
  <2> HIDE DEF n, a, b
  <2>17. p.out_tlast => Drained(n, in2) /\ e /\ e2
    BY <1>1, <2>1, <2>3, <2>4, <2>5, <2>8, <2>14, <2>15 DEF IsEnd, HasLast, Drained
  <2>18. e /\ Drained(p, in) => Drained(n, in2)
    BY <1>1, <2>1, <2>3, <2>5, <2>8, <2>14, <2>15 DEF Drained
  <2>19. e /\ HasLast(p, in) /\ ~p.out_tlast => HasLast(n, in2)
    BY <1>1, <2>1, <2>5, <2>8, <2>12, <2>13, <2>14, <2>15 DEF IsEnd, HasLast
  <2>20. (~e /\ e2 => HasLast(n, in2)) /\ (e => e2)
    BY <2>12, <2>14 DEF HasLast
  <2>21. HasLast(n, in2) => e2
    BY <1>1, <2>1, <2>5, <2>8, <2>12, <2>13, <2>14, <2>15 DEF IsEnd, HasLast
  <2>22. e2 => HasLast(n, in2) \/ Drained(n, in2)
    BY <1>1, <2>17, <2>18, <2>19, <2>20 DEF IsEnd
  <2>23. n.tlast_cycle => ~n.in32_valid /\ ~in2.valid
    BY <1>1, <2>1, <2>5, <2>8, <2>14, <2>15 DEF IsEnd, HasLast
  <2>24. n.in32_valid /\ n.in32_tlast => ~in2.valid
    BY <1>1, <2>8, <2>12, <2>13, <2>14 DEF IsEnd, HasLast
  <2>25. (~e2 \/ HasLast(n, in2)) /\ ~n.tlast_cycle => ClearFrom(n.bit_packer, n.bit_count)
    <3>1. SUFFICES ASSUME ~e2 \/ HasLast(n, in2), ~n.tlast_cycle
                   PROVE  ClearFrom(n.bit_packer, n.bit_count)
      OBVIOUS
    <3>2. ~Drained(n, in2) \/ ~e2
      BY <3>1 DEF HasLast, Drained
    <3>3. ~p.out_tlast
      BY <2>17, <3>2
    <3>4. ~p.tlast_cycle
      BY <2>1, <2>5, <3>1, <3>3
    <3>5. ~e \/ HasLast(p, in)
      BY <1>1, <2>18, <2>20, <3>2 DEF IsEnd
    <3> QED
      BY <1>1, <2>2, <3>1, <3>4, <3>5 DEF IsEnd
  <2>26. IsEnd(n, in2, e2)
    BY <2>21, <2>22, <2>23, <2>24, <2>25 DEF IsEnd
  <2>27. p.out_tlast /\ ~hold => p.out_tlast
    OBVIOUS
  <2>28. p.out_tlast => ~hold
    BY <1>1, <1>4 DEF IsOut
  <2> QED
    BY <2>16, <2>17, <2>18, <2>19, <2>20, <2>26, <2>28 DEF n
<1> QED
  BY <1>3, <1>4

(* A word leaves, or none, and nothing is lost or comes twice.             *)
WordOut(p, hold) == IF p.out_valid /\ ~hold THEN SubSeq(p.bit_packer, 1, Word) ELSE <<>>
Flows(p, in, hold, in2, n) ==
  /\ p.out_tlast /\ ~hold => Rest(p, in) = Kept(p) /\ Rest(n, in2) = <<>>
  /\ ~(p.out_tlast /\ ~hold) => Rest(p, in) \o New(p, in, hold, in2) = WordOut(p, hold) \o Rest(n, in2)

LEMMA PackerStep ==
  ASSUME NEW p, NEW in, NEW e \in BOOLEAN, NEW hold, NEW in2, NEW e2 \in BOOLEAN,
         IsPacker(p, in, e), IsPort(in2), PortStep(p, in, e, hold, in2, e2)
  PROVE  IsPacker(BitPack(p, in, hold), in2, e2) /\ Flows(p, in, hold, in2, BitPack(p, in, hold))
<1> DEFINE n == BitPack(p, in, hold)
           b == Pack(p, hold)
           a == Align(p, in, hold)
           new == New(p, in, hold, in2)
           word == IF p.out_valid /\ ~hold THEN SubSeq(p.bit_packer, 1, Word) ELSE <<>>
<1>1. p \in BitPackers /\ IsOut(p) /\ IsEnd(p, in, e) /\ Len(p.bit_packer) = 2 * Word /\ p.bit_packer \in Bits
  BY DEF IsPacker, Shape, BitPackers
<1>2. /\ n.bit_count \in Nat /\ n.bit_count < 2 * Word /\ n.bit_packer \in Bits
      /\ Len(n.bit_packer) = 2 * Word /\ n.out_nbytes \in Nat
      /\ n.tlast_cycle \in BOOLEAN /\ n.out_tlast \in BOOLEAN /\ n.out_valid \in BOOLEAN
      /\ IsOut(n)
  BY OutStep
<1>3. /\ n.in32_data \in Bits /\ Len(n.in32_data) = Word /\ n.in32_nbits \in 0 .. Word
      /\ {n.in32_tlast, n.in32_valid, n.long_in} \subseteq BOOLEAN
      /\ IsIn32(n, in2)
  BY AlignStream
<1>a. Waiting(p) \o (Coming(p, in) \o new) = Loaded(p, hold) \o (Waiting(n) \o Coming(n, in2))
  BY AlignStream, SMTT(30)
<1>4. /\ IsEnd(n, in2, e2)
      /\ p.out_tlast /\ ~hold => Drained(n, in2)
  BY EndStep
<1>5. n \in BitPackers
  <2>1. n = [in32_data |-> a.in32_data, in32_nbits |-> a.in32_nbits, in32_tlast |-> a.in32_tlast,
             in32_valid |-> a.in32_valid, long_in |-> a.long_in, bit_count |-> b.bit_count,
             bit_packer |-> b.bit_packer, tlast_cycle |-> b.tlast_cycle,
             out_tlast |-> b.out_tlast, out_valid |-> b.out_valid, out_nbytes |-> b.out_nbytes]
    BY <1>1, BitPackIs
  <2>2. /\ n.in32_data = a.in32_data /\ n.in32_nbits = a.in32_nbits /\ n.in32_tlast = a.in32_tlast
        /\ n.in32_valid = a.in32_valid /\ n.long_in = a.long_in
        /\ n.bit_count = b.bit_count /\ n.bit_packer = b.bit_packer /\ n.tlast_cycle = b.tlast_cycle
        /\ n.out_tlast = b.out_tlast /\ n.out_valid = b.out_valid /\ n.out_nbytes = b.out_nbytes
    BY <1>1, BitPackIs
  <2> HIDE DEF n, a, b
  <2> QED
    BY <1>2, <1>3, <2>1, <2>2 DEF BitPackers
<1>6. IsPacker(n, in2, e2)
  <2> HIDE DEF n
  <2> QED
    BY <1>2, <1>3, <1>4, <1>5 DEF IsPacker, Shape
<1>7. /\ Kept(p) \in Bits /\ Waiting(p) \in Bits /\ Coming(p, in) \in Bits /\ new \in Bits
      /\ Kept(n) \in Bits /\ Waiting(n) \in Bits /\ Coming(n, in2) \in Bits
  <2>1. Kept(p) \in Bits /\ Waiting(p) \in Bits /\ Coming(p, in) \in Bits
    BY RestType
  <2> HIDE DEF n
  <2>2. Kept(n) \in Bits /\ Waiting(n) \in Bits /\ Coming(n, in2) \in Bits
    BY <1>6, RestType
  <2>3. new \in Bits
    BY NewType
  <2> QED
    BY <2>1, <2>2, <2>3
<1>8. Loaded(p, hold) \in Bits /\ word \in Bits
  <2>1. SubSeq(p.bit_packer, 1, Word) \in Bits
    BY <1>1, WordSizes, BitsFront
  <2> QED
    BY <1>7, <2>1, BitsNone DEF Loaded
<1>9. ASSUME p.out_tlast, ~hold PROVE Rest(p, in) = Kept(p) /\ Rest(n, in2) = <<>>
  <2>1. p.tlast_cycle /\ ~p.in32_valid /\ ~in.valid
    BY <1>1, <1>9 DEF IsOut, IsEnd
  <2>2. Waiting(p) = <<>> /\ Coming(p, in) = <<>>
    BY <2>1 DEF Waiting, Coming
  <2> HIDE DEF n
  <2>3. ~n.in32_valid /\ ~in2.valid /\ n.bit_count = 0
    BY <1>4, <1>9 DEF Drained
  <2>4. Waiting(n) = <<>> /\ Coming(n, in2) = <<>> /\ Kept(n) = <<>>
    BY <2>3, BitsNone DEF Waiting, Coming, Kept
  <2> QED
    BY <1>7, <2>2, <2>4, BitsNone DEF Rest
<1>10. ASSUME ~(p.out_tlast /\ ~hold) PROVE Rest(p, in) \o new = word \o Rest(n, in2)
  <2>1. Kept(p) \o Loaded(p, hold) = word \o Kept(n)
    <3>1. CASE hold /\ p.out_valid
      <4>1. In32Hold(p, hold)
        BY <3>1 DEF In32Hold
      <4>2. Loaded(p, hold) = <<>> /\ word = <<>>
        BY <3>1, <4>1 DEF Loaded, Loads
      <4>3. n.bit_count = p.bit_count /\ n.bit_packer = p.bit_packer
        <5>1. b = p
          BY <3>1, PackHolds
        <5>2. n.bit_count = b.bit_count /\ n.bit_packer = b.bit_packer
          BY <1>1, BitPackIs
        <5> HIDE DEF n, b
        <5> QED
          BY <5>1, <5>2
      <4> HIDE DEF n, word
      <4> QED
        BY <1>7, <4>2, <4>3, BitsNone DEF Kept
    <3>2. CASE ~(hold /\ p.out_valid)
      <4>1. ~p.out_tlast
        <5>1. p.out_tlast => p.out_valid
          BY <1>1 DEF IsOut
        <5> QED
          BY <1>10, <3>2, <5>1
      <4>2. Kept(p) \o Loaded(p, hold) =
              (IF p.out_valid THEN SubSeq(p.bit_packer, 1, Word) ELSE <<>>) \o Kept(n)
        BY <3>2, <4>1, PackStream
      <4>3. word = IF p.out_valid THEN SubSeq(p.bit_packer, 1, Word) ELSE <<>>
        BY <3>2
      <4> HIDE DEF n, word
      <4> QED
        BY <4>2, <4>3
    <3> QED
      BY <3>1, <3>2
  <2> DEFINE k == Kept(p)
             w == Waiting(p)
             c == Coming(p, in)
             l == Loaded(p, hold)
             k2 == Kept(n)
             w2 == Waiting(n)
             c2 == Coming(n, in2)
  <2>2. k \in Bits /\ w \in Bits /\ c \in Bits /\ new \in Bits /\ l \in Bits /\ k2 \in Bits
        /\ w2 \in Bits /\ c2 \in Bits /\ word \in Bits
    BY <1>7, <1>8
  <2>3. k \o l = word \o k2 /\ w \o (c \o new) = l \o (w2 \o c2)
    BY <1>a, <2>1
  <2>4. Rest(p, in) = k \o (w \o c) /\ Rest(n, in2) = k2 \o (w2 \o c2)
    BY DEF Rest
  <2> HIDE DEF n, new, word, k, w, c, l, k2, w2, c2
  <2>a. k \in Bits /\ l \in Bits
    BY <2>2
  <2>b. w \in Bits /\ c \in Bits /\ new \in Bits
    BY <2>2
  <2>c. word \in Bits /\ k2 \in Bits
    BY <2>2
  <2>d. k \in Bits /\ new \in Bits
    BY <2>2
  <2> DEFINE u == w \o c
             v == w2 \o c2
  <2>6. u \in Bits
    BY ONLY <2>2, BitsJoin
  <2>7. v \in Bits
    BY ONLY <2>2, BitsJoin
  <2>8. u \o new = w \o (c \o new)
    BY ONLY <2>b, BitsAssoc
  <2>9. u \o new = l \o v
    BY <2>3, <2>8
  <2> HIDE DEF u, v
  <2>10. (k \o u) \o new = k \o (u \o new)
    BY ONLY <2>d, <2>6, BitsAssoc
  <2>11. (k \o l) \o v = k \o (l \o v)
    BY ONLY <2>a, <2>7, BitsAssoc
  <2>12. (word \o k2) \o v = word \o (k2 \o v)
    BY ONLY <2>c, <2>7, BitsAssoc
  <2>13. (k \o u) \o new = word \o (k2 \o v)
    BY <2>3, <2>9, <2>10, <2>11, <2>12
  <2> QED
    BY <2>4, <2>13 DEF u, v
<1> HIDE DEF n
<1>11. Flows(p, in, hold, in2, n)
  BY <1>9, <1>10 DEF Flows, WordOut, word, new
<1> QED
  BY <1>6, <1>11 DEF n

(* The word that leaves.                                                   *)
LEMMA OutDataIs ==
  ASSUME NEW p, NEW in, NEW e, IsPacker(p, in, e), p.out_valid
  PROVE  /\ OutData(p) \in Bits /\ Len(OutData(p)) = Word
         /\ ~p.out_tlast => OutData(p) = SubSeq(p.bit_packer, 1, Word)
         /\ p.out_tlast => /\ p.bit_count \in 1 .. Word
                           /\ OutData(p) = Kept(p) \o Ones(Word - p.bit_count)
<1> DEFINE s == p.bit_packer
           n == p.bit_count
<1>1. s \in Bits /\ Len(s) = 2 * Word /\ n \in Nat /\ Word \in Nat /\ Word > 0
  BY WordSizes DEF IsPacker, Shape, BitPackers
<1>2. \A i \in 1 .. Word : s[i] \in {0, 1}
  BY <1>1 DEF Bits
<1>3. /\ OutData(p) \in Bits /\ Len(OutData(p)) = Word
      /\ \A i \in 1 .. Word : OutData(p)[i] = IF p.out_tlast /\ i > n THEN 1 ELSE s[i]
  BY <1>1, <1>2 DEF OutData, Bits
<1>4. ASSUME ~p.out_tlast PROVE OutData(p) = SubSeq(s, 1, Word)
  <2>1. /\ SubSeq(s, 1, Word) \in Bits /\ Len(SubSeq(s, 1, Word)) = Word
        /\ \A i \in 1 .. Word : SubSeq(s, 1, Word)[i] = s[i]
    BY <1>1, BitsFront
  <2> QED
    BY <1>3, <1>4, <2>1, BitsSame
<1>5. ASSUME p.out_tlast PROVE n \in 1 .. Word /\ OutData(p) = Kept(p) \o Ones(Word - n)
  <2>1. n \in 1 .. Word
    BY <1>1, <1>5 DEF IsPacker, IsOut
  <2> DEFINE k == Kept(p)
             o == Ones(Word - n)
             d == OutData(p)
  <2>2. k \in Bits /\ Len(k) = n /\ \A i \in 1 .. n : k[i] = s[i]
    BY <1>1, <2>1, BitsFront DEF Kept
  <2>3. o \in Bits /\ Len(o) = Word - n /\ \A i \in 1 .. Word - n : o[i] = 1
    <3>1. Word - n \in Nat
      BY <1>1, <2>1
    <3> QED
      BY <3>1, BitsConst
  <2>4. d \in Bits /\ Len(d) = Word /\ \A i \in 1 .. Word : d[i] = IF i > n THEN 1 ELSE s[i]
    BY <1>3, <1>5
  <2> HIDE DEF k, o, d, s, n
  <2>5. k \o o \in Bits /\ Len(k \o o) = Word
    <3>1. k \o o \in Bits /\ Len(k \o o) = Len(k) + Len(o)
      BY <2>2, <2>3, BitsJoin
    <3> QED
      BY <1>1, <2>1, <2>2, <2>3, <3>1
  <2>6. (\A i \in 1 .. n : (k \o o)[i] = k[i]) /\ \A i \in 1 .. Word - n : (k \o o)[n + i] = o[i]
    BY <2>2, <2>3, BitsOfJoin
  <2>7. ASSUME NEW i \in 1 .. Word PROVE d[i] = (k \o o)[i]
    <3>1. CASE i <= n
      <4>1. i \in 1 .. n
        BY <1>1, <3>1
      <4> QED
        BY <2>2, <2>4, <2>6, <4>1
    <3>2. CASE i > n
      <4>1. i - n \in 1 .. Word - n /\ n + (i - n) = i
        BY <1>1, <3>2
      <4> QED
        BY <2>3, <2>4, <2>6, <3>2, <4>1
    <3>3. i <= n \/ i > n
      BY <1>1
    <3> QED
      BY ONLY <3>1, <3>2, <3>3, Zenon
  <2>8. d = k \o o
    BY <2>4, <2>5, <2>7, BitsSame
  <2> QED
    BY <2>1, <2>8 DEF d, k, o, n
<1> QED
  BY <1>3, <1>4, <1>5

-----------------------------------------------------------------------------
(* A set of numbers with 0 and each successor has all numbers.             *)
LEMMA AllNumbers ==
  ASSUME NEW S, 0 \in S, \A n \in Nat : n \in S => n + 1 \in S
  PROVE  Nat \subseteq S
<1> DEFINE bad == {n \in Nat : n \notin S}
<1> SUFFICES ASSUME bad # {} PROVE FALSE
  OBVIOUS
<1>1. PICK m \in bad : \A j \in bad : ~ (<<j, m>> \in OpToRel(<, Nat))
  <2>1. bad \subseteq Nat /\ bad # {}
    OBVIOUS
  <2> HIDE DEF bad
  <2> QED
    BY <2>1, NatLessThanWellFounded, WFMin
<1>2. m \in Nat /\ m # 0 /\ m - 1 \in Nat /\ m - 1 < m /\ (m - 1) + 1 = m
  OBVIOUS
<1>3. m - 1 \notin bad
  BY <1>1, <1>2 DEF OpToRel
<1>4. m - 1 \in S
  BY <1>2, <1>3
<1> QED
  BY <1>2, <1>4

(* What FlattenSeq is of one sequence more.                                *)
IsFlat(g, e, n) == g = [i \in 1 .. n |-> IF i = 1 THEN e[i] ELSE g[i - 1] \o e[i]]
FlatOf(e, n) == CHOOSE g : IsFlat(g, e, n)

LEMMA FlattenIsFlat ==
  ASSUME NEW e, NEW n, Len(e) = n
  PROVE  /\ n = 0 => FlattenSeq(e) = e
         /\ n # 0 => FlattenSeq(e) = FlatOf(e, n)[n]
BY Zenon DEF FlattenSeq, FlatOf, IsFlat

LEMMA FlatExists ==
  ASSUME NEW e
  PROVE  \A n \in Nat : \E g : IsFlat(g, e, n)
<1> DEFINE S == {n \in Nat : \E g : IsFlat(g, e, n)}
<1>1. 0 \in S
  <2> DEFINE g == [i \in 1 .. 0 |-> e]
  <2>1. IsFlat(g, e, 0)
    <3>1. \A i \in 1 .. 0 : FALSE
      OBVIOUS
    <3> QED
      BY <3>1 DEF IsFlat
  <2> QED
    BY <2>1
<1>2. ASSUME NEW n \in Nat, n \in S PROVE n + 1 \in S
  <2>1. PICK g : IsFlat(g, e, n)
    BY <1>2
  <2>2. \A i \in 1 .. n : g[i] = IF i = 1 THEN e[i] ELSE g[i - 1] \o e[i]
    BY <2>1 DEF IsFlat
  <2> DEFINE last == IF n = 0 THEN e[1] ELSE g[n] \o e[n + 1]
             h == [i \in 1 .. n + 1 |-> IF i = n + 1 THEN last ELSE g[i]]
  <2> HIDE DEF last
  <2>3. h = [i \in 1 .. n + 1 |-> h[i]] /\ h[n + 1] = last /\ \A i \in 1 .. n : h[i] = g[i]
    OBVIOUS
  <2> HIDE DEF h
  <2>4. ASSUME NEW i \in 1 .. n + 1
        PROVE  h[i] = IF i = 1 THEN e[i] ELSE h[i - 1] \o e[i]
    <3>1. CASE i \in 1 .. n
      <4>1. i # 1 => i - 1 \in 1 .. n
        BY <3>1
      <4> QED
        BY <2>2, <2>3, <3>1, <4>1
    <3>2. CASE i = n + 1
      <4>1. n # 0 => n \in 1 .. n /\ i # 1 /\ i - 1 = n
        BY <3>2
      <4>2. n = 0 => i = 1
        BY <3>2
      <4> QED
        BY <2>3, <3>2, <4>1, <4>2 DEF last
    <3>3. i \in 1 .. n \/ i = n + 1
      OBVIOUS
    <3> QED
      BY <3>1, <3>2, <3>3
  <2>5. IsFlat(h, e, n + 1)
    BY <2>3, <2>4 DEF IsFlat
  <2> QED
    BY <2>5
<1>3. Nat \subseteq S
  <2> HIDE DEF S
  <2> QED
    BY <1>1, <1>2, AllNumbers
<1> QED
  BY <1>3

LEMMA FlatIs ==
  ASSUME NEW e, NEW n \in Nat
  PROVE  \A i \in 1 .. n : FlatOf(e, n)[i] = IF i = 1 THEN e[i] ELSE FlatOf(e, n)[i - 1] \o e[i]
<1> DEFINE g == FlatOf(e, n)
<1>1. IsFlat(g, e, n)
  BY FlatExists DEF FlatOf
<1> HIDE DEF g
<1>2. \A i \in 1 .. n : g[i] = IF i = 1 THEN e[i] ELSE g[i - 1] \o e[i]
  BY <1>1 DEF IsFlat
<1> QED
  BY <1>2 DEF g

LEMMA FlatGrows ==
  ASSUME NEW e, NEW f, NEW n \in Nat, \A i \in 1 .. n : f[i] = e[i]
  PROVE  \A i \in 1 .. n : FlatOf(f, n)[i] = FlatOf(e, n + 1)[i]
<1> DEFINE g == FlatOf(f, n)
           h == FlatOf(e, n + 1)
           S == {k \in Nat : \A i \in 1 .. n : i <= k => g[i] = h[i]}
<1>1. \A i \in 1 .. n : g[i] = IF i = 1 THEN f[i] ELSE g[i - 1] \o f[i]
  BY FlatIs
<1>2. \A i \in 1 .. n + 1 : h[i] = IF i = 1 THEN e[i] ELSE h[i - 1] \o e[i]
  <2>1. n + 1 \in Nat
    OBVIOUS
  <2> QED
    BY <2>1, FlatIs
<1> HIDE DEF g, h
<1>3. 0 \in S
  OBVIOUS
<1>4. ASSUME NEW k \in Nat, k \in S PROVE k + 1 \in S
  <2>1. \A i \in 1 .. n : i <= k => g[i] = h[i]
    BY <1>4
  <2>2. ASSUME NEW i \in 1 .. n, i <= k + 1 PROVE g[i] = h[i]
    <3>1. CASE i = 1
      BY <1>1, <1>2, <3>1
    <3>2. CASE i # 1
      <4>1. i \in 1 .. n + 1 /\ i - 1 \in 1 .. n /\ i - 1 <= k
        BY <2>2, <3>2
      <4>2. g[i - 1] = h[i - 1]
        BY <2>1, <4>1
      <4> QED
        BY <1>1, <1>2, <3>2, <4>1, <4>2
    <3> QED
      BY <3>1, <3>2
  <2> QED
    BY <2>2
<1>5. Nat \subseteq S
  <2> HIDE DEF S
  <2> QED
    BY <1>3, <1>4, AllNumbers
<1>6. n \in S
  BY <1>5
<1> QED
  BY <1>6 DEF g, h

LEMMA FlattenNone ==
  ASSUME NEW e, e = [i \in 1 .. 0 |-> e[i]]
  PROVE  FlattenSeq(e) = <<>>
<1>1. e = <<>> /\ Len(e) = 0
  OBVIOUS
<1> QED
  BY <1>1, FlattenIsFlat

LEMMA FlattenStep ==
  ASSUME NEW n \in Nat, NEW e \in [1 .. n + 1 -> Bits], NEW f \in [1 .. n -> Bits],
         \A i \in 1 .. n : f[i] = e[i]
  PROVE  FlattenSeq(e) = FlattenSeq(f) \o e[n + 1]
<1>1. Len(e) = n + 1 /\ Len(f) = n
  OBVIOUS
<1>2. n + 1 # 0 /\ n + 1 \in 1 .. n + 1 /\ n + 1 \in Nat
  OBVIOUS
<1>3. FlattenSeq(e) = FlatOf(e, n + 1)[n + 1]
  BY <1>1, <1>2, FlattenIsFlat
<1>4. FlatOf(e, n + 1)[n + 1] = IF n + 1 = 1 THEN e[n + 1] ELSE FlatOf(e, n + 1)[n + 1 - 1] \o e[n + 1]
  BY ONLY <1>2, FlatIs
<1>5. CASE n = 0
  <2>1. FlattenSeq(f) = <<>>
    <3>1. f = [i \in 1 .. 0 |-> f[i]]
      BY <1>5
    <3> QED
      BY <3>1, FlattenNone
  <2>2. e[n + 1] \in Bits /\ n + 1 = 1
    BY <1>2, <1>5
  <2> QED
    BY <1>3, <1>4, <2>1, <2>2, BitsNone
<1>6. CASE n # 0
  <2>1. FlattenSeq(f) = FlatOf(f, n)[n]
    BY <1>1, <1>6, FlattenIsFlat
  <2>2. n \in 1 .. n /\ n + 1 # 1 /\ n + 1 - 1 = n
    BY <1>6
  <2>3. FlatOf(f, n)[n] = FlatOf(e, n + 1)[n]
    BY <2>2, FlatGrows
  <2> QED
    BY <1>3, <1>4, <2>1, <2>2, <2>3
<1> QED
  BY <1>5, <1>6

-----------------------------------------------------------------------------
(* Whole bytes and the zero bytes between them.                            *)
Escaped(byte) == byte \o IF byte = Ones(Byte) THEN Zeros(Byte) ELSE <<>>
Escapes(s, n) == FlattenSeq([i \in 1 .. n |-> Escaped(ByteOf(s, i))])
Ffs(s, n)     == {i \in 1 .. n : ByteOf(s, i) = Ones(Byte)}

Size(n) == n * Byte

LEMMA SizeStep ==
  ASSUME NEW n \in Nat
  PROVE  Size(n) \in Nat /\ Size(n + 1) = Size(n) + Byte /\ Byte \in Nat /\ Byte > 0
BY WordSizes DEF Size

LEMMA SizeSum ==
  ASSUME NEW m \in Nat, NEW n \in Nat
  PROVE  m + n \in Nat /\ Size(m + n) = Size(m) + Size(n)
BY WordSizes DEF Size

LEMMA SizeOrder ==
  ASSUME NEW m \in Nat, NEW n \in Nat, m <= n
  PROVE  Size(m) <= Size(n)
BY WordSizes DEF Size

LEMMA NoSize == Size(0) = 0
BY WordSizes DEF Size

LEMMA LenIsNat ==
  ASSUME NEW s \in Bits
  PROVE  Len(s) \in Nat
BY DEF Bits

LEMMA ByteIs ==
  ASSUME NEW s \in Bits, NEW k \in Nat, Size(k + 1) <= Len(s)
  PROVE  /\ ByteOf(s, k + 1) \in Bits /\ Len(ByteOf(s, k + 1)) = Byte
         /\ \A j \in 1 .. Byte : ByteOf(s, k + 1)[j] = s[Size(k) + j]
         /\ ByteOf(s, k + 1) = SubSeq(s, Size(k) + 1, Size(k) + Byte)
<1> DEFINE m == Size(k)
<1>1. m \in Nat /\ Size(k + 1) = m + Byte
  BY SizeStep
<1>2. ByteOf(s, k + 1) = SubSeq(s, m + 1, m + Byte)
  <2>1. (k + 1) - 1 = k
    OBVIOUS
  <2> QED
    BY <1>1, <2>1 DEF ByteOf, Size
<1> HIDE DEF m
<1>3. m + Byte \in Nat /\ m <= m + Byte /\ m + Byte <= Len(s) /\ (m + Byte) - m = Byte
  BY <1>1, WordSizes
<1> DEFINE n == m + Byte
<1>4. n \in Nat /\ m <= n /\ n <= Len(s) /\ n - m = Byte
  BY <1>3
<1>5. ByteOf(s, k + 1) = SubSeq(s, m + 1, n)
  BY <1>2
<1> HIDE DEF n
<1>6. /\ SubSeq(s, m + 1, n) \in Bits /\ Len(SubSeq(s, m + 1, n)) = Byte
      /\ \A i \in 1 .. Byte : SubSeq(s, m + 1, n)[i] = s[m + i]
  BY <1>1, <1>4, BitsPart
<1> QED
  BY <1>5, <1>6 DEF m, n

LEMMA EscapedIs ==
  ASSUME NEW b \in Bits, Len(b) = Byte
  PROVE  /\ Escaped(b) \in Bits
         /\ Len(Escaped(b)) = IF b = Ones(Byte) THEN Byte + Byte ELSE Byte
<1>1. Zeros(Byte) \in Bits /\ Len(Zeros(Byte)) = Byte
  BY WordSizes, BitsConst
<1>2. CASE b = Ones(Byte)
  <2>1. Escaped(b) = b \o Zeros(Byte)
    BY <1>2 DEF Escaped
  <2>2. b \o Zeros(Byte) \in Bits /\ Len(b \o Zeros(Byte)) = Len(b) + Len(Zeros(Byte))
    BY ONLY <1>1, b \in Bits, BitsJoin
  <2> QED
    BY <1>1, <1>2, <2>1, <2>2
<1>3. CASE b # Ones(Byte)
  BY <1>3, BitsNone DEF Escaped
<1> QED
  BY <1>2, <1>3

LEMMA EscapesStep ==
  ASSUME NEW s \in Bits, NEW n \in Nat, Size(n + 1) <= Len(s)
  PROVE  Escapes(s, n + 1) = Escapes(s, n) \o Escaped(ByteOf(s, n + 1))
<1> DEFINE e == [i \in 1 .. n + 1 |-> Escaped(ByteOf(s, i))]
           f == [i \in 1 .. n |-> Escaped(ByteOf(s, i))]
<1>1. ASSUME NEW i \in 1 .. n + 1 PROVE Escaped(ByteOf(s, i)) \in Bits
  <2>1. i - 1 \in Nat /\ (i - 1) + 1 = i /\ i <= n + 1 /\ n + 1 \in Nat /\ i \in Nat
    OBVIOUS
  <2>2. Size(i) <= Len(s)
    <3>1. Size(i) <= Size(n + 1)
      BY <2>1, SizeOrder
    <3>2. Size(i) \in Nat
      BY <2>1, SizeStep
    <3>3. Size(n + 1) \in Nat
      BY <2>1, SizeStep
    <3> QED
      BY <3>1, <3>2, <3>3, LenIsNat
  <2>3. ByteOf(s, i) \in Bits /\ Len(ByteOf(s, i)) = Byte
    <3>1. ByteOf(s, (i - 1) + 1) \in Bits /\ Len(ByteOf(s, (i - 1) + 1)) = Byte
      BY ONLY s \in Bits, <2>1, <2>2, ByteIs
    <3> QED
      BY ONLY <2>1, <3>1
  <2> QED
    BY <2>3, EscapedIs
<1>2. e \in [1 .. n + 1 -> Bits] /\ f \in [1 .. n -> Bits] /\ \A i \in 1 .. n : f[i] = e[i]
  BY <1>1
<1>3. e[n + 1] = Escaped(ByteOf(s, n + 1))
  OBVIOUS
<1> HIDE DEF e, f
<1>4. FlattenSeq(e) = FlattenSeq(f) \o e[n + 1]
  BY <1>2, FlattenStep
<1> QED
  BY <1>3, <1>4 DEF Escapes, e, f

LEMMA EscapesNone ==
  ASSUME NEW s
  PROVE  Escapes(s, 0) = <<>> /\ Ffs(s, 0) = {}
<1> DEFINE e == [i \in 1 .. 0 |-> Escaped(ByteOf(s, i))]
<1>1. e = [i \in 1 .. 0 |-> e[i]]
  OBVIOUS
<1> HIDE DEF e
<1>2. FlattenSeq(e) = <<>>
  BY <1>1, FlattenNone
<1> QED
  BY <1>2 DEF Escapes, Ffs, e

LEMMA EscapesAre ==
  ASSUME NEW s \in Bits
  PROVE  \A n \in Nat : Size(n) <= Len(s) =>
           /\ Escapes(s, n) \in Bits /\ Cardinality(Ffs(s, n)) \in 0 .. n /\ IsFiniteSet(Ffs(s, n))
           /\ Len(Escapes(s, n)) = Size(n + Cardinality(Ffs(s, n)))
<1> DEFINE Is(n) == /\ Escapes(s, n) \in Bits /\ Cardinality(Ffs(s, n)) \in 0 .. n /\ IsFiniteSet(Ffs(s, n))
                    /\ Len(Escapes(s, n)) = Size(n + Cardinality(Ffs(s, n)))
           S == {n \in Nat : Size(n) <= Len(s) => Is(n)}
<1>1. 0 \in S
  <2>1. Cardinality(Ffs(s, 0)) = 0 /\ IsFiniteSet(Ffs(s, 0))
    BY EscapesNone, FS_EmptySet
  <2>2. Len(Escapes(s, 0)) = 0 /\ Escapes(s, 0) \in Bits /\ Size(0 + 0) = 0
    BY EscapesNone, BitsNone, NoSize
  <2>3. Is(0)
    BY <2>1, <2>2
  <2> QED
    BY <2>3
<1>2. ASSUME NEW n \in Nat, n \in S, Size(n + 1) <= Len(s)
      PROVE  Is(n + 1)
  <2>1. Size(n) <= Len(s)
    <3>1. Size(n) \in Nat /\ Size(n + 1) = Size(n) + Byte /\ Byte \in Nat
      BY SizeStep
    <3> QED
      BY <1>2, <3>1, LenIsNat
  <2>2. Is(n)
    BY <1>2, <2>1
  <2> DEFINE b == ByteOf(s, n + 1)
             c == Cardinality(Ffs(s, n))
             d == Cardinality(Ffs(s, n + 1))
  <2>3. b \in Bits /\ Len(b) = Byte
    BY <1>2, ByteIs
  <2>4. Escapes(s, n + 1) = Escapes(s, n) \o Escaped(b)
    BY <1>2, EscapesStep
  <2>5. Escaped(b) \in Bits /\ Len(Escaped(b)) = IF b = Ones(Byte) THEN Byte + Byte ELSE Byte
    BY <2>3, EscapedIs
  <2>6. Escapes(s, n + 1) \in Bits /\ Len(Escapes(s, n + 1)) = Len(Escapes(s, n)) + Len(Escaped(b))
    BY ONLY <2>2, <2>4, <2>5, BitsJoin
  <2>7. Ffs(s, n + 1) = IF b = Ones(Byte) THEN Ffs(s, n) \cup {n + 1} ELSE Ffs(s, n)
    BY DEF Ffs
  <2>8. n + 1 \notin Ffs(s, n)
    BY DEF Ffs
  <2>9. d = (IF b = Ones(Byte) THEN c + 1 ELSE c) /\ IsFiniteSet(Ffs(s, n + 1)) /\ c \in 0 .. n
    BY <2>2, <2>7, <2>8, FS_AddElement
  <2>10. Len(Escapes(s, n)) = Size(n + c)
    BY <2>2
  <2> HIDE DEF b, c, d
  <2>a. n + c \in Nat /\ n + c + 1 \in Nat
    BY <2>9
  <2>b. Size(n + c) \in Nat /\ Size(n + c + 1) = Size(n + c) + Byte
    BY <2>a, SizeStep
  <2>c. Size(n + c + 1 + 1) = Size(n + c + 1) + Byte
    BY <2>a, SizeStep
  <2>11. Size(n + c) \in Nat /\ Size(n + c + 1) = Size(n + c) + Byte
         /\ Size(n + c + 1 + 1) = Size(n + c + 1) + Byte
    BY <2>b, <2>c
  <2>12. Len(Escapes(s, n + 1)) = Size(n + 1 + d)
    <3>1. CASE b = Ones(Byte)
      <4>1. n + 1 + d = n + c + 1 + 1
        BY <2>9, <3>1
      <4> QED
        BY <2>5, <2>6, <2>10, <2>11, <3>1, <4>1, WordSizes
    <3>2. CASE b # Ones(Byte)
      <4>1. n + 1 + d = n + c + 1
        BY <2>9, <3>2
      <4> QED
        BY <2>5, <2>6, <2>10, <2>11, <3>2, <4>1
    <3> QED
      BY <3>1, <3>2
  <2>13. d \in 0 .. n + 1
    BY <2>9
  <2> QED
    BY <2>6, <2>9, <2>12, <2>13 DEF d
<1>3. \A n \in Nat : n \in S => n + 1 \in S
  <2> HIDE DEF Is
  <2> QED
    BY <1>2
<1>4. Nat \subseteq S
  <2> HIDE DEF S
  <2> QED
    BY <1>1, <1>3, AllNumbers
<1> QED
  BY <1>4

(* Bytes behind whole bytes are escaped behind them.                       *)
LEMMA ByteOfJoin ==
  ASSUME NEW s \in Bits, NEW t \in Bits, NEW m \in Nat, Len(s) = Size(m)
  PROVE  /\ \A k \in 1 .. m : ByteOf(s \o t, k) = ByteOf(s, k)
         /\ \A k \in Nat : Size(k + 1) <= Len(t) => ByteOf(s \o t, m + k + 1) = ByteOf(t, k + 1)
<1> DEFINE u == s \o t
<1>1. u \in Bits /\ Len(u) = Len(s) + Len(t) /\ Len(s) \in Nat /\ Len(t) \in Nat
  BY BitsJoin
<1>2. (\A i \in 1 .. Len(s) : u[i] = s[i]) /\ \A i \in 1 .. Len(t) : u[Len(s) + i] = t[i]
  BY BitsOfJoin
<1> HIDE DEF u
<1>3. ASSUME NEW k \in 1 .. m PROVE ByteOf(u, k) = ByteOf(s, k)
  <2> DEFINE j == k - 1
  <2>1. j \in Nat /\ k = j + 1 /\ k <= m /\ k \in Nat
    OBVIOUS
  <2> HIDE DEF j
  <2>2. Size(j + 1) <= Len(s) /\ Size(j + 1) = Size(j) + Byte /\ Size(j) \in Nat
    BY <2>1, SizeStep, SizeOrder
  <2>3. Size(j + 1) <= Len(u)
    BY <1>1, <2>2, WordSizes
  <2>4. /\ ByteOf(s, j + 1) \in Bits /\ Len(ByteOf(s, j + 1)) = Byte
        /\ \A i \in 1 .. Byte : ByteOf(s, j + 1)[i] = s[Size(j) + i]
    BY <2>1, <2>2, ByteIs
  <2>5. /\ ByteOf(u, j + 1) \in Bits /\ Len(ByteOf(u, j + 1)) = Byte
        /\ \A i \in 1 .. Byte : ByteOf(u, j + 1)[i] = u[Size(j) + i]
    BY <1>1, <2>1, <2>3, ByteIs
  <2>6. \A i \in 1 .. Byte : Size(j) + i \in 1 .. Len(s)
    BY <1>1, <2>2, WordSizes
  <2>7. \A i \in 1 .. Byte : ByteOf(u, j + 1)[i] = ByteOf(s, j + 1)[i]
    BY <1>2, <2>4, <2>5, <2>6
  <2> QED
    BY <2>1, <2>4, <2>5, <2>7, BitsSame
<1>4. ASSUME NEW k \in Nat, Size(k + 1) <= Len(t) PROVE ByteOf(u, m + k + 1) = ByteOf(t, k + 1)
  <2>a. Size(k + 1) = Size(k) + Byte /\ Size(k) \in Nat /\ Size(m) \in Nat
    BY SizeStep
  <2>b. m + k \in Nat /\ Size(m + k) = Size(m) + Size(k)
    BY SizeSum
  <2>c. Size(m + k + 1) = Size(m + k) + Byte
    BY <2>b, SizeStep
  <2>1. /\ Size(k + 1) = Size(k) + Byte /\ Size(k) \in Nat
        /\ m + k \in Nat /\ Size(m + k) = Size(m) + Size(k)
        /\ Size(m + k + 1) = Size(m + k) + Byte
    BY <2>a, <2>b, <2>c
  <2>2. Size(m + k + 1) <= Len(u)
    BY <1>1, <1>4, <2>1, WordSizes
  <2>4. /\ ByteOf(t, k + 1) \in Bits /\ Len(ByteOf(t, k + 1)) = Byte
        /\ \A i \in 1 .. Byte : ByteOf(t, k + 1)[i] = t[Size(k) + i]
    BY <1>4, ByteIs
  <2>5. /\ ByteOf(u, m + k + 1) \in Bits /\ Len(ByteOf(u, m + k + 1)) = Byte
        /\ \A i \in 1 .. Byte : ByteOf(u, m + k + 1)[i] = u[Size(m + k) + i]
    BY <1>1, <2>1, <2>2, ByteIs
  <2>7. ASSUME NEW i \in 1 .. Byte PROVE ByteOf(u, m + k + 1)[i] = ByteOf(t, k + 1)[i]
    <3> DEFINE j == Size(k) + i
    <3>1. j \in 1 .. Len(t) /\ Size(m + k) + i = Len(s) + j
      BY <1>1, <1>4, <2>1, WordSizes, SMTT(30)
    <3>2. ByteOf(t, k + 1)[i] = t[j]
      BY <2>4
    <3> HIDE DEF j
    <3>3. ByteOf(u, m + k + 1)[i] = u[Len(s) + j]
      BY <2>5, <3>1
    <3> QED
      BY <1>2, <3>1, <3>2, <3>3
  <2> QED
    BY <2>4, <2>5, <2>7, BitsSame
<1> QED
  BY <1>3, <1>4 DEF u

LEMMA EscapesFront ==
  ASSUME NEW s \in Bits, NEW t \in Bits, NEW m \in Nat, Len(s) = Size(m)
  PROVE  Escapes(s \o t, m) = Escapes(s, m)
BY ByteOfJoin DEF Escapes

LEMMA EscapesJoin ==
  ASSUME NEW s \in Bits, NEW t \in Bits, NEW m \in Nat, Len(s) = Size(m)
  PROVE  \A n \in Nat : Size(n) <= Len(t) => Escapes(s \o t, m + n) = Escapes(s, m) \o Escapes(t, n)
<1> DEFINE u == s \o t
           a == Escapes(s, m)
           S == {n \in Nat : Size(n) <= Len(t) => Escapes(u, m + n) = a \o Escapes(t, n)}
<1>1. u \in Bits /\ Len(u) = Len(s) + Len(t) /\ Len(s) \in Nat /\ Len(t) \in Nat
  BY BitsJoin
<1>2. a \in Bits
  <2>1. Size(m) <= Len(s)
    BY <1>1
  <2> QED
    BY <2>1, EscapesAre
<1>3. 0 \in S
  <2>1. Escapes(u, m + 0) = a /\ Escapes(t, 0) = <<>>
    BY EscapesFront, EscapesNone
  <2> HIDE DEF a
  <2> QED
    BY <1>2, <2>1, BitsNone
<1>4. ASSUME NEW n \in Nat, n \in S, Size(n + 1) <= Len(t)
      PROVE  Escapes(u, m + (n + 1)) = a \o Escapes(t, n + 1)
  <2>a. Size(n + 1) = Size(n) + Byte /\ Size(n) \in Nat /\ Size(m) \in Nat
    BY SizeStep
  <2>b. m + n \in Nat /\ Size(m + n) = Size(m) + Size(n)
    BY SizeSum
  <2>c. Size(m + n + 1) = Size(m + n) + Byte
    BY <2>b, SizeStep
  <2>1. /\ Size(n + 1) = Size(n) + Byte /\ Size(n) \in Nat
        /\ m + n \in Nat /\ Size(m + n) = Size(m) + Size(n)
        /\ Size(m + n + 1) = Size(m + n) + Byte
    BY <2>a, <2>b, <2>c
  <2>2. Size(n) <= Len(t) /\ Size(m + n + 1) <= Len(u) /\ m + (n + 1) = m + n + 1
    BY <1>1, <1>4, <2>1, WordSizes
  <2>3. Escapes(u, m + n) = a \o Escapes(t, n)
    BY <1>4, <2>2
  <2> DEFINE b == ByteOf(t, n + 1)
             c == Escapes(t, n)
  <2>4. ByteOf(u, m + n + 1) = b
    BY <1>4, ByteOfJoin
  <2>5. b \in Bits /\ Len(b) = Byte
    BY <1>4, ByteIs
  <2>6. Escaped(b) \in Bits
    BY <2>5, EscapedIs
  <2>7. c \in Bits
    BY <2>2, EscapesAre
  <2>8. Escapes(t, n + 1) = c \o Escaped(b)
    BY <1>4, EscapesStep
  <2>9. Escapes(u, m + n + 1) = (a \o c) \o Escaped(b)
    <3>1. Escapes(u, m + n + 1) = Escapes(u, m + n) \o Escaped(ByteOf(u, m + n + 1))
      BY ONLY <1>1, <2>1, <2>2, EscapesStep
    <3> QED
      BY <2>3, <2>4, <3>1
  <2> HIDE DEF a, b, c, u
  <2>10. (a \o c) \o Escaped(b) = a \o (c \o Escaped(b))
    BY ONLY <1>2, <2>6, <2>7, BitsAssoc
  <2> QED
    BY <2>2, <2>8, <2>9, <2>10
<1>5. ASSUME NEW n \in Nat, n \in S PROVE n + 1 \in S
  <2> HIDE DEF u, a
  <2>1. Size(n + 1) <= Len(t) => Escapes(u, m + (n + 1)) = a \o Escapes(t, n + 1)
    BY <1>4, <1>5
  <2>2. n + 1 \in Nat
    OBVIOUS
  <2> QED
    BY ONLY <2>1, <2>2
<1>6. Nat \subseteq S
  <2> HIDE DEF S
  <2> QED
    BY <1>3, <1>5, AllNumbers
<1> QED
  BY <1>6

(* A bus begins with what is put on it, and is clear behind.               *)
LEMMA BusIs ==
  ASSUME NEW s \in Bits, NEW n \in Nat, Len(s) <= n
  PROVE  /\ Bus(s, n) \in Bits /\ Len(Bus(s, n)) = n /\ ClearFrom(Bus(s, n), Len(s))
         /\ \A m \in 0 .. Len(s) : SubSeq(Bus(s, n), 1, m) = SubSeq(s, 1, m)
         /\ SubSeq(Bus(s, n), 1, Len(s)) = s
<1> DEFINE z == Zeros(n)
           u == s \o z
           b == Bus(s, n)
           l == Len(s)
<1>1. z \in Bits /\ Len(z) = n /\ \A i \in 1 .. n : z[i] = 0
  BY BitsConst
<1>2. l \in Nat /\ l <= n
  BY LenIsNat
<1> HIDE DEF z
<1>3. u \in Bits /\ Len(u) = l + n
  BY <1>1, BitsJoin
<1>4. (\A i \in 1 .. l : u[i] = s[i]) /\ \A i \in 1 .. n : u[l + i] = z[i]
  BY <1>1, BitsOfJoin
<1> HIDE DEF u
<1>5. b = SubSeq(u, 1, n)
  BY DEF Bus, u, z
<1> HIDE DEF b
<1>6. b \in Bits /\ Len(b) = n /\ \A i \in 1 .. n : b[i] = u[i]
  <2>1. n <= Len(u)
    BY <1>2, <1>3
  <2> QED
    BY <1>3, <1>5, <2>1, BitsFront
<1>7. ASSUME NEW i \in l + 1 .. n PROVE b[i] = 0
  <2>1. i - l \in 1 .. n /\ l + (i - l) = i /\ i \in 1 .. n
    BY <1>2
  <2> QED
    BY <1>1, <1>4, <1>6, <2>1
<1>8. ASSUME NEW m \in 0 .. l PROVE SubSeq(b, 1, m) = SubSeq(s, 1, m)
  <2>1. m \in Nat /\ m <= n /\ m <= l
    BY <1>2
  <2>2. SubSeq(b, 1, m) \in Bits /\ Len(SubSeq(b, 1, m)) = m /\ \A i \in 1 .. m : SubSeq(b, 1, m)[i] = b[i]
    BY <1>6, <2>1, BitsFront
  <2>3. SubSeq(s, 1, m) \in Bits /\ Len(SubSeq(s, 1, m)) = m /\ \A i \in 1 .. m : SubSeq(s, 1, m)[i] = s[i]
    BY <2>1, BitsFront
  <2>4. \A i \in 1 .. m : b[i] = s[i]
    BY <1>4, <1>6, <2>1
  <2> QED
    BY <2>2, <2>3, <2>4, BitsSame
<1>9. SubSeq(s, 1, l) = s
  <2>1. SubSeq(s, 1, l) \in Bits /\ Len(SubSeq(s, 1, l)) = l /\ \A i \in 1 .. l : SubSeq(s, 1, l)[i] = s[i]
    BY <1>2, BitsFront
  <2> QED
    BY <2>1, BitsSame
<1>10. SubSeq(b, 1, l) = s
  BY <1>2, <1>8, <1>9
<1> QED
  BY <1>6, <1>7, <1>8, <1>10 DEF ClearFrom, b

(* A word is whole bytes.                                                  *)
LEMMA WordIsBytes ==
  /\ Word \div Byte \in Nat /\ Word \div Byte > 0 /\ Size(Word \div Byte) = Word
  /\ \A n \in 1 .. Word : (n + Byte - 1) \div Byte \in 1 .. Word \div Byte
<1>1. Word \div Byte \in Nat /\ Word = Byte * (Word \div Byte) + (Word % Byte)
  BY WordSizes
<1>2. Word = (Word \div Byte) * Byte
  BY <1>1, WordSizes
<1>3. Word \div Byte > 0
  BY <1>1, <1>2, WordSizes
<1>4. ASSUME NEW n \in 1 .. Word PROVE (n + Byte - 1) \div Byte \in 1 .. Word \div Byte
  <2> DEFINE quot == (n + Byte - 1) \div Byte
             w == Word \div Byte
             m == n + Byte - 1
  <2>1. m \in Nat /\ quot \in Nat /\ quot * Byte <= m /\ m < (quot + 1) * Byte
    BY WordSizes
  <2>2. quot > 0
    BY <2>1, WordSizes
  <2>3. quot * Byte < (w + 1) * Byte
    BY <1>1, <1>2, <2>1, WordSizes
  <2>4. quot \in Nat /\ w \in Nat /\ Byte \in Nat /\ Byte > 0
    BY <1>1, <2>1, WordSizes
  <2> HIDE DEF quot, w
  <2>5. quot <= w
    BY ONLY <2>3, <2>4
  <2> QED
    BY <2>2, <2>4, <2>5 DEF quot, w
<1> QED
  BY <1>1, <1>2, <1>3, <1>4 DEF Size

LEMMA StuffedIs ==
  ASSUME NEW data, NEW nbytes \in 1 .. Word \div Byte
  PROVE  StuffedBytes(data, nbytes) = nbytes + Cardinality(Ffs(data, nbytes))
<1>1. {i \in 1 .. Word \div Byte : IsFf(data, nbytes, i)} = Ffs(data, nbytes)
  BY WordIsBytes DEF IsFf, Ffs
<1> QED
  BY <1>1 DEF StuffedBytes

(* The bytes that count are escaped; those of the padding come behind.     *)
Element(data, nbytes, i) == ByteOf(data, i) \o IF IsFf(data, nbytes, i) THEN Zeros(Byte) ELSE <<>>
Elements(data, nbytes, n) == FlattenSeq([i \in 1 .. n |-> Element(data, nbytes, i)])

LEMMA ElementsAre ==
  ASSUME NEW data \in Bits, Len(data) = Word, NEW nbytes \in 1 .. Word \div Byte
  PROVE  \A j \in Nat : nbytes + j <= Word \div Byte =>
           \E tail \in Bits : /\ Len(tail) = Size(j)
                              /\ Elements(data, nbytes, nbytes + j) = Escapes(data, nbytes) \o tail
<1> DEFINE W == Word \div Byte
           a == Escapes(data, nbytes)
           S == {j \in Nat : nbytes + j <= W =>
                   \E tail \in Bits : /\ Len(tail) = Size(j)
                                      /\ Elements(data, nbytes, nbytes + j) = a \o tail}
<1>1. W \in Nat /\ W > 0 /\ Size(W) = Word
  BY WordIsBytes
<1> HIDE DEF W
<1>2. nbytes \in Nat /\ nbytes >= 1 /\ nbytes <= W
  BY <1>1 DEF W
<1>3. a \in Bits
  <2>1. Size(nbytes) <= Len(data)
    BY <1>1, <1>2, SizeOrder
  <2> QED
    BY <1>2, <2>1, EscapesAre
<1>4. ASSUME NEW k \in Nat, k + 1 <= W
      PROVE  /\ ByteOf(data, k + 1) \in Bits /\ Len(ByteOf(data, k + 1)) = Byte
             /\ Element(data, nbytes, k + 1) \in Bits
             /\ k + 1 > nbytes => Element(data, nbytes, k + 1) = ByteOf(data, k + 1)
             /\ k + 1 <= nbytes => Element(data, nbytes, k + 1) = Escaped(ByteOf(data, k + 1))
  <2>1. k + 1 \in Nat
    OBVIOUS
  <2>2. Size(k + 1) <= Len(data)
    BY <1>1, <1>4, <2>1, SizeOrder
  <2> DEFINE b == ByteOf(data, k + 1)
  <2>3. b \in Bits /\ Len(b) = Byte
    BY <2>2, ByteIs
  <2>4. Escaped(b) \in Bits
    BY <2>3, EscapedIs
  <2>5. b \o <<>> = b
    BY <2>3, BitsNone
  <2>6. k + 1 <= nbytes => Element(data, nbytes, k + 1) = Escaped(b)
    BY DEF Element, Escaped, IsFf
  <2>7. k + 1 > nbytes => Element(data, nbytes, k + 1) = b
    <3>1. k + 1 > nbytes => ~(k + 1 <= nbytes)
      BY <1>2
    <3> QED
      BY <2>5, <3>1 DEF Element, IsFf
  <2>8. k + 1 <= nbytes \/ k + 1 > nbytes
    BY <1>2
  <2> HIDE DEF b
  <2>9. Element(data, nbytes, k + 1) \in Bits
    BY <2>3, <2>4, <2>6, <2>7, <2>8
  <2> QED
    BY <2>3, <2>6, <2>7, <2>9 DEF b
<1>5. 0 \in S
  <2>1. \A i \in 1 .. nbytes : Element(data, nbytes, i) = Escaped(ByteOf(data, i))
    BY DEF Element, Escaped, IsFf
  <2>2. Elements(data, nbytes, nbytes) = a
    BY <2>1 DEF Elements, Escapes
  <2>3. nbytes + 0 = nbytes
    BY <1>2
  <2> HIDE DEF a
  <2>4. Elements(data, nbytes, nbytes + 0) = a \o <<>>
    BY <1>3, <2>2, <2>3, BitsNone
  <2> QED
    BY <2>4, BitsNone, NoSize
<1>6. ASSUME NEW j \in Nat, j \in S, nbytes + (j + 1) <= W
      PROVE  \E tail \in Bits : /\ Len(tail) = Size(j + 1)
                                /\ Elements(data, nbytes, nbytes + (j + 1)) = a \o tail
  <2> DEFINE k == nbytes + j
             b == ByteOf(data, k + 1)
             e == [i \in 1 .. k + 1 |-> Element(data, nbytes, i)]
             f == [i \in 1 .. k |-> Element(data, nbytes, i)]
  <2>1. k \in Nat /\ k + 1 <= W /\ k <= W /\ k + 1 > nbytes /\ nbytes + (j + 1) = k + 1
    BY <1>1, <1>2, <1>6
  <2>2. PICK tail \in Bits : Len(tail) = Size(j) /\ Elements(data, nbytes, k) = a \o tail
    BY <1>6, <2>1
  <2> HIDE DEF k
  <2>3. ASSUME NEW i \in 1 .. k + 1 PROVE Element(data, nbytes, i) \in Bits
    <3>1. i - 1 \in Nat /\ (i - 1) + 1 = i /\ i <= W
      BY <1>1, <2>1
    <3>2. Element(data, nbytes, (i - 1) + 1) \in Bits
      BY ONLY <3>1, <1>4
    <3> QED
      BY ONLY <3>1, <3>2
  <2>4. e \in [1 .. k + 1 -> Bits] /\ f \in [1 .. k -> Bits] /\ \A i \in 1 .. k : f[i] = e[i]
    BY <2>1, <2>3
  <2>5. b \in Bits /\ Len(b) = Byte /\ Element(data, nbytes, k + 1) = b
    BY <1>4, <2>1
  <2>6. e[k + 1] = b
    BY <2>1, <2>5
  <2>7. FlattenSeq(e) = Elements(data, nbytes, k + 1) /\ FlattenSeq(f) = Elements(data, nbytes, k)
    BY DEF Elements
  <2> HIDE DEF e, f, b, a
  <2>8. FlattenSeq(e) = FlattenSeq(f) \o e[k + 1]
    BY <2>1, <2>4, FlattenStep
  <2>9. Elements(data, nbytes, k + 1) = (a \o tail) \o b
    BY <2>2, <2>6, <2>7, <2>8
  <2>10. (a \o tail) \o b = a \o (tail \o b)
    BY ONLY <1>3, <2>2, <2>5, BitsAssoc
  <2>11. tail \o b \in Bits /\ Len(tail \o b) = Len(tail) + Len(b)
    BY ONLY <2>2, <2>5, BitsJoin
  <2>12. Len(tail \o b) = Size(j + 1)
    BY <2>2, <2>5, <2>11, SizeStep
  <2> QED
    BY <2>1, <2>9, <2>10, <2>11, <2>12
<1>7. ASSUME NEW j \in Nat, j \in S PROVE j + 1 \in S
  <2> HIDE DEF a
  <2>1. nbytes + (j + 1) <= W =>
          \E tail \in Bits : /\ Len(tail) = Size(j + 1)
                             /\ Elements(data, nbytes, nbytes + (j + 1)) = a \o tail
    BY <1>6, <1>7
  <2>2. j + 1 \in Nat
    OBVIOUS
  <2> QED
    BY ONLY <2>1, <2>2
<1>8. Nat \subseteq S
  <2> HIDE DEF S
  <2> QED
    BY <1>5, <1>7, AllNumbers
<1> QED
  BY <1>8 DEF W

LEMMA StuffIs ==
  ASSUME NEW data \in Bits, Len(data) = Word, NEW nbytes \in 1 .. Word \div Byte
  PROVE  LET n == Byte * StuffedBytes(data, nbytes)
         IN  /\ Stuff(data, nbytes) \in Bits /\ Len(Stuff(data, nbytes)) = 2 * Word
             /\ n \in 1 .. 2 * Word
             /\ SubSeq(Stuff(data, nbytes), 1, n) = Escapes(data, nbytes)
             /\ nbytes = Word \div Byte => ClearFrom(Stuff(data, nbytes), n)
<1> DEFINE W == Word \div Byte
           a == Escapes(data, nbytes)
           c == Cardinality(Ffs(data, nbytes))
           n == Byte * StuffedBytes(data, nbytes)
           s == Elements(data, nbytes, W)
<1>1. W \in Nat /\ W > 0 /\ Size(W) = Word
  BY WordIsBytes
<1> HIDE DEF W
<1>2. nbytes \in Nat /\ nbytes >= 1 /\ nbytes <= W
  BY <1>1 DEF W
<1>3. a \in Bits /\ c \in 0 .. nbytes /\ Len(a) = Size(nbytes + c)
  <2>1. Size(nbytes) <= Len(data)
    BY <1>1, <1>2, SizeOrder
  <2> QED
    BY <1>2, <2>1, EscapesAre
<1>4. n = Len(a)
  <2>1. StuffedBytes(data, nbytes) = nbytes + c
    BY StuffedIs
  <2> HIDE DEF c, a
  <2>2. nbytes + c \in Nat
    BY <1>2, <1>3
  <2>3. Byte * (nbytes + c) = (nbytes + c) * Byte
    BY <2>2, WordSizes
  <2> QED
    BY <1>3, <2>1, <2>3 DEF Size
<1>5. n \in Nat /\ n >= 1 /\ n <= Size(nbytes) + Size(nbytes)
  <2> HIDE DEF c
  <2>1. nbytes + c \in Nat /\ 1 <= nbytes + c /\ nbytes + c <= nbytes + nbytes /\ 1 \in Nat /\ 0 \in Nat
    BY <1>2, <1>3
  <2>2. Size(nbytes + c) <= Size(nbytes + nbytes)
    BY <1>2, <2>1, SizeOrder
  <2>3. Size(nbytes + nbytes) = Size(nbytes) + Size(nbytes)
    BY <1>2, SizeSum
  <2>4. Size(1) <= Size(nbytes + c)
    BY <2>1, SizeOrder
  <2>5. Size(1) = Byte /\ Byte \in Nat /\ Byte > 0
    BY WordSizes DEF Size
  <2>6. Size(nbytes + c) \in Nat
    BY <2>1, SizeStep
  <2> HIDE DEF n, a
  <2> QED
    BY <1>3, <1>4, <2>2, <2>3, <2>4, <2>5, <2>6
<1>6. PICK tail \in Bits : Len(tail) = Size(W - nbytes) /\ s = a \o tail
  <2> DEFINE j == W - nbytes
  <2>1. j \in Nat /\ nbytes + j = W /\ nbytes + j <= W
    BY <1>1, <1>2
  <2>2. nbytes + j <= Word \div Byte
    BY <2>1 DEF W
  <2> HIDE DEF j, a
  <2>3. \E tail \in Bits : Len(tail) = Size(j) /\ Elements(data, nbytes, nbytes + j) = a \o tail
    BY <2>1, <2>2, ElementsAre DEF a
  <2> QED
    BY <2>1, <2>3 DEF j
<1>7. Stuff(data, nbytes) = Bus(s, 2 * Word)
  BY DEF Stuff, Elements, Element, W
<1> HIDE DEF n, a, s, c
<1>8. s \in Bits /\ Len(s) = n + Len(tail)
  BY ONLY <1>3, <1>4, <1>6, BitsJoin
<1>9. Size(nbytes) + Size(W - nbytes) = Word /\ Size(nbytes) \in Nat /\ Size(W - nbytes) \in Nat
  <2>1. W - nbytes \in Nat /\ nbytes + (W - nbytes) = W
    BY <1>1, <1>2
  <2>2. Size(nbytes + (W - nbytes)) = Size(nbytes) + Size(W - nbytes)
    BY ONLY <1>2, <2>1, SizeSum
  <2>3. Size(nbytes) \in Nat
    BY <1>2, SizeStep
  <2>4. Size(W - nbytes) \in Nat
    BY <2>1, SizeStep
  <2> QED
    BY <1>1, <2>1, <2>2, <2>3, <2>4
<1>10. Len(s) <= 2 * Word /\ n <= 2 * Word /\ n <= Len(s) /\ Len(s) \in Nat
  BY <1>5, <1>6, <1>8, <1>9, WordSizes
<1>11. /\ Bus(s, 2 * Word) \in Bits /\ Len(Bus(s, 2 * Word)) = 2 * Word
       /\ ClearFrom(Bus(s, 2 * Word), Len(s))
       /\ SubSeq(Bus(s, 2 * Word), 1, n) = SubSeq(s, 1, n)
  <2>1. 2 * Word \in Nat /\ n \in 0 .. Len(s)
    BY <1>5, <1>10, WordSizes
  <2>2. s \in Bits /\ 2 * Word \in Nat /\ Len(s) <= 2 * Word /\ n \in 0 .. Len(s)
    BY <1>8, <1>10, <2>1
  <2> QED
    BY ONLY <2>2, BusIs
<1>12. SubSeq(s, 1, n) = a
  <2>1. SubSeq(s, 1, n) \in Bits /\ Len(SubSeq(s, 1, n)) = n /\ \A i \in 1 .. n : SubSeq(s, 1, n)[i] = s[i]
    BY <1>5, <1>8, <1>10, BitsFront
  <2>2. \A i \in 1 .. n : s[i] = a[i]
    <3>1. Len(a) = n /\ Len(tail) = Len(tail)
      BY <1>4
    <3>2. \A i \in 1 .. n : (a \o tail)[i] = a[i]
      BY <1>3, <3>1, BitsOfJoin
    <3> QED
      BY <1>6, <3>2
  <2> QED
    BY <1>3, <1>4, <2>1, <2>2, BitsSame
<1>13. nbytes = W => Len(s) = n
  <2>1. nbytes = W => W - nbytes = 0
    BY <1>1
  <2> QED
    BY <1>5, <1>6, <1>8, <2>1, NoSize
<1>14. n \in 1 .. 2 * Word
  BY <1>5, <1>10, WordSizes
<1> QED
  BY <1>7, <1>11, <1>12, <1>13, <1>14 DEF n, a, W

-----------------------------------------------------------------------------
(* The port of a packer's output: it has ended when the packer has given   *)
(* its last word.                                                          *)
LEMMA EndMoves ==
  ASSUME NEW p, NEW in, NEW e \in BOOLEAN, NEW hold, NEW in2, NEW e2 \in BOOLEAN,
         IsPacker(p, in, e), IsPort(in2), PortStep(p, in, e, hold, in2, e2)
  PROVE  LET n == BitPack(p, in, hold)
         IN  /\ (e2 /\ Drained(n, in2)) <=> (e /\ Drained(p, in)) \/ (p.out_tlast /\ ~hold)
             /\ e /\ Drained(p, in) => ~p.out_valid /\ ~p.out_tlast
<1> DEFINE n == BitPack(p, in, hold)
<1>1. /\ p.out_tlast /\ ~hold => Drained(n, in2) /\ e /\ e2
      /\ e /\ Drained(p, in) => Drained(n, in2)
      /\ e /\ HasLast(p, in) /\ ~(p.out_tlast /\ ~hold) => HasLast(n, in2)
      /\ ~e /\ e2 => HasLast(n, in2)
      /\ e => e2
  BY EndStep
<1> HIDE DEF n
<1>2. HasLast(n, in2) => ~Drained(n, in2)
  BY DEF HasLast, Drained
<1>3. HasLast(p, in) => ~Drained(p, in)
  BY DEF HasLast, Drained
<1>4. e => HasLast(p, in) \/ Drained(p, in)
  BY DEF IsPacker, IsEnd
<1>5. e /\ Drained(p, in) => ~p.out_valid /\ ~p.out_tlast
  <2>1. p.out_tlast => p.tlast_cycle
    BY DEF IsPacker, IsOut
  <2>2. p.out_valid => p.out_tlast \/ p.bit_count >= Word
    BY DEF IsPacker, IsOut
  <2>3. p.bit_count = 0 => ~(p.bit_count >= Word)
    BY WordSizes
  <2> QED
    BY <2>1, <2>2, <2>3 DEF Drained
<1> QED
  BY <1>1, <1>2, <1>3, <1>4, <1>5 DEF n

(* The word of the packer has at least one byte, all bytes if it is not    *)
(* the last.                                                               *)
LEMMA OutBytes ==
  ASSUME NEW p, NEW in, NEW e, IsPacker(p, in, e), p.out_valid
  PROVE  /\ p.out_nbytes \in 1 .. Word \div Byte
         /\ ~p.out_tlast => p.out_nbytes = Word \div Byte
<1>1. /\ p.out_nbytes = IF p.out_tlast THEN (p.bit_count + Byte - 1) \div Byte ELSE Word \div Byte
      /\ p.out_tlast => p.bit_count \in 1 .. Word
  BY OutDataIs DEF IsPacker, IsOut
<1> QED
  BY <1>1, WordIsBytes

LEMMA Ff00Step ==
  ASSUME NEW p, NEW in, NEW e, NEW f, NEW held \in BOOLEAN,
         IsPacker(p, in, e), IsPort(f), held => f.valid
  PROVE  LET f2 == Ff00(f, p, held)
         IN  /\ IsPort(f2)
             /\ held => f2 = f
             /\ ~held => f2.valid = p.out_valid
             /\ ~held /\ p.out_valid =>
                  /\ f2.tlast = p.out_tlast
                  /\ SubSeq(f2.data, 1, f2.nbits) = Escapes(OutData(p), p.out_nbytes)
<1> DEFINE f2 == Ff00(f, p, held)
<1>1. f \in Ports /\ Len(f.data) = 2 * Word /\ p.out_valid \in BOOLEAN
  BY DEF IsPort, IsPacker, Shape, BitPackers
<1>2. CASE held
  <2>1. f2 = f
    BY <1>1, <1>2 DEF Ff00
  <2> QED
    BY <1>2, <2>1
<1>3. CASE ~held /\ ~p.out_valid
  <2>1. f2 = [f EXCEPT !.valid = FALSE]
    BY <1>3 DEF Ff00
  <2>2. f2 \in Ports /\ Len(f2.data) = 2 * Word /\ f2.valid = FALSE
    BY <2>1 DEF IsPort, Ports
  <2> HIDE DEF f2
  <2>3. IsPort(f2)
    BY <2>2 DEF IsPort
  <2> QED
    BY <1>1, <1>3, <2>2, <2>3 DEF f2
<1>4. CASE ~held /\ p.out_valid
  <2> DEFINE d == OutData(p)
             k == p.out_nbytes
             m == Byte * StuffedBytes(d, k)
  <2>1. d \in Bits /\ Len(d) = Word /\ k \in 1 .. Word \div Byte
    BY <1>4, OutDataIs, OutBytes
  <2>2. /\ Stuff(d, k) \in Bits /\ Len(Stuff(d, k)) = 2 * Word
        /\ m \in 1 .. 2 * Word
        /\ SubSeq(Stuff(d, k), 1, m) = Escapes(d, k)
        /\ k = Word \div Byte => ClearFrom(Stuff(d, k), m)
    <3> HIDE DEF d, k
    <3> QED
      BY <2>1, StuffIs
  <2>3. f2 = [data |-> Stuff(d, k), tlast |-> p.out_tlast, valid |-> TRUE, nbits |-> m]
    BY <1>4 DEF Ff00
  <2>4. ~p.out_tlast => k = Word \div Byte
    BY <1>4, OutBytes
  <2>5. p.out_tlast \in BOOLEAN
    BY DEF IsPacker, Shape, BitPackers
  <2> HIDE DEF f2, m, d, k
  <2>6. f2.data = Stuff(d, k) /\ f2.nbits = m /\ f2.valid = TRUE /\ f2.tlast = p.out_tlast
    BY <2>3
  <2>7. f2 \in Ports
    BY <2>2, <2>3, <2>5, WordSizes DEF Ports
  <2>8. f2.nbits > 0 /\ (f2.tlast \/ ClearFrom(f2.data, f2.nbits))
    BY <2>2, <2>4, <2>6, WordSizes
  <2>9. IsPort(f2)
    BY <2>2, <2>6, <2>7, <2>8 DEF IsPort
  <2> QED
    BY <1>1, <1>4, <2>2, <2>6, <2>9 DEF d, k, f2
<1> QED
  BY <1>2, <1>3, <1>4

-----------------------------------------------------------------------------
(* Words and bytes filled with ones.                                       *)
LEMMA DivisionIs ==
  ASSUME NEW a \in Nat, NEW b \in Nat, b > 0, NEW quot \in Nat, NEW r \in 0 .. b - 1, a = quot * b + r
  PROVE  a % b = r /\ a \div b = quot
<1> DEFINE d == a \div b
           m == a % b
<1>1. d \in Nat /\ m \in 0 .. b - 1 /\ a = b * d + m
  OBVIOUS
<1> HIDE DEF d, m
<1>2. a = d * b + m
  BY <1>1
<1>3. ASSUME d >= quot + 1 PROVE FALSE
  <2>1. d * b >= (quot + 1) * b
    BY <1>1, <1>3
  <2>2. (quot + 1) * b = quot * b + b
    OBVIOUS
  <2> QED
    BY <1>1, <1>2, <2>1, <2>2
<1>4. ASSUME quot >= d + 1 PROVE FALSE
  <2>1. quot * b >= (d + 1) * b
    BY <1>1, <1>4
  <2>2. (d + 1) * b = d * b + b
    BY <1>1
  <2> QED
    BY <1>1, <1>2, <2>1, <2>2
<1>5. d = quot
  BY <1>1, <1>3, <1>4
<1> QED
  BY <1>1, <1>2, <1>5 DEF d, m

LEMMA FilledIs ==
  ASSUME NEW s \in Bits, NEW b \in Nat, b > 0, NEW quot \in Nat, NEW r \in 1 .. b, Len(s) = quot * b + r
  PROVE  Filled(s, b) = s \o Ones(b - r)
<1>1. Len(s) \in Nat
  BY LenIsNat
<1>2. CASE r < b
  <2>1. r \in 0 .. b - 1
    BY <1>2
  <2>2. Len(s) % b = r
    BY <1>1, <2>1, DivisionIs
  <2> QED
    BY <2>2 DEF Filled
<1>3. CASE r = b
  <2>1. quot + 1 \in Nat /\ 0 \in 0 .. b - 1 /\ Len(s) = (quot + 1) * b + 0
    BY <1>3
  <2>2. Len(s) % b = 0
    BY ONLY <1>1, <2>1, b \in Nat, b > 0, DivisionIs
  <2>3. Ones(b - r) = <<>>
    <3>1. b - r = 0 /\ 0 \in Nat
      BY <1>3
    <3>2. Ones(0) \in Bits /\ Len(Ones(0)) = 0
      BY BitsConst
    <3>3. \A i \in 1 .. 0 : FALSE
      OBVIOUS
    <3>4. Ones(0) = <<>>
      BY <3>2, <3>3, BitsNone, BitsSame
    <3> QED
      BY <3>1, <3>4
  <2> QED
    BY <2>2, <2>3, BitsNone DEF Filled
<1> QED
  BY <1>2, <1>3

LEMMA OnesJoin ==
  ASSUME NEW m \in Nat, NEW n \in Nat
  PROVE  Ones(m) \o Ones(n) = Ones(m + n)
<1> DEFINE a == Ones(m)
           b == Ones(n)
           c == Ones(m + n)
<1>1. a \in Bits /\ Len(a) = m /\ \A i \in 1 .. m : a[i] = 1
  BY BitsConst
<1>2. b \in Bits /\ Len(b) = n /\ \A i \in 1 .. n : b[i] = 1
  BY BitsConst
<1>3. c \in Bits /\ Len(c) = m + n /\ \A i \in 1 .. m + n : c[i] = 1
  <2>1. m + n \in Nat
    OBVIOUS
  <2> QED
    BY <2>1, BitsConst
<1> HIDE DEF a, b, c
<1>4. a \o b \in Bits /\ Len(a \o b) = m + n
  BY <1>1, <1>2, BitsJoin
<1>5. (\A i \in 1 .. m : (a \o b)[i] = a[i]) /\ \A i \in 1 .. n : (a \o b)[m + i] = b[i]
  BY <1>1, <1>2, BitsOfJoin
<1>6. ASSUME NEW i \in 1 .. m + n PROVE (a \o b)[i] = c[i]
  <2>1. CASE i <= m
    BY <1>1, <1>3, <1>5, <2>1
  <2>2. CASE i > m
    <3>1. i - m \in 1 .. n /\ m + (i - m) = i
      BY <2>2
    <3> QED
      BY <1>2, <1>3, <1>5, <3>1
  <2>3. i <= m \/ i > m
    OBVIOUS
  <2> QED
    BY <2>1, <2>2, <2>3
<1>7. a \o b = c
  BY <1>3, <1>4, <1>6, BitsSame
<1> QED
  BY <1>7 DEF a, b, c

LEMMA ReferenceIs ==
  ASSUME NEW bits
  PROVE  Reference(bits) = Escapes(Filled(bits, Byte), Len(Filled(bits, Byte)) \div Byte)
BY DEF Reference, Escapes, Escaped

(* The last word of the first packer: its bytes that count are the rest of *)
(* the codes, filled with ones.                                            *)
LEMMA LastBytes ==
  ASSUME NEW s \in Bits, NEW n \in Nat, Len(s) = Size(n), NEW k \in Bits, Len(k) \in 1 .. Word,
         NEW d, d = k \o Ones(Word - Len(k))
  PROVE  Escapes(s, n) \o Escapes(d, (Len(k) + Byte - 1) \div Byte) = Reference(s \o k)
<1> DEFINE l == Len(k)
           m == (l + Byte - 1) \div Byte
           r == l - Size(m - 1)
           o == Ones(Byte - r)
           x == k \o o
           W == Word \div Byte
<1>1. W \in Nat /\ W > 0 /\ Size(W) = Word /\ m \in 1 .. W
  BY WordIsBytes
<1>2. r \in 1 .. Byte
  <2> DEFINE j == l + Byte - 1
  <2>1. j \in Nat /\ m * Byte <= j /\ j < (m + 1) * Byte
    BY WordSizes
  <2>2. m - 1 \in Nat /\ m \in Nat
    BY <1>1
  <2> HIDE DEF m
  <2>3. m * Byte = (m - 1) * Byte + Byte /\ (m + 1) * Byte = (m - 1) * Byte + Byte + Byte /\ (m - 1) * Byte \in Nat
    BY <2>2, WordSizes
  <2> HIDE DEF l
  <2> QED
    BY <2>1, <2>3, WordSizes DEF Size, l
<1> HIDE DEF W, m
<1>3. m \in Nat /\ m - 1 \in Nat /\ m <= W /\ (m - 1) + 1 = m
  BY <1>1
<1>4. Size(m - 1) \in Nat /\ Size(m) = Size(m - 1) + Byte /\ Size(m) \in Nat
  <2>1. Size(m - 1) \in Nat /\ Size((m - 1) + 1) = Size(m - 1) + Byte
    BY ONLY <1>3, SizeStep
  <2>2. Size(m) \in Nat
    BY <1>3, SizeStep
  <2> QED
    BY <1>3, <2>1, <2>2
<1>5. l \in Nat /\ l >= 1 /\ l <= Word
  BY LenIsNat, WordSizes
<1>6. Byte - r \in Nat /\ l + (Byte - r) = Size(m) /\ Size(m - 1) + r = l
  BY <1>2, <1>4, <1>5, WordSizes, SMTT(30)
<1> HIDE DEF r, l
<1>7. o \in Bits /\ Len(o) = Byte - r
  BY <1>6, BitsConst
<1>8. x \in Bits /\ Len(x) = Size(m)
  <2>1. x \in Bits /\ Len(x) = Len(k) + Len(o)
    BY <1>7, BitsJoin
  <2> QED
    BY <1>6, <1>7, <2>1 DEF l
<1>9. d = x \o Ones(Word - Size(m))
  <2>1. Size(m) <= Word
    BY <1>1, <1>3, SizeOrder
  <2> DEFINE j == Word - Size(m)
  <2>a. j \in Nat
    BY <1>4, <2>1, WordSizes
  <2>b. (Byte - r) + j = Word - l
    <3>1. Byte \in Nat /\ Word \in Nat /\ r \in Nat /\ l \in Nat /\ Size(m) \in Nat
      BY <1>2, <1>4, <1>5, WordSizes
    <3>2. l + (Byte - r) = Size(m)
      BY <1>6
    <3> QED
      BY ONLY <3>1, <3>2
  <2>2. j \in Nat /\ (Byte - r) + j = Word - l
    BY <2>a, <2>b
  <2> HIDE DEF j
  <2>3. Ones(Byte - r) \o Ones(j) = Ones((Byte - r) + j)
    BY ONLY <1>6, <2>2, OnesJoin
  <2>4. Ones(j) \in Bits
    BY <2>2, BitsConst
  <2>5. (k \o o) \o Ones(j) = k \o (o \o Ones(j))
    BY <1>7, <2>4, BitsAssoc
  <2> QED
    BY <2>2, <2>3, <2>5 DEF j, l
<1>10. Escapes(d, m) = Escapes(x, m)
  <2> DEFINE t == Ones(Word - Size(m))
  <2>1. t \in Bits
    <3>1. Size(m) <= Word
      BY <1>1, <1>3, SizeOrder
    <3>2. Word - Size(m) \in Nat
      BY <1>4, <3>1, WordSizes
    <3> QED
      BY <3>2, BitsConst
  <2> HIDE DEF t, x
  <2>2. Escapes(x \o t, m) = Escapes(x, m)
    BY <1>3, <1>8, <2>1, EscapesFront
  <2> QED
    BY <1>9, <2>2 DEF t
<1>11. Filled(s \o k, Byte) = s \o x
  <2> DEFINE u == s \o k
  <2>1. u \in Bits /\ Len(u) = Size(n) + l
    BY BitsJoin DEF l
  <2>2. n + (m - 1) \in Nat /\ Size(n + (m - 1)) = Size(n) + Size(m - 1)
    BY <1>3, SizeSum
  <2>3. Size(n) \in Nat
    BY SizeStep
  <2>4. Len(u) = (n + (m - 1)) * Byte + r
    <3>1. Len(u) = Size(n + (m - 1)) + r
      BY <1>2, <1>4, <1>6, <2>1, <2>2, <2>3
    <3> QED
      BY <3>1 DEF Size
  <2> HIDE DEF u
  <2> DEFINE quot == n + (m - 1)
  <2>a. quot \in Nat /\ Len(u) = quot * Byte + r
    BY <2>2, <2>4
  <2>b. Byte \in Nat /\ Byte > 0
    BY WordSizes
  <2> HIDE DEF quot
  <2>5. Filled(u, Byte) = u \o Ones(Byte - r)
    BY ONLY <1>2, <2>1, <2>a, <2>b, FilledIs
  <2>6. (s \o k) \o o = s \o (k \o o)
    BY <1>7, BitsAssoc
  <2> QED
    BY <2>5, <2>6 DEF u
<1> HIDE DEF x, o
<1>12. s \o x \in Bits /\ Len(s \o x) = Size(n + m) /\ n + m \in Nat
  <2>1. s \o x \in Bits /\ Len(s \o x) = Len(s) + Len(x)
    BY <1>8, BitsJoin
  <2>2. n + m \in Nat /\ Size(n + m) = Size(n) + Size(m)
    BY <1>3, SizeSum
  <2> QED
    BY <1>8, <2>1, <2>2
<1>13. Len(s \o x) \div Byte = n + m
  <2>1. Len(s \o x) \in Nat /\ 0 \in 0 .. Byte - 1 /\ Byte \in Nat /\ Byte > 0
    BY <1>12, LenIsNat, WordSizes
  <2>2. Len(s \o x) = (n + m) * Byte + 0
    BY <1>12, <2>1 DEF Size
  <2> QED
    BY <1>12, <2>1, <2>2, DivisionIs
<1>14. Escapes(s \o x, n + m) = Escapes(s, n) \o Escapes(x, m)
  <2>1. Size(m) <= Len(x)
    BY <1>4, <1>8
  <2> QED
    BY <1>3, <1>8, <2>1, EscapesJoin
<1>15. Reference(s \o k) = Escapes(s \o x, n + m)
  BY <1>11, <1>13, ReferenceIs
<1> QED
  BY <1>10, <1>14, <1>15 DEF m, l

-----------------------------------------------------------------------------
(* ff00 is the port of the second packer.                                  *)
LEMMA MiddleStep ==
  ASSUME NEW p, NEW in, NEW e \in BOOLEAN, NEW h0 \in BOOLEAN, NEW in2, NEW e2 \in BOOLEAN,
         IsPacker(p, in, e), IsPort(in2), PortStep(p, in, e, h0, in2, e2),
         NEW a \in BOOLEAN, a <=> e /\ Drained(p, in), NEW next, NEW f, NEW h1, IsPacker(next, f, a),
         NEW held \in BOOLEAN, held <=> IsHeld(next, f, h1), h0 <=> held /\ p.out_valid,
         NEW p2, p2 = BitPack(p, in, h0), NEW f2, f2 = Ff00(f, p, held),
         NEW b \in BOOLEAN, b <=> e2 /\ Drained(p2, in2)
  PROVE  /\ IsPort(f2)
         /\ PortStep(next, f, a, h1, f2, b)
         /\ New(next, f, h1, f2) =
              IF p.out_valid /\ ~h0 THEN Escapes(OutData(p), p.out_nbytes) ELSE <<>>
<1>1. held \in BOOLEAN /\ (held => f.valid)
  BY DEF IsHeld
<1>2. IsPort(f) /\ p.out_valid \in BOOLEAN /\ p.out_tlast \in BOOLEAN
      /\ (p.out_tlast => p.out_valid)
  BY DEF IsPacker, IsOut, Shape, BitPackers
<1>3. /\ IsPort(f2)
      /\ held => f2 = f
      /\ ~held => f2.valid = p.out_valid
      /\ ~held /\ p.out_valid =>
           /\ f2.tlast = p.out_tlast
           /\ SubSeq(f2.data, 1, f2.nbits) = Escapes(OutData(p), p.out_nbytes)
  BY <1>1, <1>2, Ff00Step
<1>4. /\ b <=> a \/ (p.out_tlast /\ ~h0)
      /\ a => ~p.out_valid /\ ~p.out_tlast
  <2>1. /\ (e2 /\ Drained(p2, in2)) <=> (e /\ Drained(p, in)) \/ (p.out_tlast /\ ~h0)
        /\ e /\ Drained(p, in) => ~p.out_valid /\ ~p.out_tlast
    BY EndMoves
  <2> QED
    BY <2>1
<1>5. a \in BOOLEAN /\ b \in BOOLEAN
  OBVIOUS
<1>6. PortStep(next, f, a, h1, f2, b)
  <2>1. CASE held
    <3>1. b = a
      BY <1>2, <1>4, <1>5, <2>1
    <3> QED
      BY <1>3, <2>1, <3>1 DEF PortStep
  <2>2. CASE ~held /\ ~p.out_valid
    <3>1. b = a
      BY <1>2, <1>4, <1>5, <2>2
    <3> QED
      BY <1>3, <2>2, <3>1 DEF PortStep
  <2>3. CASE ~held /\ p.out_valid
    <3>1. ~a /\ b = p.out_tlast
      BY <1>2, <1>4, <1>5, <2>3
    <3> QED
      BY <1>3, <2>3, <3>1 DEF PortStep
  <2> QED
    BY <1>1, <2>1, <2>2, <2>3
<1>7. New(next, f, h1, f2) = IF p.out_valid /\ ~h0 THEN Escapes(OutData(p), p.out_nbytes) ELSE <<>>
  <2>1. New(next, f, h1, f2) = IF f2.valid /\ ~held THEN SubSeq(f2.data, 1, f2.nbits) ELSE <<>>
    BY DEF New
  <2>2. CASE held
    BY <1>2, <2>1, <2>2
  <2>3. CASE ~held
    BY <1>2, <1>3, <2>1, <2>3
  <2> QED
    BY <1>1, <2>2, <2>3
<1> QED
  BY <1>3, <1>6, <1>7

-----------------------------------------------------------------------------
(* The words that have passed the first packer are the front of the image, *)
(* and have gone through ff00.                                             *)
Passing(p, in, img, stuffed) ==
  \E passed \in Bits, n \in Nat :
    Len(passed) = Size(n) /\ img = passed \o Rest(p, in) /\ stuffed = Escapes(passed, n)

FromFf00(p, h0) == IF p.out_valid /\ ~h0 THEN Escapes(OutData(p), p.out_nbytes) ELSE <<>>

LEMMA FrontStep ==
  ASSUME NEW p, NEW in, NEW e \in BOOLEAN, NEW h0 \in BOOLEAN, NEW in2, NEW e2 \in BOOLEAN,
         IsPacker(p, in, e), IsPort(in2), PortStep(p, in, e, h0, in2, e2),
         NEW img, NEW stuffed, Passing(p, in, img, stuffed), NEW p2, p2 = BitPack(p, in, h0)
  PROVE  IF p.out_tlast /\ ~h0
           THEN stuffed \o FromFf00(p, h0) = Reference(img) /\ img \o New(p, in, h0, in2) = img
           ELSE Passing(p2, in2, img \o New(p, in, h0, in2), stuffed \o FromFf00(p, h0))
<1>p. PICK passed \in Bits, n \in Nat :
        Len(passed) = Size(n) /\ img = passed \o Rest(p, in) /\ stuffed = Escapes(passed, n)
  BY DEF Passing
<1> DEFINE new == New(p, in, h0, in2)
           out == FromFf00(p, h0)
           word == WordOut(p, h0)
           W == Word \div Byte
           s == Escapes(passed, n)
           rest == Rest(p, in)
           rest2 == Rest(p2, in2)
<1>1. /\ IsPacker(p2, in2, e2)
      /\ p.out_tlast /\ ~h0 => rest = Kept(p) /\ rest2 = <<>>
      /\ ~(p.out_tlast /\ ~h0) => rest \o new = word \o rest2
  <2>1. IsPacker(p2, in2, e2) /\ Flows(p, in, h0, in2, p2)
    BY PackerStep
  <2> QED
    BY <2>1 DEF Flows
<1>0. img = passed \o rest /\ Len(passed) = Size(n) /\ stuffed = s
  BY <1>p
<1>2. p.out_tlast /\ ~h0 => new = <<>>
  BY EndStep
<1>3. W \in Nat /\ W > 0 /\ Size(W) = Word
  BY WordIsBytes
<1>4. s \in Bits
  <2>1. Size(n) <= Len(passed)
    BY <1>0, SizeStep
  <2> QED
    BY <1>0, <2>1, EscapesAre
<1>5. rest \in Bits /\ Kept(p) \in Bits /\ Len(Kept(p)) = p.bit_count
  <2>1. Kept(p) \in Bits /\ Len(Kept(p)) = p.bit_count /\ Waiting(p) \in Bits /\ Coming(p, in) \in Bits
    BY RestType
  <2> QED
    BY <2>1, BitsJoin DEF Rest
<1>6. rest2 \in Bits
  <2>1. Kept(p2) \in Bits /\ Waiting(p2) \in Bits /\ Coming(p2, in2) \in Bits
    BY <1>1, RestType
  <2> QED
    BY <2>1, BitsJoin DEF Rest
<1>7. new \in Bits
  BY NewType
<1>8. ASSUME p.out_tlast, ~h0 PROVE s \o out = Reference(img) /\ img \o new = img
  <2>1. p.out_valid /\ p.out_nbytes = (p.bit_count + Byte - 1) \div Byte
    BY <1>8 DEF IsPacker, IsOut
  <2>2. p.bit_count \in 1 .. Word /\ OutData(p) = Kept(p) \o Ones(Word - p.bit_count)
    BY <1>8, <2>1, OutDataIs
  <2> DEFINE k == Kept(p)
             d == OutData(p)
  <2>3. k \in Bits /\ Len(k) \in 1 .. Word /\ d = k \o Ones(Word - Len(k))
    BY <1>5, <2>2
  <2>4. out = Escapes(d, (Len(k) + Byte - 1) \div Byte)
    BY <1>5, <1>8, <2>1 DEF FromFf00
  <2>5. img = passed \o k
    BY <1>0, <1>1, <1>8
  <2>6. img \in Bits
    BY <2>3, <2>5, BitsJoin
  <2> HIDE DEF k, d, out, new
  <2>a. Len(passed) = Size(n)
    BY <1>0
  <2>b. Escapes(passed, n) \o Escapes(d, (Len(k) + Byte - 1) \div Byte) = Reference(passed \o k)
    BY <2>a, <2>3, LastBytes
  <2>7. s \o out = Reference(img)
    BY <2>4, <2>5, <2>b
  <2>8. img \o new = img
    BY <1>2, <1>8, <2>6, BitsNone
  <2> QED
    BY <2>7, <2>8
<1>9. ASSUME ~(p.out_tlast /\ ~h0)
      PROVE  \E passed2 \in Bits, n2 \in Nat :
               /\ Len(passed2) = Size(n2) /\ img \o new = passed2 \o rest2
               /\ s \o out = Escapes(passed2, n2)
  <2>1. img \o new = passed \o (rest \o new)
    <3> HIDE DEF rest, new
    <3> QED
      BY <1>0, <1>5, <1>7, BitsAssoc
  <2>2. CASE p.out_valid /\ ~h0
    <3> DEFINE d == OutData(p)
    <3>1. d \in Bits /\ Len(d) = Word /\ d = SubSeq(p.bit_packer, 1, Word)
      BY <1>9, <2>2, OutDataIs
    <3>2. p.out_nbytes = W
      BY <1>9, <2>2, OutBytes
    <3>3. word = d /\ out = Escapes(d, W)
      BY <2>2, <3>1, <3>2 DEF WordOut, FromFf00
    <3> HIDE DEF d, word, out, W, new, s, rest, rest2
    <3>4. passed \o d \in Bits /\ Len(passed \o d) = Len(passed) + Len(d)
      BY <3>1, BitsJoin
    <3>5. n + W \in Nat /\ Size(n + W) = Size(n) + Size(W)
      BY <1>3, SizeSum
    <3>6. Len(passed \o d) = Size(n + W)
      BY <1>0, <1>3, <3>1, <3>4, <3>5
    <3>7. (passed \o d) \o rest2 = passed \o (d \o rest2)
      BY <1>6, <3>1, BitsAssoc
    <3>8. img \o new = (passed \o d) \o rest2
      BY <1>1, <1>9, <2>1, <3>3, <3>7
    <3>9. Escapes(passed \o d, n + W) = s \o out
      <4>1. Size(W) <= Len(d)
        BY <1>3, <3>1, WordSizes
      <4>2. Escapes(passed \o d, n + W) = Escapes(passed, n) \o Escapes(d, W)
        BY <1>0, <1>3, <3>1, <4>1, EscapesJoin
      <4> QED
        BY <3>3, <4>2 DEF s
    <3> QED
      BY <3>4, <3>5, <3>6, <3>8, <3>9
  <2>3. CASE ~(p.out_valid /\ ~h0)
    <3>1. word = <<>> /\ out = <<>>
      BY <2>3 DEF WordOut, FromFf00
    <3> HIDE DEF word, out, new, s, rest, rest2
    <3>2. word \o rest2 = rest2 /\ s \o out = s
      BY <1>4, <1>6, <3>1, BitsNone
    <3>3. img \o new = passed \o rest2
      BY <1>1, <1>9, <2>1, <3>2
    <3> QED
      BY <1>0, <3>2, <3>3 DEF s
  <2> QED
    BY <2>2, <2>3
<1>10. ASSUME ~(p.out_tlast /\ ~h0) PROVE Passing(p2, in2, img \o new, stuffed \o out)
  <2> HIDE DEF new, out
  <2> QED
    BY <1>0, <1>9, <1>10 DEF Passing
<1> QED
  BY <1>0, <1>8, <1>10

-----------------------------------------------------------------------------
(* What has gone through ff00 is the escaped bytes of the words that have  *)
(* passed the first packer, the front of the image; or it is all of it.    *)
FrontHalf(p, in, e, img, stuffed) ==
  IF e /\ Drained(p, in) THEN stuffed = Reference(img)
  ELSE Passing(p, in, img, stuffed)

(* It has left in whole words, but for the rest in the second packer; or   *)
(* all of it has, filled with ones.                                        *)
BackHalf(next, f, e, stuffed, out, fin) ==
  IF fin THEN e /\ Drained(next, f) /\ out = Filled(stuffed, Word)
  ELSE stuffed = out \o Rest(next, f) /\ \E m \in Nat : Len(out) = m * Word

(* After the last code nothing new comes to a packer that is empty.        *)
LEMMA NothingNew ==
  ASSUME NEW p, NEW in, NEW e \in BOOLEAN, NEW hold, NEW in2, NEW e2,
         e /\ Drained(p, in), PortStep(p, in, e, hold, in2, e2)
  PROVE  New(p, in, hold, in2) = <<>>
BY DEF Drained, PortStep, New, IsHeld

LEMMA FrontNext ==
  ASSUME NEW p, NEW in, NEW e \in BOOLEAN, NEW h0 \in BOOLEAN, NEW in2, NEW e2 \in BOOLEAN,
         IsPacker(p, in, e), IsPort(in2), PortStep(p, in, e, h0, in2, e2),
         NEW img \in Bits, NEW stuffed \in Bits, FrontHalf(p, in, e, img, stuffed),
         NEW p2, p2 = BitPack(p, in, h0)
  PROVE  FrontHalf(p2, in2, e2, img \o New(p, in, h0, in2), stuffed \o FromFf00(p, h0))
<1> DEFINE new == New(p, in, h0, in2)
           out == FromFf00(p, h0)
           a == e /\ Drained(p, in)
           b == e2 /\ Drained(p2, in2)
<1>1. /\ b <=> a \/ (p.out_tlast /\ ~h0)
      /\ a => ~p.out_valid /\ ~p.out_tlast
  BY EndMoves
<1>2. a => new = <<>>
  BY NothingNew
<1>3. CASE a
  <2>1. stuffed = Reference(img)
    BY <1>3 DEF FrontHalf
  <2>2. out = <<>>
    BY <1>1, <1>3 DEF FromFf00
  <2> HIDE DEF out, new
  <2>3. img \o new = img /\ stuffed \o out = stuffed
    BY <1>2, <1>3, <2>2, BitsNone
  <2> QED
    BY <1>1, <1>3, <2>1, <2>3 DEF FrontHalf, out, new
<1>4. CASE ~a
  <2>1. Passing(p, in, img, stuffed)
    BY <1>4 DEF FrontHalf
  <2>2. IF p.out_tlast /\ ~h0
          THEN stuffed \o out = Reference(img) /\ img \o new = img
          ELSE Passing(p2, in2, img \o new, stuffed \o out)
    BY <2>1, FrontStep
  <2> HIDE DEF out, new
  <2> QED
    BY <1>1, <1>4, <2>2 DEF FrontHalf, out, new
<1> QED
  BY <1>3, <1>4

LEMMA BackNext ==
  ASSUME NEW next, NEW f, NEW e \in BOOLEAN, NEW h1 \in BOOLEAN, NEW f2, NEW e2 \in BOOLEAN,
         IsPacker(next, f, e), IsPort(f2), PortStep(next, f, e, h1, f2, e2),
         NEW stuffed \in Bits, NEW out \in Bits, NEW fin \in BOOLEAN, BackHalf(next, f, e, stuffed, out, fin),
         NEW next2, next2 = BitPack(next, f, h1),
         NEW out2, NEW fin2,
         next.out_valid /\ ~h1 => out2 = out \o OutData(next) /\ fin2 = next.out_tlast,
         ~(next.out_valid /\ ~h1) => out2 = out /\ fin2 = fin
  PROVE  out2 \in Bits /\ fin2 \in BOOLEAN /\ BackHalf(next2, f2, e2, stuffed \o New(next, f, h1, f2), out2, fin2)
<1> DEFINE new == New(next, f, h1, f2)
           d == OutData(next)
           a == e /\ Drained(next, f)
           b == e2 /\ Drained(next2, f2)
           rest == Rest(next, f)
           rest2 == Rest(next2, f2)
<1>1. /\ b <=> a \/ (next.out_tlast /\ ~h1)
      /\ a => ~next.out_valid /\ ~next.out_tlast
  BY EndMoves
<1>2. a => new = <<>>
  BY NothingNew
<1>3. next.out_tlast /\ ~h1 => new = <<>>
  BY EndStep
<1>4. /\ next.out_tlast => next.out_valid
      /\ next.out_tlast \in BOOLEAN /\ next.out_valid \in BOOLEAN
  BY DEF IsPacker, IsOut, Shape, BitPackers
<1>5. /\ IsPacker(next2, f2, e2)
      /\ next.out_tlast /\ ~h1 => rest = Kept(next) /\ rest2 = <<>>
      /\ ~(next.out_tlast /\ ~h1) => rest \o new = WordOut(next, h1) \o rest2
  <2>1. IsPacker(next2, f2, e2) /\ Flows(next, f, h1, f2, next2)
    BY PackerStep
  <2> QED
    BY <2>1 DEF Flows
<1>6. next.out_valid => /\ d \in Bits /\ Len(d) = Word
                        /\ ~next.out_tlast => d = SubSeq(next.bit_packer, 1, Word)
                        /\ next.out_tlast => next.bit_count \in 1 .. Word /\ d = Kept(next) \o Ones(Word - next.bit_count)
  BY OutDataIs
<1>7. rest \in Bits /\ Kept(next) \in Bits /\ Len(Kept(next)) = next.bit_count
  <2>1. Kept(next) \in Bits /\ Len(Kept(next)) = next.bit_count /\ Waiting(next) \in Bits /\ Coming(next, f) \in Bits
    BY RestType
  <2> QED
    BY <2>1, BitsJoin DEF Rest
<1>8. rest2 \in Bits
  <2>1. Kept(next2) \in Bits /\ Waiting(next2) \in Bits /\ Coming(next2, f2) \in Bits
    BY <1>5, RestType
  <2> QED
    BY <2>1, BitsJoin DEF Rest
<1>9. new \in Bits
  BY NewType
<1>10. ~fin => stuffed = out \o rest /\ \E m \in Nat : Len(out) = m * Word
  BY DEF BackHalf
<1> HIDE DEF d, new, rest, rest2
<1>11. out2 \in Bits /\ fin2 \in BOOLEAN
  <2>1. next.out_valid => out \o d \in Bits
    BY <1>6, BitsJoin
  <2> QED
    BY <1>4, <2>1 DEF d
<1>12. CASE fin
  <2>1. a /\ out = Filled(stuffed, Word)
    BY <1>12 DEF BackHalf
  <2>2. ~next.out_valid /\ b /\ stuffed \o new = stuffed
    BY <1>1, <1>2, <2>1, BitsNone
  <2>3. out2 = out /\ fin2 = fin
    BY <2>2
  <2>4. BackHalf(next2, f2, e2, stuffed \o new, out2, fin2)
    BY <1>12, <2>1, <2>2, <2>3 DEF BackHalf
  <2> QED
    BY <1>11, <2>4 DEF new
<1>13. CASE ~fin /\ next.out_tlast /\ ~h1
  <2>1. next.out_valid /\ fin2 = TRUE /\ out2 = out \o d /\ b /\ stuffed \o new = stuffed
    BY <1>1, <1>3, <1>4, <1>13, BitsNone DEF d
  <2> DEFINE k == Kept(next)
             r == next.bit_count
  <2>2. /\ r \in 1 .. Word /\ d = k \o Ones(Word - r) /\ k \in Bits /\ Len(k) = r
        /\ stuffed = out \o k
    BY <1>5, <1>6, <1>7, <1>10, <1>13, <2>1
  <2> HIDE DEF k, r
  <2>3. PICK m \in Nat : Len(out) = m * Word
    BY <1>10, <1>13
  <2>4. Len(stuffed) = m * Word + r
    <3>1. Len(out \o k) = Len(out) + Len(k)
      BY <2>2, BitsJoin
    <3> QED
      BY <2>2, <2>3, <3>1
  <2>5. Filled(stuffed, Word) = stuffed \o Ones(Word - r)
    <3>1. Word \in Nat /\ Word > 0
      BY WordSizes
    <3> QED
      BY ONLY stuffed \in Bits, <2>2, <2>4, <3>1, FilledIs
  <2>6. Ones(Word - r) \in Bits
    <3>1. Word - r \in Nat
      BY <2>2, WordSizes
    <3> QED
      BY <3>1, BitsConst
  <2>7. (out \o k) \o Ones(Word - r) = out \o (k \o Ones(Word - r))
    BY <2>2, <2>6, BitsAssoc
  <2>8. out2 = Filled(stuffed, Word)
    BY <2>1, <2>2, <2>5, <2>7
  <2>9. BackHalf(next2, f2, e2, stuffed \o new, out2, fin2)
    BY <2>1, <2>8 DEF BackHalf
  <2> QED
    BY <1>11, <2>9 DEF new
<1>14. CASE ~fin /\ ~(next.out_tlast /\ ~h1)
  <2> DEFINE w == WordOut(next, h1)
  <2>1. fin2 = FALSE
    BY <1>4, <1>14
  <2>2. w \in Bits /\ out2 = out \o w /\ \E m \in Nat : Len(out2) = m * Word
    <3>1. PICK m \in Nat : Len(out) = m * Word
      BY <1>10, <1>14
    <3>2. CASE next.out_valid /\ ~h1
      <4>1. w = d /\ d \in Bits /\ Len(d) = Word /\ out2 = out \o d
        BY <1>6, <1>14, <3>2 DEF WordOut, d
      <4>2. Len(out \o d) = Len(out) + Len(d)
        BY <4>1, BitsJoin
      <4>3. m + 1 \in Nat /\ m * Word + Word = (m + 1) * Word
        BY WordSizes
      <4> HIDE DEF w
      <4>4. Len(out2) = (m + 1) * Word
        BY <3>1, <4>1, <4>2, <4>3
      <4> QED
        BY <4>1, <4>3, <4>4
    <3>3. CASE ~(next.out_valid /\ ~h1)
      <4>1. w = <<>> /\ out2 = out
        BY <3>3 DEF WordOut
      <4> QED
        BY <3>1, <4>1, BitsNone
    <3> QED
      BY <3>2, <3>3
  <2> HIDE DEF w
  <2>3. rest \o new = w \o rest2
    BY <1>5, <1>14 DEF w
  <2>4. (out \o rest) \o new = out \o (rest \o new)
    BY <1>7, <1>9, BitsAssoc
  <2>5. (out \o w) \o rest2 = out \o (w \o rest2)
    BY <1>8, <2>2, BitsAssoc
  <2>6. stuffed \o new = out2 \o rest2
    BY <1>10, <1>14, <2>2, <2>3, <2>4, <2>5
  <2>7. BackHalf(next2, f2, e2, stuffed \o new, out2, fin2)
    BY <2>1, <2>2, <2>6 DEF BackHalf, rest2
  <2> QED
    BY <1>11, <2>7 DEF new
<1> QED
  BY <1>12, <1>13, <1>14

-----------------------------------------------------------------------------
(* BytePack: the invariant.                                                *)
Ended1   == ended /\ Drained(bit_pack_0, code)
CountsFit == {bit_pack_0.out_nbytes, bit_pack_1.out_nbytes} \subseteq 0 .. Word \div Byte

PackIInv ==
  /\ ended \in BOOLEAN /\ finished \in BOOLEAN /\ given \in 0 .. MaxCodes
  /\ image \in Bits /\ packed \in Bits
  /\ IsPacker(bit_pack_0, code, ended)
  /\ IsPacker(bit_pack_1, ff00, Ended1)
  /\ CountsFit
  /\ \E stuffed \in Bits : /\ FrontHalf(bit_pack_0, code, ended, image, stuffed)
                           /\ BackHalf(bit_pack_1, ff00, Ended1, stuffed, packed, finished)

LEMMA EmptyIsPacker ==
  /\ IsPacker(EmptyBitPack, NoPort, FALSE) /\ ~EmptyBitPack.out_valid
  /\ Rest(EmptyBitPack, NoPort) = <<>> /\ EmptyBitPack.out_nbytes = 0
<1> DEFINE p == EmptyBitPack
           in == NoPort
<1>1. Zeros(Word) \in Bits /\ Len(Zeros(Word)) = Word
  BY WordSizes, BitsConst
<1>2. /\ Zeros(2 * Word) \in Bits /\ Len(Zeros(2 * Word)) = 2 * Word
      /\ \A i \in 1 .. 2 * Word : Zeros(2 * Word)[i] = 0
  <2>1. 2 * Word \in Nat
    BY WordSizes
  <2> QED
    BY <2>1, BitsConst
<1>3. /\ p.in32_data = Zeros(Word) /\ p.in32_nbits = 0 /\ p.in32_tlast = FALSE /\ p.in32_valid = FALSE
      /\ p.long_in = FALSE /\ p.bit_count = 0 /\ p.bit_packer = Zeros(2 * Word)
      /\ p.tlast_cycle = FALSE /\ p.out_tlast = FALSE /\ p.out_valid = FALSE /\ p.out_nbytes = 0
  BY DEF EmptyBitPack
<1>4. in.data = Zeros(2 * Word) /\ in.nbits = 0 /\ in.tlast = FALSE /\ in.valid = FALSE
  BY DEF NoPort
<1>5. IsPort(in)
  <2>1. in \in Ports
    <3>1. 0 \in 0 .. 2 * Word
      BY WordSizes
    <3> QED
      BY <1>2, <3>1 DEF NoPort, Ports
  <2> QED
    BY <1>2, <1>4, <2>1 DEF IsPort
<1>6. Shape(p)
  <2>1. 0 \in 0 .. Word /\ 0 \in Nat /\ 0 < 2 * Word
    BY WordSizes
  <2>2. p \in BitPackers
    BY <1>1, <1>2, <2>1 DEF EmptyBitPack, BitPackers
  <2> QED
    BY <1>1, <1>2, <1>3, <2>1, <2>2 DEF Shape
<1>7. IsIn32(p, in)
  BY <1>3 DEF IsIn32
<1>8. IsOut(p)
  BY <1>3, WordSizes DEF IsOut
<1>9. IsEnd(p, in, FALSE)
  <2>1. ClearFrom(p.bit_packer, p.bit_count)
    BY <1>2, <1>3 DEF ClearFrom
  <2> QED
    BY <1>3, <1>4, <2>1 DEF IsEnd, HasLast
<1>10. Rest(p, in) = <<>>
  <2>1. Kept(p) = <<>> /\ Waiting(p) = <<>> /\ Coming(p, in) = <<>>
    BY <1>3, <1>4, BitsNone DEF Kept, Waiting, Coming
  <2> QED
    BY <2>1, BitsNone DEF Rest
<1> QED
  BY <1>3, <1>5, <1>6, <1>7, <1>8, <1>9, <1>10 DEF IsPacker

LEMMA PackInitHolds == PackInit => PackIInv
<1> SUFFICES ASSUME PackInit PROVE PackIInv
  OBVIOUS
<1> USE DEF PackInit
<1>1. ~ended /\ Ended1 = FALSE
  BY DEF Ended1
<1>2. IsPacker(bit_pack_0, code, ended) /\ IsPacker(bit_pack_1, ff00, Ended1)
  BY <1>1, EmptyIsPacker
<1>3. Rest(bit_pack_0, code) = <<>> /\ Rest(bit_pack_1, ff00) = <<>>
  BY EmptyIsPacker
<1> DEFINE none == <<>>
<1>4. none \in Bits /\ Len(none) = 0 /\ none \o none = none
  BY BitsNone
<1>5. FrontHalf(bit_pack_0, code, ended, image, <<>>)
  <2>1. Len(<<>>) = Size(0) /\ image = <<>> \o Rest(bit_pack_0, code) /\ <<>> = Escapes(<<>>, 0)
    BY <1>3, BitsNone, NoSize, EscapesNone
  <2>2. Passing(bit_pack_0, code, image, <<>>)
    BY <1>4, <2>1 DEF Passing
  <2> QED
    BY <1>1, <2>2 DEF FrontHalf
<1>6. BackHalf(bit_pack_1, ff00, Ended1, <<>>, packed, finished)
  <2>1. Len(<<>>) = 0 * Word /\ 0 \in Nat
    BY WordSizes
  <2>2. <<>> = packed \o Rest(bit_pack_1, ff00) /\ packed = <<>> /\ finished = FALSE
    BY <1>3, BitsNone
  <2> QED
    BY <2>1, <2>2 DEF BackHalf
<1>7. CountsFit
  BY EmptyIsPacker, WordIsBytes DEF CountsFit
<1>8. given \in 0 .. MaxCodes
  BY WordSizes
<1> QED
  BY <1>1, <1>2, <1>4, <1>5, <1>6, <1>7, <1>8 DEF PackIInv

(* The entropy coder's register is the port of the first packer.           *)
LEMMA CodeStep ==
  ASSUME PackIInv, NEW out_hold \in BOOLEAN, PackClock(out_hold),
         NEW h0, h0 = (Hold0(out_hold) /\ bit_pack_0.out_valid)
  PROVE  /\ IsPort(code') /\ ended' \in BOOLEAN /\ given' \in 0 .. MaxCodes
         /\ PortStep(bit_pack_0, code, ended, h0, code', ended')
         /\ image' \in Bits /\ image' = image \o New(bit_pack_0, code, h0, code')
<1> DEFINE held == IsHeld(bit_pack_0, code, h0)
<1>1. held <=> CodeHold(out_hold) /\ code.valid
  BY DEF IsHeld, CodeHold
<1>2. IsPort(code) /\ code \in Ports /\ ended \in BOOLEAN /\ image \in Bits /\ given \in 0 .. MaxCodes
      /\ MaxCodes \in Nat
  BY WordSizes DEF PackIInv, IsPacker, IsPort
<1>3. CASE held
  <2>1. code' = [code EXCEPT !.valid = TRUE] /\ given' = given /\ image' = image /\ ended' = ended
    BY <1>1, <1>3 DEF PackClock, KeepCode
  <2>2. code' = code
    BY <1>1, <1>2, <1>3, <2>1 DEF Ports
  <2>3. New(bit_pack_0, code, h0, code') = <<>>
    BY <1>3 DEF New
  <2>4. PortStep(bit_pack_0, code, ended, h0, code', ended')
    BY <1>3, <2>1, <2>2 DEF PortStep
  <2> QED
    BY <1>2, <2>1, <2>2, <2>3, <2>4, BitsNone
<1>4. CASE ~held /\ KeepCode(FALSE)
  <2>1. code' = [code EXCEPT !.valid = FALSE] /\ given' = given /\ image' = image /\ ended' = ended
    BY <1>4 DEF KeepCode
  <2>2. IsPort(code') /\ ~code'.valid
    <3> DEFINE c == [code EXCEPT !.valid = FALSE]
    <3>1. c \in Ports /\ c.valid = FALSE /\ Len(c.data) = 2 * Word
      BY <1>2 DEF Ports, IsPort
    <3> HIDE DEF c
    <3>2. IsPort(c)
      BY <3>1 DEF IsPort
    <3> QED
      BY <2>1, <3>1, <3>2 DEF c
  <2>3. New(bit_pack_0, code, h0, code') = <<>>
    BY <2>2 DEF New
  <2>4. PortStep(bit_pack_0, code, ended, h0, code', ended')
    BY <1>4, <2>1, <2>2 DEF PortStep
  <2> QED
    BY <1>2, <2>1, <2>2, <2>3, <2>4, BitsNone
<1>5. ASSUME ~held, NEW c \in Codes, NEW tlast \in BOOLEAN, NewCode(c, tlast)
      PROVE  /\ IsPort(code') /\ ended' \in BOOLEAN /\ given' \in 0 .. MaxCodes
             /\ PortStep(bit_pack_0, code, ended, h0, code', ended')
             /\ image' \in Bits /\ image' = image \o New(bit_pack_0, code, h0, code')
  <2> DEFINE d == Bus(c, 2 * Word)
  <2>1. /\ ~ended /\ given < MaxCodes /\ given' = given + 1 /\ image' = image \o c /\ ended' = tlast
        /\ code' = [data |-> d, nbits |-> Len(c), tlast |-> tlast, valid |-> TRUE]
    BY <1>5 DEF NewCode
  <2>2. c \in Bits /\ Len(c) \in 1 .. 2 * Word /\ 2 * Word \in Nat
    BY WordSizes
  <2>3. d \in Bits /\ Len(d) = 2 * Word /\ ClearFrom(d, Len(c)) /\ SubSeq(d, 1, Len(c)) = c
    <3>1. Len(c) <= 2 * Word
      BY <2>2
    <3> QED
      BY <2>2, <3>1, BusIs
  <2> HIDE DEF d
  <2>4. code'.data = d /\ code'.nbits = Len(c) /\ code'.tlast = tlast /\ code'.valid
    BY <2>1
  <2>5. code' \in Ports
    BY <2>1, <2>2, <2>3 DEF Ports
  <2>6. IsPort(code')
    BY <2>2, <2>3, <2>4, <2>5 DEF IsPort
  <2>7. New(bit_pack_0, code, h0, code') = c
    BY <1>5, <2>3, <2>4 DEF New
  <2>8. PortStep(bit_pack_0, code, ended, h0, code', ended')
    BY <1>5, <2>1, <2>4 DEF PortStep
  <2>9. image \o c \in Bits
    BY <1>2, <2>2, BitsJoin
  <2>10. given' \in 0 .. MaxCodes
    BY <1>2, <2>1
  <2> QED
    BY <2>1, <2>6, <2>7, <2>8, <2>9, <2>10
<1>6. ~held => KeepCode(FALSE) \/ \E c \in Codes, tlast \in BOOLEAN : NewCode(c, tlast)
  BY <1>1 DEF PackClock
<1> HIDE DEF held
<1> QED
  BY <1>3, <1>4, <1>5, <1>6

LEMMA CountFits ==
  ASSUME NEW p, NEW in, NEW e, NEW hold, IsPacker(p, in, e), p.out_nbytes \in 0 .. Word \div Byte
  PROVE  BitPack(p, in, hold).out_nbytes \in 0 .. Word \div Byte
<1>1. p \in BitPackers
  BY DEF IsPacker, Shape
<1>2. BitPack(p, in, hold).out_nbytes = Pack(p, hold).out_nbytes
  BY <1>1, BitPackIs
<1>3. CASE hold /\ p.out_valid
  BY <1>2, <1>3, PackHolds
<1>4. CASE ~(hold /\ p.out_valid)
  <2> DEFINE c == Counted(p, hold)
             n == Pack(p, hold).out_nbytes
  <2>1. n = IF NextTlastCycle(p) /\ c <= Word THEN (c + Byte - 1) \div Byte ELSE Word \div Byte
    BY <1>1, <1>4, PackIs
  <2>2. c \in Nat
    BY Places
  <2> HIDE DEF c, n
  <2>3. c = 0 => (c + Byte - 1) \div Byte = 0
    <3>1. Byte - 1 \in Nat /\ Byte - 1 \in 0 .. Byte - 1 /\ Byte - 1 = 0 * Byte + (Byte - 1)
          /\ Byte \in Nat /\ Byte > 0
      BY WordSizes
    <3>2. (Byte - 1) \div Byte = 0
      BY <3>1, DivisionIs
    <3>3. c = 0 => c + Byte - 1 = Byte - 1
      BY <3>1
    <3> QED
      BY <3>2, <3>3
  <2>4. c \in 1 .. Word => (c + Byte - 1) \div Byte \in 1 .. Word \div Byte
    BY WordIsBytes
  <2>5. c <= Word => c = 0 \/ c \in 1 .. Word
    BY <2>2, WordSizes
  <2> QED
    BY <1>2, <2>1, <2>3, <2>4, <2>5, WordIsBytes DEF n
<1> QED
  BY <1>3, <1>4

LEMMA PackStep ==
  ASSUME PackIInv, [PackNext]_packVars
  PROVE  PackIInv'
<1>1. CASE UNCHANGED packVars
  <2>1. /\ code' = code /\ bit_pack_0' = bit_pack_0 /\ ff00' = ff00 /\ bit_pack_1' = bit_pack_1
        /\ given' = given /\ image' = image /\ ended' = ended /\ packed' = packed /\ finished' = finished
    BY <1>1 DEF packVars
  <2> QED
    BY <2>1 DEF PackIInv, Ended1, CountsFit
<1>2. ASSUME NEW out_hold \in BOOLEAN, PackClock(out_hold) PROVE PackIInv'
  <2> DEFINE h1   == out_hold /\ bit_pack_1.out_valid
             held == IsHeld(bit_pack_1, ff00, h1)
             h0   == Hold0(out_hold) /\ bit_pack_0.out_valid
             a    == ended /\ Drained(bit_pack_0, code)
             b    == ended' /\ Drained(bit_pack_0', code')
  <2>1. PICK stuffed \in Bits : /\ FrontHalf(bit_pack_0, code, ended, image, stuffed)
                                /\ BackHalf(bit_pack_1, ff00, a, stuffed, packed, finished)
    BY DEF PackIInv, Ended1
  <2>2. /\ ended \in BOOLEAN /\ finished \in BOOLEAN /\ image \in Bits /\ packed \in Bits
        /\ IsPacker(bit_pack_0, code, ended) /\ IsPacker(bit_pack_1, ff00, a)
        /\ a \in BOOLEAN /\ b \in BOOLEAN
    BY DEF PackIInv, Ended1
  <2>3. /\ held <=> Hold1(out_hold) /\ ff00.valid
        /\ h0 <=> held /\ bit_pack_0.out_valid
    BY DEF IsHeld, Hold1, Hold0
  <2>4. /\ h1 \in BOOLEAN /\ h0 \in BOOLEAN /\ held \in BOOLEAN
        /\ held = (Hold1(out_hold) /\ ff00.valid) /\ h0 = (held /\ bit_pack_0.out_valid)
    <3>1. bit_pack_1.out_valid \in BOOLEAN
      BY <2>2 DEF IsPacker, Shape, BitPackers
    <3> QED
      BY <2>3, <3>1 DEF IsHeld
  <2>5. /\ bit_pack_0' = BitPack(bit_pack_0, code, h0)
        /\ ff00' = Ff00(ff00, bit_pack_0, held)
        /\ bit_pack_1' = BitPack(bit_pack_1, ff00, h1)
    BY <1>2, <2>4 DEF PackClock
  <2>6. /\ IsPort(code') /\ ended' \in BOOLEAN /\ given' \in 0 .. MaxCodes
        /\ PortStep(bit_pack_0, code, ended, h0, code', ended')
        /\ image' \in Bits /\ image' = image \o New(bit_pack_0, code, h0, code')
    BY <1>2, CodeStep
  <2>7. /\ packed' = IF bit_pack_1.out_valid /\ ~h1 THEN packed \o OutData(bit_pack_1) ELSE packed
        /\ finished' = IF bit_pack_1.out_valid /\ ~h1 THEN bit_pack_1.out_tlast ELSE finished
    BY <1>2 DEF PackClock
  <2> HIDE DEF h0, h1, held
  <2>8. IsPacker(bit_pack_0', code', ended')
    BY <2>2, <2>5, <2>6, PackerStep
  <2> DEFINE p2 == bit_pack_0'
             f2 == ff00'
             q2 == bit_pack_1'
             in2 == code'
             e2 == ended'
  <2>16. /\ p2 = BitPack(bit_pack_0, code, h0) /\ f2 = Ff00(ff00, bit_pack_0, held)
         /\ q2 = BitPack(bit_pack_1, ff00, h1)
         /\ IsPort(in2) /\ e2 \in BOOLEAN /\ PortStep(bit_pack_0, code, ended, h0, in2, e2)
         /\ image' = image \o New(bit_pack_0, code, h0, in2)
         /\ b = (e2 /\ Drained(p2, in2)) /\ a = (ended /\ Drained(bit_pack_0, code))
         /\ held = IsHeld(bit_pack_1, ff00, h1)
    BY <2>5, <2>6 DEF held
  <2> HIDE DEF p2, f2, q2, in2, e2, a, b
  <2>9. /\ IsPort(f2)
        /\ PortStep(bit_pack_1, ff00, a, h1, f2, b)
        /\ New(bit_pack_1, ff00, h1, f2) = FromFf00(bit_pack_0, h0)
    <3>1. /\ ended \in BOOLEAN /\ h0 \in BOOLEAN /\ e2 \in BOOLEAN
          /\ IsPacker(bit_pack_0, code, ended) /\ IsPort(in2) /\ PortStep(bit_pack_0, code, ended, h0, in2, e2)
          /\ (a <=> ended /\ Drained(bit_pack_0, code)) /\ IsPacker(bit_pack_1, ff00, a)
          /\ (held <=> IsHeld(bit_pack_1, ff00, h1)) /\ (h0 <=> held /\ bit_pack_0.out_valid)
          /\ p2 = BitPack(bit_pack_0, code, h0) /\ f2 = Ff00(ff00, bit_pack_0, held)
          /\ (b <=> e2 /\ Drained(p2, in2)) /\ a \in BOOLEAN /\ b \in BOOLEAN /\ held \in BOOLEAN
      BY <2>2, <2>4, <2>16
    <3> QED
      BY ONLY <3>1, MiddleStep DEF FromFf00
  <2>10. FrontHalf(p2, in2, e2, image', stuffed \o FromFf00(bit_pack_0, h0))
    <3>1. /\ ended \in BOOLEAN /\ h0 \in BOOLEAN /\ e2 \in BOOLEAN /\ image \in Bits /\ stuffed \in Bits
          /\ IsPacker(bit_pack_0, code, ended) /\ IsPort(in2) /\ p2 = BitPack(bit_pack_0, code, h0)
          /\ PortStep(bit_pack_0, code, ended, h0, in2, e2) /\ FrontHalf(bit_pack_0, code, ended, image, stuffed)
      BY <2>1, <2>2, <2>4, <2>16
    <3>2. FrontHalf(p2, in2, e2, image \o New(bit_pack_0, code, h0, in2), stuffed \o FromFf00(bit_pack_0, h0))
      BY ONLY <3>1, FrontNext
    <3> QED
      BY <2>16, <3>2
  <2>11. stuffed \o FromFf00(bit_pack_0, h0) \in Bits
    <3>1. New(bit_pack_1, ff00, h1, f2) \in Bits
      BY <2>9, NewType
    <3> QED
      BY <2>1, <2>9, <3>1, BitsJoin
  <2>12. CountsFit'
    <3>1. bit_pack_0'.out_nbytes \in 0 .. Word \div Byte
      BY <2>2, <2>5, CountFits DEF PackIInv, CountsFit
    <3>2. bit_pack_1'.out_nbytes \in 0 .. Word \div Byte
      BY <2>2, <2>5, CountFits DEF PackIInv, CountsFit
    <3> QED
      BY <3>1, <3>2 DEF CountsFit
  <2>13. IsPacker(q2, f2, b)
    BY <2>2, <2>9, <2>16, PackerStep
  <2>14. /\ packed' \in Bits /\ finished' \in BOOLEAN
         /\ BackHalf(q2, f2, b, stuffed \o FromFf00(bit_pack_0, h0), packed', finished')
    <3>1. /\ a \in BOOLEAN /\ h1 \in BOOLEAN /\ b \in BOOLEAN /\ finished \in BOOLEAN
          /\ stuffed \in Bits /\ packed \in Bits /\ q2 = BitPack(bit_pack_1, ff00, h1)
          /\ IsPacker(bit_pack_1, ff00, a) /\ IsPort(f2) /\ PortStep(bit_pack_1, ff00, a, h1, f2, b)
          /\ BackHalf(bit_pack_1, ff00, a, stuffed, packed, finished)
      BY <2>1, <2>2, <2>4, <2>9, <2>16
    <3>2. /\ bit_pack_1.out_valid /\ ~h1 =>
               packed' = packed \o OutData(bit_pack_1) /\ finished' = bit_pack_1.out_tlast
          /\ ~(bit_pack_1.out_valid /\ ~h1) => packed' = packed /\ finished' = finished
      BY <2>7
    <3> DEFINE packed2 == packed'
               finished2 == finished'
    <3> HIDE DEF packed2, finished2
    <3>3. /\ packed2 \in Bits /\ finished2 \in BOOLEAN
          /\ BackHalf(q2, f2, b, stuffed \o New(bit_pack_1, ff00, h1, f2), packed2, finished2)
      <4>1. /\ bit_pack_1.out_valid /\ ~h1 =>
                 packed2 = packed \o OutData(bit_pack_1) /\ finished2 = bit_pack_1.out_tlast
            /\ ~(bit_pack_1.out_valid /\ ~h1) => packed2 = packed /\ finished2 = finished
        BY <3>2 DEF packed2, finished2
      <4> QED
        BY ONLY <3>1, <4>1, BackNext
    <3> QED
      BY <2>9, <3>3 DEF packed2, finished2
  <2>15. Ended1' = b
    BY DEF Ended1, b
  <2> QED
    BY <2>6, <2>8, <2>10, <2>11, <2>12, <2>13, <2>14, <2>15 DEF PackIInv, p2, f2, q2, in2, e2
<1> QED
  BY <1>1, <1>2 DEF PackNext

LEMMA PackInvariance == PackSpec => []PackIInv
BY PackInitHolds, PackStep, PTL DEF PackSpec

(* The counters of the packers never exceed their registers (bit_pack.sv,  *)
(* ff00.sv).                                                               *)
THEOREM PackTypeCorrect == PackSpec => []PackTypeOK
<1>1. ASSUME PackIInv PROVE PackTypeOK
  <2>1. ASSUME NEW p, NEW in, NEW e, IsPacker(p, in, e), p.out_nbytes \in 0 .. Word \div Byte
        PROVE  IsBitPack(p)
    <3>1. p \in BitPackers /\ Len(p.in32_data) = Word /\ Len(p.bit_packer) = 2 * Word /\ p.bit_count < 2 * Word
      BY <2>1 DEF IsPacker, Shape
    <3>2. p.bit_count \in 0 .. 2 * Word - 1
      BY <3>1, WordSizes DEF BitPackers
    <3> QED
      BY <2>1, <3>1, <3>2 DEF IsBitPack, BitPackers, Bits
  <2>2. IsBitPack(bit_pack_0)
    BY <1>1, <2>1 DEF PackIInv, CountsFit
  <2>3. IsBitPack(bit_pack_1)
    BY <1>1, <2>1 DEF PackIInv, CountsFit
  <2>4. ff00.data \in Bits /\ Len(ff00.data) = 2 * Word /\ ff00.nbits \in 0 .. 2 * Word
    BY <1>1 DEF PackIInv, IsPacker, IsPort, Ports
  <2>5. given \in 0 .. MaxCodes /\ {ended, finished} \subseteq BOOLEAN
    BY <1>1 DEF PackIInv
  <2> QED
    BY <2>2, <2>3, <2>4, <2>5 DEF PackTypeOK, Bits
<1> QED
  BY <1>1, PackInvariance, PTL

(* What a packer or a file begins with.                                    *)
LEMMA PrefixIs ==
  ASSUME NEW s \in Bits, NEW t \in Bits
  PROVE  IsPrefix(s, s \o t)
<1> DEFINE l == Len(s)
           u == s \o t
<1>1. l \in Nat /\ Len(t) \in Nat /\ u \in Bits /\ Len(u) = l + Len(t)
  BY LenIsNat, BitsJoin
<1>2. \A i \in 1 .. l : u[i] = s[i]
  BY BitsOfJoin
<1> HIDE DEF l, u
<1>3. l <= Len(u) /\ l <= Len(s)
  BY <1>1 DEF l
<1>4. SubSeq(u, 1, l) \in Bits /\ Len(SubSeq(u, 1, l)) = l /\ \A i \in 1 .. l : SubSeq(u, 1, l)[i] = u[i]
  BY <1>1, <1>3, BitsFront
<1>5. SubSeq(s, 1, l) \in Bits /\ Len(SubSeq(s, 1, l)) = l /\ \A i \in 1 .. l : SubSeq(s, 1, l)[i] = s[i]
  BY <1>1, <1>3, BitsFront
<1>6. SubSeq(s, 1, l) = SubSeq(u, 1, l)
  BY <1>2, <1>4, <1>5, BitsSame
<1> QED
  BY <1>3, <1>6 DEF IsPrefix, l, u

LEMMA FilledAdds ==
  ASSUME NEW s \in Bits, NEW n \in Nat, n > 0
  PROVE  \E t \in Bits : Filled(s, n) = s \o t
<1>1. CASE Len(s) % n = 0
  BY <1>1, BitsNone DEF Filled
<1>2. CASE Len(s) % n # 0
  <2>1. n - (Len(s) % n) \in Nat
    BY LenIsNat
  <2>2. Ones(n - (Len(s) % n)) \in Bits
    BY <2>1, BitsConst
  <2> QED
    BY <1>2, <2>2 DEF Filled
<1> QED
  BY <1>1, <1>2

(* The front of an image gives the front of its file.                      *)
LEMMA ReferenceAdds ==
  ASSUME NEW s \in Bits, NEW n \in Nat, Len(s) = Size(n), NEW t \in Bits
  PROVE  \E u \in Bits : Reference(s \o t) = Escapes(s, n) \o u
<1> DEFINE img == s \o t
           file == Filled(img, Byte)
           l == Len(file) \div Byte
<1>1. PICK z \in Bits : file = img \o z
  <2>1. img \in Bits /\ Byte \in Nat /\ Byte > 0
    BY BitsJoin, WordSizes
  <2> HIDE DEF img
  <2> QED
    BY <2>1, FilledAdds
<1>2. img \o z = s \o (t \o z)
  BY BitsAssoc
<1> DEFINE x == t \o z
<1>3. x \in Bits
  BY BitsJoin
<1>4. file = s \o x
  BY <1>1, <1>2
<1> HIDE DEF x, img, file
<1>5. Len(file) = Size(n) + Len(x) /\ Len(x) \in Nat /\ Size(n) \in Nat /\ Len(file) \in Nat
  <2>1. Len(s \o x) = Len(s) + Len(x)
    BY <1>3, BitsJoin
  <2>2. Len(x) \in Nat
    BY <1>3, LenIsNat
  <2>3. Size(n) \in Nat
    BY SizeStep
  <2> QED
    BY <1>4, <2>1, <2>2, <2>3
<1>6. l \in Nat /\ Size(l) <= Len(file) /\ Len(file) < Size(l + 1)
  BY <1>5, WordSizes DEF Size
<1> HIDE DEF l
<1>7. n <= l
  <2> SUFFICES ASSUME l + 1 <= n PROVE FALSE
    BY <1>6
  <2>1. l + 1 \in Nat /\ l + 1 <= n
    BY <1>6
  <2>2. Size(l + 1) <= Size(n)
    BY ONLY <2>1, n \in Nat, SizeOrder
  <2>3. Size(l + 1) \in Nat
    BY <2>1, SizeStep
  <2> QED
    BY <1>5, <1>6, <2>2, <2>3
<1> DEFINE m == l - n
<1>8. m \in Nat /\ n + m = l
  BY <1>6, <1>7
<1> HIDE DEF m
<1>9. Size(n + m) = Size(n) + Size(m)
  BY <1>8, SizeSum
<1>10. Size(m) <= Len(x)
  <2>1. Size(m) \in Nat
    BY <1>8, SizeStep
  <2> QED
    BY <1>5, <1>6, <1>8, <1>9, <2>1
<1>11. Escapes(s \o x, n + m) = Escapes(s, n) \o Escapes(x, m)
  BY <1>3, <1>8, <1>10, EscapesJoin
<1>12. Escapes(x, m) \in Bits
  BY <1>3, <1>8, <1>10, EscapesAre
<1>13. Reference(s \o t) = Escapes(file, l)
  BY ReferenceIs DEF file, img, l
<1> QED
  BY <1>4, <1>8, <1>11, <1>12, <1>13

(* The words that leave are the stuffed bytes of the codes in their order, *)
(* all of them and filled with ones when the last is out (byte_pack.sv).   *)
THEOREM CodesComeOut == PackSpec => []ImageIsItsCodes
<1>1. ASSUME PackIInv PROVE ImageIsItsCodes
  <2> DEFINE a == ended /\ Drained(bit_pack_0, code)
  <2>1. PICK stuffed \in Bits : /\ FrontHalf(bit_pack_0, code, ended, image, stuffed)
                                /\ BackHalf(bit_pack_1, ff00, a, stuffed, packed, finished)
    BY <1>1 DEF PackIInv, Ended1
  <2>2. /\ image \in Bits /\ packed \in Bits /\ finished \in BOOLEAN
        /\ IsPacker(bit_pack_0, code, ended) /\ IsPacker(bit_pack_1, ff00, a)
    BY <1>1 DEF PackIInv, Ended1
  <2> DEFINE words == Filled(Reference(image), Word)
  <2>3. CASE finished
    <3>1. a /\ packed = Filled(stuffed, Word)
      BY <2>1, <2>3 DEF BackHalf
    <3>2. stuffed = Reference(image)
      BY <2>1, <3>1 DEF FrontHalf
    <3> QED
      BY <2>3, <3>1, <3>2 DEF ImageIsItsCodes
  <2>4. CASE ~finished
    <3> DEFINE rest == Rest(bit_pack_1, ff00)
    <3>1. stuffed = packed \o rest
      BY <2>1, <2>4 DEF BackHalf
    <3>2. rest \in Bits
      <4>1. Kept(bit_pack_1) \in Bits /\ Waiting(bit_pack_1) \in Bits /\ Coming(bit_pack_1, ff00) \in Bits
        BY <2>2, RestType
      <4> QED
        BY <4>1, BitsJoin DEF Rest
    <3>3. \E u \in Bits : Reference(image) = stuffed \o u
      <4>1. CASE a
        <5>1. stuffed = Reference(image)
          BY <2>1, <4>1 DEF FrontHalf
        <5> QED
          BY <5>1, BitsNone
      <4>2. CASE ~a
        <5>1. PICK passed \in Bits, n \in Nat :
                Len(passed) = Size(n) /\ image = passed \o Rest(bit_pack_0, code) /\ stuffed = Escapes(passed, n)
          BY <2>1, <4>2 DEF FrontHalf, Passing
        <5>2. Rest(bit_pack_0, code) \in Bits
          <6>1. Kept(bit_pack_0) \in Bits /\ Waiting(bit_pack_0) \in Bits /\ Coming(bit_pack_0, code) \in Bits
            BY <2>2, RestType
          <6> QED
            BY <6>1, BitsJoin DEF Rest
        <5> QED
          BY <5>1, <5>2, ReferenceAdds
      <4> QED
        BY <4>1, <4>2
    <3> HIDE DEF rest
    <3>4. PICK u \in Bits : Reference(image) = stuffed \o u
      BY <3>3
    <3>5. Reference(image) \in Bits
      BY <3>4, BitsJoin
    <3>6. PICK t \in Bits : words = Reference(image) \o t
      BY <3>5, WordSizes, FilledAdds
    <3>7. (stuffed \o u) \o t = stuffed \o (u \o t)
      BY ONLY stuffed \in Bits, u \in Bits, t \in Bits, BitsAssoc
    <3> DEFINE v == u \o t
    <3>8. v \in Bits
      BY ONLY u \in Bits, t \in Bits, BitsJoin
    <3> HIDE DEF v
    <3>p. packed \in Bits
      BY <2>2
    <3>9. (packed \o rest) \o v = packed \o (rest \o v)
      BY ONLY <3>p, <3>2, <3>8, BitsAssoc, ZenonT(60)
    <3>10. rest \o v \in Bits
      BY ONLY <3>2, <3>8, BitsJoin
    <3>11. words = packed \o (rest \o v)
      BY <3>1, <3>4, <3>6, <3>7, <3>9 DEF v
    <3>12. IsPrefix(packed, packed \o (rest \o v))
      BY <2>2, <3>10, PrefixIs
    <3> QED
      BY <2>4, <3>11, <3>12 DEF ImageIsItsCodes
  <2> QED
    BY <2>2, <2>3, <2>4
<1> QED
  BY <1>1, PackInvariance, PTL
================================================================================
