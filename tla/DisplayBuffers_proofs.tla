------------------------- MODULE DisplayBuffers_proofs -------------------------
(* Theorems about DisplayBuffers, for screens of any size and any sprites: *)
(* no frame is torn whenever they are drawn and shown, and scripts that    *)
(* wait see what they drew.                                                *)
EXTENDS DisplayBuffers, WellFoundedInduction, TLAPS

(* A nonempty set of numbers that has a bound has a largest element.       *)
LEMMA MaxInSet ==
  ASSUME NEW n \in Nat, NEW S \in SUBSET (0 .. n), S # {}
  PROVE  Max(S) \in S
<1> DEFINE T == {n - i : i \in S}
<1>1. T \subseteq Nat /\ T # {}
  <2>1. \A i \in S : n - i \in Nat
    OBVIOUS
  <2> QED
    BY <2>1
<1>2. PICK x \in T : \A y \in T : ~ (<<y, x>> \in OpToRel(<, Nat))
  <2> HIDE DEF T
  <2> QED
    BY <1>1, NatLessThanWellFounded, WFMin
<1>3. \A y \in T : ~ (y < x)
  BY <1>1, <1>2 DEF OpToRel
<1>4. PICK i \in S : x = n - i
  OBVIOUS
<1>5. \A j \in S : i >= j
  BY <1>3, <1>4, SMTT(30)
<1> QED
  BY <1>5 DEF Max

(* The powers of two that select a pixel of a byte.                        *)
LEMMA Powers ==
  ASSUME NEW bits \in {1, 2, 4}, NEW r \in 1 .. 8, bits * r <= 8
  PROVE  2^(bits * (r - 1)) \in Nat \ {0} /\ 2^bits \in {2, 4, 16}
<1>1. /\ 2^0 = 1 /\ 2^1 = 2 /\ 2^2 = 4 /\ 2^3 = 8
      /\ 2^4 = 16 /\ 2^5 = 32 /\ 2^6 = 64 /\ 2^7 = 128
  OBVIOUS
<1>2. bits * (r - 1) \in 0 .. 7
  OBVIOUS
<1>3. \A k \in 0 .. 7 : 2^k \in Nat \ {0}
  <2> TAKE k \in 0 .. 7
  <2>1. k = 0 \/ k = 1 \/ k = 2 \/ k = 3 \/ k = 4 \/ k = 5 \/ k = 6 \/ k = 7
    OBVIOUS
  <2>2. /\ k = 0 => 2^k = 2^0
        /\ k = 1 => 2^k = 2^1
        /\ k = 2 => 2^k = 2^2
        /\ k = 3 => 2^k = 2^3
        /\ k = 4 => 2^k = 2^4
        /\ k = 5 => 2^k = 2^5
        /\ k = 6 => 2^k = 2^6
        /\ k = 7 => 2^k = 2^7
    BY Zenon
  <2> QED
    BY <1>1, <2>1, <2>2
<1> QED
  BY <1>1, <1>2, <1>3

(* Every pixel of a sprite has one of the sixteen colors.                  *)
LEMMA PixelTyped ==
  ASSUME NEW byte \in Byte, NEW colors \in {2, 4, 16}, NEW r \in 1 .. PixelsPerByte(colors),
         NEW offset \in Color
  PROVE  PaletteIndex(PixelOf(byte, colors, r), offset) \in Color
<1> DEFINE bits == BitsPerPixel[colors]
           pixel == (byte \div 2^(bits * (r - 1))) % 2^bits
<1>1. bits \in {1, 2, 4}
  BY DEF BitsPerPixel
<1>2. r \in 1 .. 8 /\ bits * r <= 8
  BY <1>1, DisplayAssumption DEF PixelsPerByte
<1>3. 2^(bits * (r - 1)) \in Nat \ {0} /\ 2^bits \in {2, 4, 16}
  BY <1>1, <1>2, Powers
<1>4. byte \in Nat
  BY DEF Byte
<1>5. pixel \in Nat
  <2> DEFINE d == 2^(bits * (r - 1))
  <2>1. d \in Nat \ {0}
    BY <1>3
  <2> HIDE DEF d
  <2>2. byte \div d \in Nat
    BY <1>4, <2>1
  <2> QED
    BY <1>3, <2>2 DEF d
<1> HIDE DEF pixel
<1>6. offset \in 0 .. 15
  BY DEF Color
<1> QED
  BY <1>5, <1>6 DEF PaletteIndex, PixelOf, Color, pixel

(* The picture that a sprite is expected to give is a picture.             *)
LEMMA PictureTyped ==
  ASSUME NEW s \in Sprites, NEW picture \in [Screen -> Color]
  PROVE  WithSprite(picture, s) \in [Screen -> Color]
<1> DEFINE n   == PixelsPerByte(s.colors)
           all == 0 .. Len(s.bytes) * n - 1
           at(p) == {i \in all : Place(s, i) = p}
<1>1. s.colors \in {2, 4, 16} /\ s.offset \in Color /\ s.bytes \in Seq(Byte)
  BY DisplayAssumption DEF Sprite, BitsPerPixel
<1>2. n \in {1, 2, 4, 8}
  BY <1>1, DisplayAssumption, SMTT(30) DEF PixelsPerByte, BitsPerPixel
<1>3. \A i \in all : ColorOf(s, i) \in Color
  <2> TAKE i \in all
  <2>1. (i \div n) + 1 \in 1 .. Len(s.bytes) /\ n - (i % n) \in 1 .. n
    <3>1. Len(s.bytes) \in Nat
      BY <1>1
    <3> HIDE DEF n
    <3> QED
      BY <1>2, <3>1
  <2>2. s.bytes[(i \div n) + 1] \in Byte
    BY <1>1, <2>1
  <2> QED
    BY <1>1, <2>1, <2>2, PixelTyped DEF ColorOf
<1>4. \A p \in Screen : at(p) # {} => Max(at(p)) \in all
  <2> TAKE p \in Screen
  <2> SUFFICES ASSUME at(p) # {} PROVE Max(at(p)) \in all
    OBVIOUS
  <2>1. Len(s.bytes) * n - 1 \in Nat
    <3>1. Len(s.bytes) \in Nat
      BY <1>1
    <3> HIDE DEF n
    <3> QED
      BY <1>2, <3>1
  <2> QED
    BY <2>1, MaxInSet
<1> QED
  BY <1>3, <1>4 DEF WithSprite

-----------------------------------------------------------------------------
Pens == [x : 0 .. PenRange - 1, y : 0 .. PenRange - 1]

(* The inductive invariant: the types, the pixels of a byte that may still *)
(* be to come, the clear logic at rest past its last address, and a frame  *)
(* that is whole so far.                                                   *)
IInv ==
  /\ TypeOK
  /\ pixels_remaining <= PixelsPerByte(sprite.colors)
  /\ clear_flag => clear_address_counter <= Pixels
  /\ NoTearing

(* Facts about the constants that many steps need.                         *)
LEMMA ConstantFacts ==
  /\ Pixels \in Nat \ {0} /\ FrameTicks \in Nat \ {0}
  /\ \A s \in Sprites : /\ s.colors \in {2, 4, 16} /\ s.offset \in Color
                        /\ s.bytes \in Seq(Byte) /\ s.x \in 0 .. PenRange - 1
                        /\ s.y \in 0 .. PenRange - 1 /\ s.width \in Nat \ {0}
                        /\ PixelsPerByte(s.colors) \in {1, 2, 4, 8}
                        /\ PixelsPerByte(s.colors) <= ByteBits
  /\ Black \in [Screen -> Color] /\ 0 \in Byte /\ ByteBits \in {4, 8} /\ PenRange \in Nat \ {0}
<1>1. Pixels \in Nat \ {0}
  BY DisplayAssumption DEF Pixels
<1>2. FrameTicks \in Nat \ {0}
  BY <1>1, DisplayAssumption DEF FrameTicks
<1>3. ASSUME NEW s \in Sprites
      PROVE  /\ s.colors \in {2, 4, 16} /\ s.offset \in Color
             /\ s.bytes \in Seq(Byte) /\ s.x \in 0 .. PenRange - 1
             /\ s.y \in 0 .. PenRange - 1 /\ s.width \in Nat \ {0}
  <2>1. /\ s \in Sprite /\ Width \in Nat /\ Height \in Nat /\ PenRange \in Nat
        /\ Width <= PenRange /\ Height <= PenRange
    BY DisplayAssumption
  <2>2. DOMAIN BitsPerPixel = {2, 4, 16}
    BY DEF BitsPerPixel
  <2>3. /\ s.colors \in {2, 4, 16} /\ s.offset \in Color /\ s.bytes \in Seq(Byte)
        /\ s.x \in 0 .. Width - 1 /\ s.y \in 0 .. Height - 1 /\ s.width \in 1 .. Width
    BY <2>1, <2>2 DEF Sprite
  <2> QED
    BY <2>1, <2>3
<1>4. ASSUME NEW s \in Sprites
      PROVE  PixelsPerByte(s.colors) \in {1, 2, 4, 8} /\ PixelsPerByte(s.colors) <= ByteBits
  BY <1>3, DisplayAssumption, SMTT(30) DEF PixelsPerByte, BitsPerPixel
<1>5. Black \in [Screen -> Color]
  BY DEF Black, Color
<1>6. 0 \in Byte
  <2>1. 2^4 = 16 /\ 2^8 = 256
    OBVIOUS
  <2>2. (ByteBits = 4 => 2^ByteBits = 2^4) /\ (ByteBits = 8 => 2^ByteBits = 2^8)
    BY Zenon
  <2> QED
    BY <2>1, <2>2, DisplayAssumption DEF Byte
<1> QED
  BY <1>1, <1>2, <1>3, <1>4, <1>5, <1>6, DisplayAssumption

LEMMA InitInv == Init => IInv
<1> SUFFICES ASSUME Init PROVE IInv
  OBVIOUS
<1>1. sprite \in Sprites
  BY DisplayAssumption DEF Init
<1>2. TypeOK
  <2>1. /\ first \in BOOLEAN /\ patient \in BOOLEAN /\ displayed_buffer \in Buffers
        /\ buffer_switch_pending \in BOOLEAN /\ clear_flag \in BOOLEAN
    BY DEF Init, Buffers
  <2>5. bytes \in Seq(Byte) /\ pen \in Pens
    BY ConstantFacts DEF Init, Pens
  <2>6. drawn_fits \in BOOLEAN /\ shown_fits \in BOOLEAN
    BY DEF Init
  <2>4. {draws, shows, current, whole} \subseteq Nat
    BY DEF Init
  <2>2. /\ data \in Byte /\ pixels_remaining \in 0 .. ByteBits
        /\ beam \in 0 .. FrameTicks - 1 /\ clear_address_counter \in 0 .. Pixels + 1
    BY ConstantFacts DEF Init
  <2>3. /\ mem \in [Buffers -> [Screen -> Color]] /\ sent \in [Screen -> Color]
        /\ drawn \in [Screen -> Color] /\ shown \in [Screen -> Color]
    BY ConstantFacts DEF Init
  <2> QED
    BY <1>1, <2>1, <2>2, <2>3, <2>4, <2>5, <2>6 DEF TypeOK, Pens
<1>3. NoTearing
  BY DisplayAssumption DEF Init, NoTearing, ReadAddress, Screen
<1> QED
  BY <1>1, <1>2, <1>3, ConstantFacts DEF Init, IInv

(* The calls of a script leave the buffers alone.                          *)
LEMMA BitmapInv == ASSUME IInv, NEW s \in Sprites, LuaDisplayBitmap(s) PROVE IInv'
<1>1. /\ sprite' = s /\ bytes' = s.bytes /\ first' = TRUE /\ draws' = draws + 1
      /\ drawn' = WithSprite(drawn, s) /\ drawn_fits' = (drawn_fits /\ Fits(s))
      /\ pixels_remaining = 0
      /\ UNCHANGED <<patient, data, pixels_remaining, pen, displayed_buffer, clear_flag,
                     clear_address_counter, beam, sent, shown, shown_fits, current, whole,
                     buffer_switch_pending, mem, shows>>
  BY DEF LuaDisplayBitmap, SpiIsFree, engine, switch, raster
<1>2. drawn' \in [Screen -> Color]
  BY <1>1, PictureTyped DEF IInv, TypeOK
<1>3. TypeOK'
  <2>1. bytes' \in Seq(Byte) /\ {draws', shows', current', whole'} \subseteq Nat
    BY <1>1, ConstantFacts DEF IInv, TypeOK
  <2>2. drawn_fits' \in BOOLEAN
    BY <1>1 DEF Fits
  <2> QED
    BY <1>1, <1>2, <2>1, <2>2 DEF IInv, TypeOK
<1>4. pixels_remaining' <= PixelsPerByte(sprite.colors)'
  BY <1>1, ConstantFacts
<1>5. NoTearing'
  BY <1>1 DEF IInv, NoTearing, ReadAddress
<1> QED
  BY <1>1, <1>3, <1>4, <1>5 DEF IInv

LEMMA ShowInv == ASSUME IInv, LuaDisplayShow PROVE IInv'
<1>1. /\ buffer_switch_pending' = TRUE /\ shows' = shows + 1
      /\ UNCHANGED <<patient, sprite, bytes, first, data, pixels_remaining, pen,
                     displayed_buffer, clear_flag, clear_address_counter,
                     beam, sent, shown, shown_fits, current, whole, mem, drawn, drawn_fits, draws>>
  BY DEF LuaDisplayShow, spi, engine, switch, raster
<1>2. TypeOK'
  BY <1>1 DEF IInv, TypeOK
<1>3. NoTearing'
  BY <1>1 DEF IInv, NoTearing, ReadAddress
<1> QED
  BY <1>1, <1>2, <1>3 DEF IInv, PixelsPerByte

LEMMA NewPixelsInv == ASSUME IInv, NewPixels PROVE IInv'
<1>1. /\ bytes # <<>> /\ data' = Head(bytes) /\ bytes' = Tail(bytes) /\ first' = FALSE
      /\ pixels_remaining' = PixelsPerByte(sprite.colors)
      /\ pen' = IF first THEN [x |-> sprite.x, y |-> sprite.y] ELSE pen
      /\ UNCHANGED <<patient, sprite, displayed_buffer, clear_flag, clear_address_counter,
                     beam, sent, shown, shown_fits, current, whole, buffer_switch_pending,
                     mem, drawn, drawn_fits, draws, shows>>
  BY DEF NewPixels, switch, raster
<1>2. sprite \in Sprites /\ bytes \in Seq(Byte) /\ pen \in Pens
  BY DEF IInv, TypeOK, Pens
<1>3. data' \in Byte /\ bytes' \in Seq(Byte)
  BY <1>1, <1>2
<1>4. pixels_remaining' \in 0 .. ByteBits /\ pen' \in Pens
  BY <1>1, <1>2, ConstantFacts DEF Pens
<1>5. TypeOK'
  BY <1>1, <1>3, <1>4 DEF IInv, TypeOK, Pens
<1>6. NoTearing'
  BY <1>1 DEF IInv, NoTearing, ReadAddress
<1>7. pixels_remaining' <= PixelsPerByte(sprite.colors)'
  <2>1. PixelsPerByte(sprite.colors) \in {1, 2, 4, 8}
    BY <1>2, ConstantFacts
  <2>2. PixelsPerByte(sprite.colors)' = PixelsPerByte(sprite.colors)
    BY <1>1 DEF PixelsPerByte
  <2> QED
    BY <1>1, <2>1, <2>2
<1> QED
  BY <1>1, <1>5, <1>6, <1>7 DEF IInv

(* A pixel is drawn on the hidden buffer.                                  *)
LEMMA DrawInv == ASSUME IInv, Draw PROVE IInv'
<1> DEFINE address == (pen.x + pen.y * Width) % AddressSpace
           color   == PaletteIndex(PixelOf(data, sprite.colors, pixels_remaining), sprite.offset)
<1>1. /\ pixels_remaining > 0 /\ pixels_remaining' = pixels_remaining - 1
      /\ mem' = (IF clear_flag \/ address \notin Screen
                   THEN mem ELSE [mem EXCEPT ![Hidden][address] = color])
      /\ pen' = NextPen
      /\ UNCHANGED <<patient, sprite, bytes, first, data, displayed_buffer, clear_flag,
                     clear_address_counter, beam, sent, shown, shown_fits, current, whole,
                     buffer_switch_pending, drawn, drawn_fits, draws, shows>>
  BY DEF Draw, spi, switch, raster
<1>2. /\ sprite \in Sprites /\ data \in Byte /\ pen \in Pens
      /\ pixels_remaining \in 0 .. ByteBits /\ pixels_remaining <= PixelsPerByte(sprite.colors)
      /\ displayed_buffer \in {0, 1} /\ mem \in [Buffers -> [Screen -> Color]]
  BY DEF IInv, TypeOK, Buffers, Pens
<1>3. color \in Color
  BY <1>1, <1>2, ConstantFacts, PixelTyped
<1>4. Hidden \in Buffers /\ Hidden # displayed_buffer
  BY <1>2 DEF Hidden, Buffers
<1>5. /\ mem' \in [Buffers -> [Screen -> Color]]
      /\ mem'[displayed_buffer] = mem[displayed_buffer]
  <2> HIDE DEF address, color
  <2>1. CASE clear_flag \/ address \notin Screen
    BY <1>1, <1>2, <2>1
  <2>2. CASE ~(clear_flag \/ address \notin Screen)
    BY <1>1, <1>2, <1>3, <1>4, <2>2 DEF Buffers
  <2> QED
    BY <2>1, <2>2
<1>6. pen' \in Pens
  <2>1. sprite.x \in 0 .. PenRange - 1 /\ pen.x + 1 \in Nat /\ pen.y + 1 \in Nat
    BY <1>2, ConstantFacts DEF Pens
  <2>2. (pen.x + 1) % PenRange \in 0 .. PenRange - 1 /\ (pen.y + 1) % PenRange \in 0 .. PenRange - 1
    BY <2>1, ConstantFacts
  <2>3. [pen EXCEPT !.x = (pen.x + 1) % PenRange] \in Pens
    BY <1>2, <2>2 DEF Pens
  <2>4. [x |-> sprite.x, y |-> (pen.y + 1) % PenRange] \in Pens
    BY <2>1, <2>2 DEF Pens
  <2> QED
    BY <1>1, <2>3, <2>4 DEF NextPen
<1>7. pixels_remaining' \in 0 .. ByteBits /\ pixels_remaining' <= PixelsPerByte(sprite.colors)'
  <2>1. PixelsPerByte(sprite.colors)' = PixelsPerByte(sprite.colors)
    BY <1>1 DEF PixelsPerByte
  <2>2. pixels_remaining' \in 0 .. ByteBits /\ pixels_remaining' <= pixels_remaining
    BY <1>1, <1>2, ConstantFacts
  <2>3. PixelsPerByte(sprite.colors) \in Nat
    BY <1>2, ConstantFacts
  <2> QED
    BY <1>2, <2>1, <2>2, <2>3
<1>8. TypeOK'
  BY <1>1, <1>5, <1>6, <1>7 DEF IInv, TypeOK, Pens
<1>9. NoTearing'
  BY <1>1, <1>5 DEF IInv, NoTearing, ReadAddress
<1> QED
  BY <1>1, <1>7, <1>8, <1>9 DEF IInv

(* A tick clears a pixel of the hidden buffer, sends one of the displayed  *)
(* buffer, and may exchange them while the read address is 0.              *)
LEMMA TickInv == ASSUME IInv, Tick PROVE IInv'
<1>1. /\ displayed_buffer \in {0, 1} /\ mem \in [Buffers -> [Screen -> Color]]
      /\ beam \in 0 .. FrameTicks - 1 /\ sent \in [Screen -> Color]
      /\ clear_address_counter \in 0 .. Pixels + 1 /\ clear_flag \in BOOLEAN
  BY DEF IInv, TypeOK, Buffers
<1>2. UNCHANGED <<patient, sprite, bytes, first, data, pixels_remaining, pen, draws, shows>>
  BY DEF Tick, spi, engine
<1>3. Hidden \in Buffers /\ Hidden # displayed_buffer
  BY <1>1 DEF Hidden, Buffers
<1>4. /\ mem' \in [Buffers -> [Screen -> Color]]
      /\ mem'[displayed_buffer] = mem[displayed_buffer]
  <2>1. CASE clear_flag /\ clear_address_counter \in Screen
    <3>1. mem' = [mem EXCEPT ![Hidden][clear_address_counter] = 0]
      BY <2>1 DEF Tick, ClearPixel
    <3>2. 0 \in Color
      BY DEF Color
    <3> QED
      BY <1>1, <1>3, <3>1, <3>2 DEF Buffers
  <2>2. CASE ~(clear_flag /\ clear_address_counter \in Screen)
    <3>1. mem' = mem
      BY <2>2 DEF Tick, ClearPixel
    <3> QED
      BY <1>1, <3>1
  <2> QED
    BY <2>1, <2>2
<1>5. /\ displayed_buffer' = (IF MaySwitch THEN Hidden ELSE displayed_buffer)
      /\ buffer_switch_pending' = (buffer_switch_pending /\ ~MaySwitch)
      /\ clear_flag' = (IF clear_flag THEN clear_address_counter # Pixels ELSE MaySwitch)
      /\ clear_address_counter' =
           IF clear_flag THEN clear_address_counter + 1
           ELSE IF MaySwitch THEN 0 ELSE clear_address_counter
  BY DEF Tick, SwitchAndClear
<1>6. displayed_buffer' \in Buffers /\ buffer_switch_pending' \in BOOLEAN /\ clear_flag' \in BOOLEAN
  BY <1>1, <1>3, <1>5 DEF Buffers, MaySwitch
<1>7. /\ clear_address_counter' \in 0 .. Pixels + 1
      /\ clear_flag' => clear_address_counter' <= Pixels
  <2>1. CASE clear_flag
    <3>1. /\ clear_address_counter' = clear_address_counter + 1
          /\ clear_flag' => clear_address_counter # Pixels
          /\ clear_address_counter <= Pixels
      BY <1>5, <2>1 DEF IInv
    <3>2. Pixels \in Nat /\ clear_address_counter \in Nat
      BY <1>1, ConstantFacts
    <3> QED
      BY <3>1, <3>2
  <2>2. CASE ~clear_flag
    BY <1>1, <1>5, <2>2, ConstantFacts DEF IInv
  <2> QED
    BY <2>1, <2>2
<1>8. beam' \in 0 .. FrameTicks - 1
  BY <1>1, ConstantFacts DEF Tick, SendPixel
<1>9. sent' \in [Screen -> Color]
  <2>1. CASE beam \in BlankBefore .. BlankBefore + Pixels - 1
    <3>1. sent' = [sent EXCEPT ![ReadAddress] = mem[displayed_buffer][ReadAddress]]
      BY <2>1 DEF Tick, SendPixel
    <3>2. ReadAddress \in Screen
      BY <1>1, <2>1, ConstantFacts, DisplayAssumption DEF ReadAddress, Screen
    <3> QED
      BY <1>1, <3>1, <3>2 DEF Buffers
  <2>2. CASE beam \notin BlankBefore .. BlankBefore + Pixels - 1
    BY <1>1, <2>2, ConstantFacts DEF Tick, SendPixel
  <2> QED
    BY <2>1, <2>2
<1>10. /\ drawn' \in [Screen -> Color] /\ shown' \in [Screen -> Color]
       /\ current' \in Nat /\ whole' \in Nat
       /\ drawn_fits' \in BOOLEAN /\ shown_fits' \in BOOLEAN
  <2>1. shows \in Nat /\ current \in Nat /\ whole \in Nat
    BY DEF IInv, TypeOK
  <2>2. whole' \in Nat
    BY <2>1 DEF Tick, SendPixel
  <2> QED
    BY <2>1, <2>2, ConstantFacts DEF Tick, IInv, TypeOK
<1>11. TypeOK'
  BY <1>2, <1>4, <1>6, <1>7, <1>8, <1>9, <1>10 DEF IInv, TypeOK
<1>12. NoTearing'
  <2> SUFFICES ASSUME NEW p \in Screen, 0 < p, p < ReadAddress'
               PROVE  sent'[p] = mem'[displayed_buffer'][p]
    BY DEF NoTearing
  <2>1. /\ beam' = (IF beam < FrameTicks - 1 THEN beam + 1 ELSE 0)
        /\ FrameTicks = BlankBefore + Pixels + BlankAfter
    BY DEF Tick, SendPixel, FrameTicks
  <2>2. /\ beam' = beam + 1 /\ beam >= BlankBefore
        /\ p < ReadAddress \/ (p = ReadAddress /\ beam < BlankBefore + Pixels)
    <3>1. BlankBefore \in Nat \ {0} /\ BlankAfter \in Nat \ {0} /\ Pixels \in Nat \ {0}
      BY ConstantFacts, DisplayAssumption
    <3>2. ReadAddress' = IF beam' < BlankBefore THEN 0
                         ELSE IF beam' < BlankBefore + Pixels THEN beam' - BlankBefore ELSE Pixels
      BY DEF ReadAddress
    <3>3. p \in 1 .. Pixels - 1 /\ beam \in 0 .. BlankBefore + Pixels + BlankAfter - 1
      BY <1>1, <2>1, <3>1 DEF Screen
    <3>4. beam' = beam + 1 /\ beam >= BlankBefore
      BY <2>1, <3>1, <3>2, <3>3
    <3> QED
      BY <3>1, <3>2, <3>3, <3>4 DEF ReadAddress
  <2>3. ReadAddress # 0
    BY <2>2 DEF Screen
  <2>4. displayed_buffer' = displayed_buffer
    BY <1>5, <2>3 DEF MaySwitch
  <2>5. CASE beam < BlankBefore + Pixels
    <3>1. sent' = [sent EXCEPT ![ReadAddress] = mem[displayed_buffer][ReadAddress]]
      BY <1>1, <2>2, <2>5, ConstantFacts, DisplayAssumption, SMTT(30) DEF Tick, SendPixel
    <3> QED
      BY <1>1, <1>4, <2>2, <2>4, <3>1 DEF IInv, NoTearing
  <2>6. CASE ~(beam < BlankBefore + Pixels)
    <3>1. sent' = sent
      <4>1. beam \notin BlankBefore .. BlankBefore + Pixels - 1 /\ beam' # 0
        BY <1>1, <2>2, <2>6, ConstantFacts, DisplayAssumption
      <4> QED
        BY <4>1 DEF Tick, SendPixel
    <3> QED
      BY <1>4, <2>2, <2>4, <2>6, <3>1 DEF IInv, NoTearing
  <2> QED
    BY <2>5, <2>6
<1>13. pixels_remaining' <= PixelsPerByte(sprite.colors)'
  BY <1>2 DEF IInv, PixelsPerByte
<1> QED
  BY <1>7, <1>11, <1>12, <1>13 DEF IInv

LEMMA NextInv == IInv /\ [Next]_vars => IInv'
<1> SUFFICES ASSUME IInv, [Next]_vars PROVE IInv'
  OBVIOUS
<1>1. CASE UNCHANGED vars
  BY <1>1 DEF vars, spi, engine, switch, raster, IInv, TypeOK, NoTearing, ReadAddress, PixelsPerByte
<1> QED
  BY <1>1, BitmapInv, ShowInv, NewPixelsInv, DrawInv, TickInv DEF Next

-----------------------------------------------------------------------------
(* Type correctness: the colors are four bits wide and the pens ten, and   *)
(* the clear logic stops.                                                  *)
THEOREM TypeCorrect == Spec => []TypeOK
<1>1. IInv => TypeOK
  BY DEF IInv
<1> QED
  BY <1>1, InitInv, NextInv, PTL DEF Spec

(* No frame is torn, whatever scripts draw and whenever they call show().  *)
THEOREM FramesAreWhole == Spec => []NoTearing
<1>1. IInv => NoTearing
  BY DEF IInv
<1> QED
  BY <1>1, InitInv, NextInv, PTL DEF Spec
-----------------------------------------------------------------------------
(* The sprite under way: the bytes and the pixels that are still to come,  *)
(* and, if it fits, the place of the pen.                                  *)
Fetched == Len(sprite.bytes) - Len(bytes)
Count   == Len(sprite.bytes) * PixelsPerByte(sprite.colors)
Done    == Fetched * PixelsPerByte(sprite.colors) - pixels_remaining

PenAt(i) ==
  [x |-> sprite.x + (i % sprite.width), y |-> (sprite.y + (i \div sprite.width)) % PenRange]

UnderWay ==
  /\ Len(bytes) <= Len(sprite.bytes)
  /\ \A j \in 1 .. Len(bytes) : bytes[j] = sprite.bytes[Fetched + j]
  /\ pixels_remaining > 0 => Fetched > 0 /\ data = sprite.bytes[Fetched]
  /\ first => bytes = sprite.bytes /\ pixels_remaining = 0
  /\ first \/ SpiIsFree \/ ~Fits(sprite) \/ pen = PenAt(Done)

(* The pixels of the sprite at a place of the screen, and those of them    *)
(* that are still to come.                                                 *)
At(p)     == {i \in 0 .. Count - 1 : Place(sprite, i) = p}
ToCome(p) == {i \in Done .. Count - 1 : Place(sprite, i) = p}

(* The hidden buffer of a script that waits: it is clear up to the counter *)
(* or, where no pixel is to come, what was drawn, if all of that fits.     *)
Cleared == drawn = Black /\ \A p \in Screen : p < clear_address_counter => mem[Hidden][p] = 0
Drawn ==
  \A p \in Screen :
    IF ToCome(p) = {} THEN mem[Hidden][p] = drawn[p] ELSE drawn[p] = ColorOf(sprite, Max(At(p)))

Waits ==
  patient =>
    /\ Busy => SpiIsFree
    /\ ~(buffer_switch_pending /\ clear_flag)
    /\ shown_fits => mem[displayed_buffer] = shown
    /\ IF clear_flag THEN Cleared ELSE drawn_fits => Drawn /\ (SpiIsFree \/ Fits(sprite))

PictureInv == IInv /\ UnderWay /\ Waits

(* Products with the number of pixels in a byte, and places in a line.     *)
LEMMA BytesOfPixels ==
  ASSUME NEW k \in Nat, NEW n \in {1, 2, 4, 8}
  PROVE  k * n \in Nat /\ (k + 1) * n - n = k * n - 0
<1>1. CASE n = 1
  BY <1>1
<1>2. CASE n = 2
  BY <1>2
<1>3. CASE n = 4
  BY <1>3
<1>4. CASE n = 8
  BY <1>4
<1> QED
  BY <1>1, <1>2, <1>3, <1>4

LEMMA PixelInByte ==
  ASSUME NEW k \in Nat \ {0}, NEW n \in {1, 2, 4, 8}, NEW r \in 1 .. n, NEW l \in Nat, k <= l
  PROVE  /\ k * n - r \in Nat /\ k * n - r <= l * n - 1
         /\ k * n - (r - 1) = (k * n - r) + 1
         /\ ((k * n - r) \div n) + 1 = k /\ n - ((k * n - r) % n) = r
<1>1. CASE n = 1
  BY <1>1
<1>2. CASE n = 2
  BY <1>2
<1>3. CASE n = 4
  BY <1>3
<1>4. CASE n = 8
  BY <1>4
<1> QED
  BY <1>1, <1>2, <1>3, <1>4

LEMMA InALine ==
  ASSUME NEW w \in Nat \ {0}, NEW q \in Nat, NEW r \in 0 .. w - 1
  PROVE  (q * w + r) % w = r /\ (q * w + r) \div w = q
OBVIOUS

LEMMA PlaceInLine ==
  ASSUME NEW i \in Nat, NEW w \in Nat \ {0}
  PROVE  i % w \in Nat /\ i \div w \in Nat
OBVIOUS

LEMMA NextInLine ==
  ASSUME NEW i \in Nat, NEW w \in Nat \ {0}
  PROVE  /\ i % w < w - 1 => (i + 1) % w = (i % w) + 1 /\ (i + 1) \div w = i \div w
         /\ ~(i % w < w - 1) => (i + 1) % w = 0 /\ (i + 1) \div w = (i \div w) + 1
<1>1. PICK q \in Nat, r \in 0 .. w - 1 : q = i \div w /\ r = i % w /\ i = q * w + r
  <2>1. i \div w \in Nat /\ i % w \in 0 .. w - 1
    OBVIOUS
  <2>2. i = (i \div w) * w + (i % w)
    OBVIOUS
  <2> QED
    BY <2>1, <2>2
<1>2. CASE r < w - 1
  <2>1. r + 1 \in 0 .. w - 1 /\ i + 1 = q * w + (r + 1)
    BY <1>1, <1>2
  <2>2. (i + 1) % w = r + 1 /\ (i + 1) \div w = q
    BY ONLY <2>1, InALine, w \in Nat \ {0}, q \in Nat
  <2> QED
    BY <1>1, <1>2, <2>2
<1>3. CASE ~(r < w - 1)
  <2>1. 0 \in 0 .. w - 1 /\ q + 1 \in Nat /\ r + 1 = w
    BY <1>3
  <2>2. i + 1 = (q + 1) * w + 0
    BY ONLY <1>1, <2>1, w \in Nat \ {0}, q \in Nat
  <2>3. (i + 1) % w = 0 /\ (i + 1) \div w = q + 1
    <3>1. ((q + 1) * w + 0) % w = 0 /\ ((q + 1) * w + 0) \div w = q + 1
      BY ONLY <2>1, InALine, w \in Nat \ {0}, Zenon
    <3> QED
      BY ONLY <2>2, <3>1, Zenon
  <2> QED
    BY <1>1, <1>3, <2>3
<1> QED
  BY <1>2, <1>3

(* Counting a line more, and then wrapping, comes to the same as wrapping  *)
(* first.                                                                  *)
LEMMA NextWrapped ==
  ASSUME NEW a \in Nat, NEW n \in Nat \ {0}
  PROVE  ((a % n) + 1) % n = (a + 1) % n
<1>0. /\ a % n < n - 1 => (a + 1) % n = (a % n) + 1
      /\ ~(a % n < n - 1) => (a + 1) % n = 0
  BY NextInLine
<1>1. PICK b \in 0 .. n - 1 : b = a % n
  OBVIOUS
<1>2. CASE b < n - 1
  <2>1. b + 1 \in 0 .. n - 1 /\ (a + 1) % n = b + 1
    BY ONLY <1>0, <1>1, <1>2, n \in Nat \ {0}
  <2>2. (b + 1) % n = b + 1
    BY ONLY <2>1, n \in Nat \ {0}
  <2> QED
    BY <1>1, <2>1, <2>2
<1>3. CASE ~(b < n - 1)
  <2>1. b + 1 = n /\ (a + 1) % n = 0
    BY ONLY <1>0, <1>1, <1>3, n \in Nat \ {0}
  <2>2. n % n = 0
    OBVIOUS
  <2> QED
    BY <1>1, <2>1, <2>2
<1> QED
  BY <1>2, <1>3

LEMMA SpriteFacts ==
  ASSUME IInv
  PROVE  /\ PixelsPerByte(sprite.colors) \in {1, 2, 4, 8}
         /\ pixels_remaining \in Nat /\ pixels_remaining <= PixelsPerByte(sprite.colors)
         /\ sprite.bytes \in Seq(Byte) /\ bytes \in Seq(Byte)
         /\ sprite.x \in 0 .. PenRange - 1 /\ sprite.y \in 0 .. PenRange - 1
         /\ sprite.width \in Nat \ {0} /\ PenRange \in Nat \ {0}
         /\ Width \in Nat /\ patient \in BOOLEAN
<1>1. sprite \in Sprites /\ pixels_remaining \in Nat /\ bytes \in Seq(Byte) /\ patient \in BOOLEAN
  BY DEF IInv, TypeOK
<1> QED
  BY <1>1, ConstantFacts, DisplayAssumption DEF IInv

(* The next pixel, while one is to come.                                   *)
LEMMA NextPixel ==
  ASSUME IInv, UnderWay, pixels_remaining > 0
  PROVE  /\ Done \in Nat /\ Done <= Count - 1 /\ Count \in Nat
         /\ Fits(sprite) => pen = PenAt(Done)
         /\ Fetched * PixelsPerByte(sprite.colors) - (pixels_remaining - 1) = Done + 1
         /\ sprite.bytes[(Done \div PixelsPerByte(sprite.colors)) + 1] = data
         /\ PixelsPerByte(sprite.colors) - (Done % PixelsPerByte(sprite.colors)) = pixels_remaining
<1> DEFINE n == PixelsPerByte(sprite.colors)
<1>1. /\ n \in {1, 2, 4, 8} /\ pixels_remaining \in Nat /\ pixels_remaining <= n
      /\ sprite.bytes \in Seq(Byte) /\ bytes \in Seq(Byte)
  BY SpriteFacts
<1>2. PICK l \in Nat : l = Len(sprite.bytes)
  BY <1>1
<1>3. /\ Len(bytes) \in Nat /\ Len(bytes) <= l /\ l - Len(bytes) > 0
      /\ Fetched = l - Len(bytes) /\ data = sprite.bytes[Fetched]
  BY <1>1, <1>2 DEF UnderWay, Fetched
<1>4. PICK k \in Nat \ {0} : k = Fetched /\ k <= l
  <2>1. l - Len(bytes) \in Nat \ {0} /\ l - Len(bytes) <= l
    BY <1>3
  <2> QED
    BY <1>3, <2>1
<1>5. PICK r \in 1 .. n : r = pixels_remaining
  BY <1>1
<1>6. Done = k * n - r /\ Count = l * n
  BY <1>2, <1>4, <1>5 DEF Done, Count
<1> HIDE DEF n
<1>7. /\ Done \in Nat /\ Done <= Count - 1 /\ k * n - (r - 1) = Done + 1
      /\ (Done \div n) + 1 = k /\ n - (Done % n) = r
  BY ONLY <1>1, <1>2, <1>4, <1>5, <1>6, PixelInByte
<1>8. Count \in Nat
  BY ONLY <1>1, <1>2, <1>6, BytesOfPixels
<1>9. Fits(sprite) => pen = PenAt(Done)
  BY <1>1 DEF UnderWay, SpiIsFree
<1> QED
  BY <1>3, <1>4, <1>5, <1>7, <1>8, <1>9 DEF n

(* At rest, no pixel is to come.                                           *)
LEMMA AtRest ==
  ASSUME IInv, UnderWay, SpiIsFree
  PROVE  Done = Count /\ Count \in Nat /\ \A p : ToCome(p) = {}
<1>1. /\ PixelsPerByte(sprite.colors) \in {1, 2, 4, 8} /\ sprite.bytes \in Seq(Byte)
      /\ bytes = <<>> /\ pixels_remaining = 0
  BY SpriteFacts DEF SpiIsFree
<1>2. PICK l \in Nat : l = Len(sprite.bytes)
  BY <1>1
<1>3. Fetched = l
  BY <1>1, <1>2 DEF Fetched
<1>4. PICK c \in Nat : c = l * PixelsPerByte(sprite.colors)
  BY <1>1, <1>2, BytesOfPixels
<1>5. Done = c /\ Count = c
  BY <1>1, <1>2, <1>3, <1>4 DEF Done, Count
<1>6. c .. c - 1 = {}
  BY ONLY c \in Nat
<1> QED
  BY <1>5, <1>6 DEF ToCome

-----------------------------------------------------------------------------
LEMMA UnderWayNext ==
  ASSUME IInv, UnderWay, [Next]_vars
  PROVE  UnderWay'
<1> DEFINE n == PixelsPerByte(sprite.colors)
<1>0. /\ n \in {1, 2, 4, 8} /\ pixels_remaining \in Nat /\ pixels_remaining <= n
      /\ sprite.bytes \in Seq(Byte) /\ bytes \in Seq(Byte)
      /\ sprite.x \in 0 .. PenRange - 1 /\ sprite.y \in 0 .. PenRange - 1
      /\ sprite.width \in Nat \ {0} /\ PenRange \in Nat \ {0}
  BY SpriteFacts
<1>1. CASE \E s \in Sprites : LuaDisplayBitmap(s)
  <2>1. PICK s \in Sprites : LuaDisplayBitmap(s)
    BY <1>1
  <2>2. sprite' = s /\ bytes' = s.bytes /\ first' = TRUE /\ pixels_remaining' = 0
    BY <2>1 DEF LuaDisplayBitmap, SpiIsFree, engine
  <2>3. PICK l \in Nat : l = Len(s.bytes)
    BY ConstantFacts
  <2>4. Fetched' = 0 /\ Len(bytes') = l /\ Len(sprite'.bytes) = l
    BY <2>2, <2>3 DEF Fetched
  <2>5. \A j \in 1 .. l : bytes'[j] = sprite'.bytes[0 + j]
    BY <2>2
  <2> QED
    BY ONLY <2>2, <2>4, <2>5, l \in Nat DEF UnderWay
<1>2. CASE NewPixels
  <2>1. /\ bytes # <<>> /\ pixels_remaining = 0
        /\ data' = Head(bytes) /\ bytes' = Tail(bytes) /\ first' = FALSE
        /\ pixels_remaining' = n
        /\ pen' = IF first THEN [x |-> sprite.x, y |-> sprite.y] ELSE pen
        /\ sprite' = sprite
    BY <1>2, SMTT(30) DEF NewPixels
  <2>2. PICK l \in Nat, b \in Nat : l = Len(sprite.bytes) /\ b = Len(bytes) - 1 /\ Len(bytes) = b + 1
    <3>1. Len(sprite.bytes) \in Nat /\ Len(bytes) - 1 \in Nat /\ Len(bytes) = (Len(bytes) - 1) + 1
      BY <1>0, <2>1
    <3> QED
      BY ONLY <3>1
  <2>3. b + 1 <= l /\ Fetched = l - (b + 1)
    BY <2>2 DEF UnderWay, Fetched
  <2>4. PICK k \in Nat : k = Fetched /\ l - b = k + 1
    <3>1. l - (b + 1) \in Nat /\ l - b = (l - (b + 1)) + 1
      BY ONLY <2>3, l \in Nat, b \in Nat
    <3> QED
      BY ONLY <2>3, <3>1
  <2>5. Len(bytes') = b /\ Len(sprite'.bytes) = l /\ Fetched' = k + 1
    <3>1. Len(bytes') = b
      BY <1>0, <2>1, <2>2
    <3> QED
      BY <2>1, <2>2, <2>4, <3>1 DEF Fetched
  <2>6. data' = sprite'.bytes[k + 1]
    <3>1. bytes[1] = sprite.bytes[k + 1] /\ data' = bytes[1]
      BY <1>0, <2>1, <2>2, <2>4 DEF UnderWay
    <3> QED
      BY <2>1, <3>1
  <2>7. ASSUME NEW j \in 1 .. b PROVE bytes'[j] = sprite'.bytes[(k + 1) + j]
    <3>1. bytes'[j] = bytes[j + 1]
      BY <1>0, <2>1, <2>2
    <3>2. bytes[j + 1] = sprite.bytes[k + (j + 1)]
      BY <2>2, <2>4 DEF UnderWay
    <3>3. k + (j + 1) = (k + 1) + j
      BY ONLY k \in Nat, b \in Nat, j \in 1 .. b
    <3> QED
      BY <2>1, <3>1, <3>2, <3>3
  <2>8. Fits(sprite') => pen' = PenAt(Done)'
    <3> SUFFICES ASSUME Fits(sprite) PROVE pen' = PenAt(Done')
      BY <2>1 DEF PenAt
    <3>1. Done' = k * n - 0 /\ Done = k * n - 0
      <4>1. n' = n
        BY <2>1 DEF PixelsPerByte
      <4>2. Done' = (k + 1) * n - n
        BY <2>1, <2>5, <4>1 DEF Done
      <4>3. Done = k * n - 0
        BY <2>1, <2>4 DEF Done
      <4> QED
        BY ONLY <1>0, k \in Nat, <4>2, <4>3, BytesOfPixels
    <3>2. CASE first
      <4>1. Fetched = 0
        BY <1>0, <3>2 DEF UnderWay, Fetched
      <4>2. Done' = 0
        BY <1>0, <2>4, <3>1, <4>1
      <4>3. Done' % sprite.width = 0 /\ Done' \div sprite.width = 0
        BY <1>0, <4>2
      <4>4. sprite.x + 0 = sprite.x /\ (sprite.y + 0) % PenRange = sprite.y
        BY ONLY <1>0, SMTT(30)
      <4> QED
        BY <2>1, <3>2, <4>3, <4>4 DEF PenAt
    <3>3. CASE ~first
      <4>1. pen = PenAt(Done)
        BY <2>1, <3>3 DEF UnderWay, SpiIsFree
      <4> QED
        BY <2>1, <3>1, <3>3, <4>1
    <3> QED
      BY <3>2, <3>3
  <2>9. b <= l /\ k + 1 > 0
    BY ONLY <2>3, l \in Nat, b \in Nat, k \in Nat
  <2> QED
    BY ONLY <2>1, <2>5, <2>6, <2>7, <2>8, <2>9, Zenon DEF UnderWay
<1>3. CASE Draw
  <2>1. /\ pixels_remaining > 0 /\ pixels_remaining' = pixels_remaining - 1 /\ pen' = NextPen
        /\ UNCHANGED <<sprite, bytes, first, data>>
    BY <1>3 DEF Draw, spi
  <2>2. Fetched' = Fetched /\ n' = n
    BY <2>1 DEF Fetched, PixelsPerByte
  <2>3. Done' = Done + 1 /\ Done \in Nat
    BY <2>1, <2>2, NextPixel DEF Done
  <2>4. Fits(sprite') => pen' = PenAt(Done)'
    <3> SUFFICES ASSUME Fits(sprite) PROVE pen' = PenAt(Done + 1)
      BY <2>1, <2>3 DEF PenAt
    <3>0. PenRange \in Nat \ {0}
      BY <1>0
    <3> DEFINE w == sprite.width
    <3>1. pen = PenAt(Done)
      BY <2>1, NextPixel
    <3>2. /\ Done % w < w - 1 => (Done + 1) % w = (Done % w) + 1 /\ (Done + 1) \div w = Done \div w
          /\ ~(Done % w < w - 1) => (Done + 1) % w = 0 /\ (Done + 1) \div w = (Done \div w) + 1
      BY <1>0, <2>3, NextInLine
    <3>3. PICK r \in Nat, q \in Nat : r = Done % w /\ q = Done \div w
      BY <1>0, <2>3, PlaceInLine
    <3>4. pen = [x |-> sprite.x + r, y |-> (sprite.y + q) % PenRange]
      BY <3>1, <3>3 DEF PenAt
    <3> HIDE DEF w
    <3>5. PICK v \in Nat \ {0}, x \in Nat, y \in Nat :
            v = w /\ x = sprite.x /\ y = sprite.y /\ x + v <= PenRange
      BY <1>0 DEF Fits, w
    <3>6. CASE r < v - 1
      <4>1. x + r < x + v - 1 /\ (x + r) + 1 = x + (r + 1) /\ x + (r + 1) \in 0 .. PenRange - 1
        BY ONLY <3>0, <3>5, <3>6, r \in Nat
      <4>2. (x + (r + 1)) % PenRange = x + (r + 1)
        BY ONLY <1>0, <4>1, SMTT(30)
      <4>3. pen' = [pen EXCEPT !.x = (pen.x + 1) % PenRange]
        BY <2>1, <3>4, <3>5, <4>1 DEF NextPen, w
      <4>4. pen' = [x |-> x + (r + 1), y |-> (y + q) % PenRange]
        BY ONLY <3>4, <3>5, <4>1, <4>2, <4>3
      <4>5. (Done + 1) % w = r + 1 /\ (Done + 1) \div w = q
        BY ONLY <3>2, <3>3, <3>5, <3>6
      <4> QED
        BY ONLY <3>5, <4>4, <4>5 DEF PenAt, w
    <3>7. CASE ~(r < v - 1)
      <4>1. ~(x + r < x + v - 1) /\ (y + q) + 1 = y + (q + 1) /\ x = x + 0
        BY ONLY <3>5, <3>7, r \in Nat, q \in Nat
      <4>2. pen' = [x |-> sprite.x, y |-> (pen.y + 1) % PenRange]
        BY <2>1, <3>4, <3>5, <4>1 DEF NextPen, w
      <4>3. (((y + q) % PenRange) + 1) % PenRange = (y + (q + 1)) % PenRange
        BY ONLY <1>0, <4>1, NextWrapped, y + q \in Nat
      <4>4. pen' = [x |-> x + 0, y |-> (y + (q + 1)) % PenRange]
        BY ONLY <3>4, <3>5, <4>1, <4>2, <4>3
      <4>5. (Done + 1) % w = 0 /\ (Done + 1) \div w = q + 1
        BY ONLY <3>2, <3>3, <3>5, <3>7
      <4> QED
        BY ONLY <3>5, <4>4, <4>5 DEF PenAt, w
    <3> QED
      BY <3>6, <3>7
  <2>5. ~first
    BY <1>0, <2>1 DEF UnderWay
  <2>6. /\ Len(bytes) <= Len(sprite.bytes)
        /\ \A j \in 1 .. Len(bytes) : bytes[j] = sprite.bytes[Fetched + j]
        /\ Fetched > 0 /\ data = sprite.bytes[Fetched]
    BY <2>1 DEF UnderWay
  <2> QED
    BY ONLY <2>1, <2>2, <2>4, <2>5, <2>6, Zenon DEF UnderWay
<1>4. CASE LuaDisplayShow \/ Tick \/ UNCHANGED vars
  <2>1. UNCHANGED <<sprite, bytes, first, data, pixels_remaining, pen>>
    BY <1>4 DEF LuaDisplayShow, Tick, vars, spi, engine
  <2>2. Fetched' = Fetched /\ Done' = Done /\ SpiIsFree' = SpiIsFree /\ PenAt(Done)' = PenAt(Done)
    BY <2>1 DEF Fetched, Done, SpiIsFree, PixelsPerByte, PenAt
  <2> QED
    BY <2>1, <2>2 DEF UnderWay
<1> QED
  BY <1>1, <1>2, <1>3, <1>4 DEF Next

-----------------------------------------------------------------------------
LEMMA MaxIs ==
  ASSUME NEW S \in SUBSET Nat, NEW i \in S, \A j \in S : i >= j
  PROVE  Max(S) = i
<1>1. \A x \in S : (\A y \in S : x >= y) => x = i
  OBVIOUS
<1> QED
  BY <1>1 DEF Max

(* A pixel of a script that waits comes to its place, in its color.        *)
LEMMA DrawWaits ==
  ASSUME IInv, UnderWay, Waits, patient, Draw
  PROVE  Waits'
<1> DEFINE i == Done
           n == PixelsPerByte(sprite.colors)
           address == (pen.x + pen.y * Width) % AddressSpace
           color   == PaletteIndex(PixelOf(data, sprite.colors, pixels_remaining), sprite.offset)
<1>1. /\ pixels_remaining > 0 /\ pixels_remaining' = pixels_remaining - 1
      /\ mem' = (IF clear_flag \/ address \notin Screen
                   THEN mem ELSE [mem EXCEPT ![Hidden][address] = color])
      /\ UNCHANGED <<patient, sprite, bytes, displayed_buffer, clear_flag, clear_address_counter,
                     shown, shown_fits, buffer_switch_pending, drawn, drawn_fits>>
  BY DEF Draw, spi, switch, raster
<1>2. /\ i \in Nat /\ i <= Count - 1 /\ Count \in Nat
      /\ Fits(sprite) => pen = PenAt(i)
      /\ Fetched * n - (pixels_remaining - 1) = i + 1
      /\ sprite.bytes[(i \div n) + 1] = data /\ n - (i % n) = pixels_remaining
  BY <1>1, NextPixel
<1>3. /\ ~Busy /\ ~buffer_switch_pending /\ ~clear_flag
      /\ shown_fits => mem[displayed_buffer] = shown
      /\ drawn_fits => Drawn /\ Fits(sprite)
  <2>1. ~SpiIsFree
    BY <1>1 DEF SpiIsFree
  <2> QED
    BY <2>1 DEF Waits, Busy
<1>4. color = ColorOf(sprite, i)
  BY <1>2 DEF ColorOf
<1>5. ASSUME drawn_fits PROVE address = Place(sprite, i)
  <2>1. /\ sprite.x \in Nat /\ sprite.y \in Nat /\ sprite.width \in Nat \ {0} /\ Width \in Nat
        /\ PenRange \in Nat \ {0}
    BY SpriteFacts
  <2>2. i % sprite.width \in Nat /\ i \div sprite.width \in Nat
    BY <1>2, <2>1, PlaceInLine
  <2>3. /\ pen.x = sprite.x + (i % sprite.width)
        /\ pen.y = (sprite.y + (i \div sprite.width)) % PenRange
    BY <1>2, <1>3, <1>5 DEF PenAt
  <2>4. PICK y \in Nat : y = (sprite.y + (i \div sprite.width)) % PenRange
    BY ONLY <2>1, <2>2
  <2>5. y * Width = Width * y
    BY ONLY <2>1, y \in Nat
  <2> QED
    BY ONLY <2>3, <2>4, <2>5 DEF Place
<1> HIDE DEF i, n, address, color
<1>6. Done' = i + 1 /\ Count' = Count
  <2>1. Fetched' = Fetched /\ n' = n /\ Count' = Count
    BY <1>1 DEF Fetched, PixelsPerByte, Count, n
  <2> QED
    BY <1>1, <1>2, <2>1 DEF Done, n
<1>7. /\ mem \in [Buffers -> [Screen -> Color]] /\ Hidden \in Buffers /\ displayed_buffer \in Buffers
      /\ Hidden # displayed_buffer /\ Hidden' = Hidden
  BY <1>1 DEF IInv, TypeOK, Buffers, Hidden
<1>8. /\ mem'[displayed_buffer] = mem[displayed_buffer]
      /\ \A p \in Screen : mem'[Hidden][p] = IF p = address THEN color ELSE mem[Hidden][p]
  <2>1. CASE address \in Screen
    <3>1. mem' = [mem EXCEPT ![Hidden][address] = color]
      BY <1>1, <1>3, <2>1
    <3> QED
      BY ONLY <1>7, <2>1, <3>1
  <2>2. CASE address \notin Screen
    BY <1>1, <2>2
  <2> QED
    BY <2>1, <2>2
<1>9. ASSUME drawn_fits PROVE Drawn'
  <2>0. address = Place(sprite, i)
    BY <1>5, <1>9
  <2> SUFFICES ASSUME NEW p \in Screen
               PROVE  IF ToCome(p)' = {} THEN mem'[Hidden][p] = drawn[p]
                      ELSE drawn[p] = ColorOf(sprite, Max(At(p)))
    <3>1. sprite' = sprite /\ drawn' = drawn
      BY <1>1
    <3>2. \A p \in Screen : At(p)' = At(p)
      BY <1>6, <3>1 DEF At, Place
    <3> QED
      BY <1>7, <3>1, <3>2 DEF Drawn, ColorOf
  <2>1. ToCome(p) = {j \in i .. Count - 1 : Place(sprite, j) = p}
    BY DEF ToCome, i
  <2>2. ToCome(p)' = {j \in i + 1 .. Count - 1 : Place(sprite, j) = p}
    BY <1>1, <1>6 DEF ToCome, Place
  <2>3. IF ToCome(p) = {} THEN mem[Hidden][p] = drawn[p] ELSE drawn[p] = ColorOf(sprite, Max(At(p)))
    BY <1>3, <1>9 DEF Drawn
  <2>4. ASSUME NEW j \in i .. Count - 1 PROVE j = i \/ j \in i + 1 .. Count - 1
    BY ONLY <1>2, j \in i .. Count - 1
  <2>5. CASE p # address
    <3>1. ToCome(p)' = ToCome(p)
      <4>1. i + 1 .. Count - 1 \subseteq i .. Count - 1
        BY ONLY <1>2
      <4> QED
        BY ONLY <2>0, <2>1, <2>2, <2>4, <2>5, <4>1
    <3> QED
      BY ONLY <1>8, <2>3, <2>5, <3>1, p \in Screen
  <2>6. CASE p = address
    <3>1. i \in ToCome(p)
      <4>1. i \in i .. Count - 1
        BY ONLY <1>2
      <4> QED
        BY ONLY <2>0, <2>1, <2>6, <4>1
    <3>2. drawn[p] = ColorOf(sprite, Max(At(p)))
      BY ONLY <2>3, <3>1
    <3>3. CASE ToCome(p)' = {}
      <4>1. i \in At(p)
        <5>1. i \in 0 .. Count - 1
          BY ONLY <1>2
        <5> QED
          BY ONLY <2>0, <2>6, <5>1 DEF At
      <4>2. ASSUME NEW j \in At(p) PROVE i >= j /\ j \in Nat
        <5>1. j \in 0 .. Count - 1 /\ Place(sprite, j) = p
          BY DEF At
        <5>2. j \notin i + 1 .. Count - 1
          BY ONLY <2>2, <3>3, <5>1
        <5> QED
          BY ONLY <1>2, <5>1, <5>2
      <4>3. Max(At(p)) = i
        <5>1. At(p) \subseteq Nat
          BY ONLY <4>2
        <5> QED
          BY ONLY <4>1, <4>2, <5>1, MaxIs
      <4> QED
        BY ONLY <1>4, <1>8, <2>6, <3>2, <3>3, <4>3, p \in Screen
    <3> QED
      BY <3>2, <3>3
  <2> QED
    BY <2>5, <2>6
<1>10. ~Busy' /\ ~(buffer_switch_pending' /\ clear_flag') /\ ~clear_flag'
  BY <1>1, <1>3 DEF Busy
<1>11. shown_fits' => mem'[displayed_buffer'] = shown'
  BY <1>1, <1>3, <1>8
<1>12. drawn_fits' => Drawn' /\ Fits(sprite')
  BY <1>1, <1>3, <1>9
<1> QED
  BY ONLY <1>10, <1>11, <1>12, Zenon DEF Waits

(* A sprite begins on the picture drawn so far.                            *)
LEMMA BitmapWaits ==
  ASSUME IInv, UnderWay, Waits, patient, NEW s \in Sprites, LuaDisplayBitmap(s)
  PROVE  Waits'
<1>1. /\ SpiIsFree /\ ~Busy
      /\ sprite' = s /\ bytes' = s.bytes /\ drawn' = WithSprite(drawn, s)
      /\ drawn_fits' = (drawn_fits /\ Fits(s))
      /\ UNCHANGED <<pixels_remaining, displayed_buffer, clear_flag, clear_address_counter,
                     shown, shown_fits, buffer_switch_pending, mem>>
  BY DEF LuaDisplayBitmap, engine, switch, raster
<1>2. (drawn_fits => Drawn) /\ (shown_fits => mem[displayed_buffer] = shown)
  BY <1>1 DEF Waits, Busy
<1>3. drawn_fits => \A p \in Screen : mem[Hidden][p] = drawn[p]
  BY <1>1, <1>2, AtRest DEF Drawn
<1>4. Done' = 0
  <2>1. PICK l \in Nat : l = Len(s.bytes)
    BY ConstantFacts
  <2>2. Fetched' = 0 /\ pixels_remaining' = 0
    BY <1>1, <2>1 DEF Fetched, SpiIsFree
  <2>3. 0 * PixelsPerByte(s.colors) - 0 = 0
    BY ConstantFacts
  <2>4. PixelsPerByte(sprite.colors)' = PixelsPerByte(s.colors)
    BY <1>1 DEF PixelsPerByte
  <2> QED
    BY <2>2, <2>3, <2>4 DEF Done
<1>5. ASSUME drawn_fits PROVE Drawn'
  <2> SUFFICES ASSUME NEW p \in Screen
               PROVE  (IF ToCome(p) = {} THEN mem[Hidden][p] = drawn[p]
                       ELSE drawn[p] = ColorOf(sprite, Max(At(p))))'
    BY DEF Drawn
  <2> DEFINE all == 0 .. Len(s.bytes) * PixelsPerByte(s.colors) - 1
             at == {i \in all : Place(s, i) = p}
  <2>1. At(p)' = at /\ ToCome(p)' = at
    <3>1. Count' = Len(s.bytes) * PixelsPerByte(s.colors)
      BY <1>1 DEF Count, PixelsPerByte
    <3> QED
      BY <1>1, <1>4, <3>1 DEF At, ToCome, Place
  <2>2. drawn'[p] = IF at = {} THEN drawn[p] ELSE ColorOf(s, Max(at))
    BY <1>1 DEF WithSprite
  <2>3. mem'[Hidden'][p] = drawn[p]
    BY <1>1, <1>3, <1>5 DEF Hidden
  <2> HIDE DEF at
  <2> QED
    BY <1>1, <2>1, <2>2, <2>3 DEF ColorOf
<1>6. ~Busy' /\ ~(buffer_switch_pending' /\ clear_flag') /\ ~clear_flag'
  BY <1>1 DEF Busy
<1>7. shown_fits' => mem'[displayed_buffer'] = shown'
  BY <1>1, <1>2
<1>8. drawn_fits' => Drawn' /\ Fits(sprite')
  <2>1. drawn_fits' => drawn_fits /\ Fits(s)
    BY <1>1
  <2> QED
    BY <1>1, <1>5, <2>1
<1> QED
  BY ONLY <1>6, <1>7, <1>8, Zenon DEF Waits

(* A switch shows all that was drawn, and a clear goes on to the last      *)
(* pixel.                                                                  *)
LEMMA TickWaits ==
  ASSUME IInv, UnderWay, Waits, patient, Tick
  PROVE  Waits'
<1>1. /\ displayed_buffer' = (IF MaySwitch THEN Hidden ELSE displayed_buffer)
      /\ buffer_switch_pending' = (buffer_switch_pending /\ ~MaySwitch)
      /\ clear_flag' = (IF clear_flag THEN clear_address_counter # Pixels ELSE MaySwitch)
      /\ clear_address_counter' =
           IF clear_flag THEN clear_address_counter + 1
           ELSE IF MaySwitch THEN 0 ELSE clear_address_counter
      /\ mem' = IF clear_flag /\ clear_address_counter \in Screen
                  THEN [mem EXCEPT ![Hidden][clear_address_counter] = 0] ELSE mem
      /\ IF MaySwitch
           THEN shown' = drawn /\ drawn' = Black /\ shown_fits' = drawn_fits /\ drawn_fits' = TRUE
           ELSE UNCHANGED <<shown, shown_fits, drawn, drawn_fits>>
      /\ UNCHANGED <<sprite, bytes, pixels_remaining>>
  BY DEF Tick, ClearPixel, SwitchAndClear, spi, engine
<1>2. /\ mem \in [Buffers -> [Screen -> Color]] /\ Hidden \in Buffers /\ displayed_buffer \in Buffers
      /\ Hidden # displayed_buffer /\ drawn \in [Screen -> Color] /\ 1 - Hidden = displayed_buffer
      /\ clear_address_counter \in Nat /\ Pixels \in Nat
  BY ConstantFacts DEF IInv, TypeOK, Buffers, Hidden
<1>3. SpiIsFree' = SpiIsFree /\ Done' = Done /\ Count' = Count
  BY <1>1 DEF SpiIsFree, Done, Fetched, Count, PixelsPerByte
<1>4. /\ Busy => SpiIsFree
      /\ ~(buffer_switch_pending /\ clear_flag)
      /\ shown_fits => mem[displayed_buffer] = shown
  BY DEF Waits
<1>5. CASE clear_flag
  <2>1. ~MaySwitch /\ SpiIsFree /\ Cleared /\ clear_address_counter <= Pixels
    BY <1>4, <1>5 DEF MaySwitch, Busy, Waits, IInv
  <2>2. /\ UNCHANGED <<displayed_buffer, buffer_switch_pending, shown, shown_fits, drawn>>
        /\ clear_flag' = (clear_address_counter # Pixels)
        /\ clear_address_counter' = clear_address_counter + 1
        /\ Hidden' = Hidden
    <3>1. buffer_switch_pending' = buffer_switch_pending
      BY <1>1, <2>1 DEF IInv, TypeOK
    <3>2. UNCHANGED <<displayed_buffer, shown, shown_fits, drawn>>
      BY <1>1, <2>1
    <3>3. /\ clear_flag' = (clear_address_counter # Pixels)
          /\ clear_address_counter' = clear_address_counter + 1
      BY <1>1, <1>5
    <3> QED
      BY <3>1, <3>2, <3>3 DEF Hidden
  <2>3. /\ mem'[displayed_buffer] = mem[displayed_buffer]
        /\ \A p \in Screen : p <= clear_address_counter => mem'[Hidden][p] = 0
    <3>1. \A p \in Screen : p < clear_address_counter => mem[Hidden][p] = 0
      BY <2>1 DEF Cleared
    <3>2. \A p \in Screen : p <= clear_address_counter =>
            p < clear_address_counter \/ p = clear_address_counter
      BY <1>2 DEF Screen
    <3>3. CASE clear_address_counter \in Screen
      <4>1. mem' = [mem EXCEPT ![Hidden][clear_address_counter] = 0]
        BY <1>1, <1>5, <3>3
      <4> QED
        BY ONLY <1>2, <3>1, <3>2, <3>3, <4>1
    <3>4. CASE clear_address_counter \notin Screen
      <4>1. mem' = mem
        BY <1>1, <3>4
      <4> QED
        BY ONLY <3>1, <3>2, <3>4, <4>1
    <3> QED
      BY <3>3, <3>4
  <2>4. CASE clear_address_counter = Pixels
    <3>1. \A p \in Screen : p <= clear_address_counter
      BY <1>2, <2>4 DEF Screen
    <3>2. \A p \in Screen : drawn'[p] = 0
      BY <2>1, <2>2 DEF Cleared, Black
    <3>3. \A p \in Screen : ToCome(p)' = {}
      <4>1. \A p \in Screen : ToCome(p) = {}
        BY <2>1, AtRest
      <4> QED
        BY <1>1, <1>3, <4>1 DEF ToCome, Place
    <3>4. Drawn'
      BY <2>2, <2>3, <3>1, <3>2, <3>3 DEF Drawn
    <3> QED
      BY <1>3, <1>4, <2>1, <2>2, <2>3, <2>4, <3>4 DEF Waits
  <2>5. CASE clear_address_counter # Pixels
    <3>1. \A p \in Screen : p < clear_address_counter' => p <= clear_address_counter
      BY <1>2, <2>2 DEF Screen
    <3>2. Cleared'
      BY <2>1, <2>2, <2>3, <3>1 DEF Cleared
    <3> QED
      BY <1>3, <1>4, <1>5, <2>1, <2>2, <2>3, <2>5, <3>2 DEF Waits
  <2> QED
    BY <2>4, <2>5
<1>6. CASE ~clear_flag /\ MaySwitch
  <2>1. SpiIsFree /\ (drawn_fits => Drawn)
    BY <1>4, <1>6 DEF MaySwitch, Busy, Waits
  <2>2. /\ displayed_buffer' = Hidden /\ clear_flag' /\ ~buffer_switch_pending'
        /\ clear_address_counter' = 0 /\ mem' = mem /\ shown' = drawn /\ drawn' = Black
        /\ shown_fits' = drawn_fits
    BY <1>1, <1>6
  <2>3. ASSUME drawn_fits PROVE mem[Hidden] = drawn
    <3>1. \A p \in Screen : mem[Hidden][p] = drawn[p]
      BY <2>1, <2>3, AtRest DEF Drawn
    <3>2. mem[Hidden] \in [Screen -> Color]
      BY <1>2
    <3> QED
      BY ONLY <1>2, <3>1, <3>2
  <2>4. Cleared'
    <3>1. \A p \in Screen : ~(p < 0)
      BY <1>2 DEF Screen
    <3>2. Black' = Black
      BY DEF Black
    <3> QED
      BY <2>2, <3>1, <3>2 DEF Cleared
  <2> QED
    BY <1>3, <2>1, <2>2, <2>3, <2>4 DEF Waits
<1>7. CASE ~clear_flag /\ ~MaySwitch
  <2>1. UNCHANGED <<displayed_buffer, buffer_switch_pending, clear_flag, mem, shown, shown_fits,
                    drawn, drawn_fits, sprite, bytes, pixels_remaining>>
    <3>1. buffer_switch_pending' = buffer_switch_pending
      BY <1>1, <1>7 DEF IInv, TypeOK
    <3>2. clear_flag' = clear_flag
      BY <1>1, <1>7 DEF IInv, TypeOK, MaySwitch
    <3> QED
      BY <1>1, <1>7, <3>1, <3>2
  <2>2. (drawn_fits => Drawn /\ (SpiIsFree \/ Fits(sprite))) /\ ~clear_flag
    BY <1>7 DEF Waits
  <2>3. drawn_fits' => Drawn'
    BY <1>3, <2>1, <2>2 DEF Drawn, ToCome, At, Place, ColorOf, Hidden
  <2> QED
    BY <1>3, <1>4, <2>1, <2>2, <2>3 DEF Waits, Busy
<1> QED
  BY <1>5, <1>6, <1>7

LEMMA WaitsNext ==
  ASSUME IInv, UnderWay, Waits, [Next]_vars
  PROVE  Waits'
<1>0. patient' = patient
  BY DEF Next, LuaDisplayBitmap, LuaDisplayShow, NewPixels, Draw, Tick, vars
<1> SUFFICES ASSUME patient PROVE Waits'
  BY <1>0 DEF Waits
<1>1. CASE \E s \in Sprites : LuaDisplayBitmap(s)
  BY <1>1, BitmapWaits
<1>2. CASE LuaDisplayShow
  <2>1. /\ SpiIsFree /\ ~Busy /\ buffer_switch_pending' = TRUE
        /\ UNCHANGED <<sprite, bytes, pixels_remaining, displayed_buffer, clear_flag, mem,
                      shown, shown_fits, drawn, drawn_fits>>
    BY <1>2 DEF LuaDisplayShow, spi, engine, switch, raster
  <2>2. (drawn_fits => Drawn) /\ ~clear_flag /\ (shown_fits => mem[displayed_buffer] = shown)
    BY <2>1 DEF Waits, Busy
  <2>3. drawn_fits' => Drawn'
    BY <2>1, <2>2 DEF Drawn, ToCome, At, Place, ColorOf, Hidden, Done, Count, Fetched, PixelsPerByte
  <2> QED
    BY <2>1, <2>2, <2>3 DEF Waits, SpiIsFree
<1>3. CASE NewPixels
  <2>1. /\ bytes # <<>> /\ pixels_remaining = 0 /\ bytes' = Tail(bytes)
        /\ pixels_remaining' = PixelsPerByte(sprite.colors)
        /\ UNCHANGED <<sprite, displayed_buffer, clear_flag, buffer_switch_pending, mem,
                      shown, shown_fits, drawn, drawn_fits>>
    BY <1>3 DEF NewPixels, switch, raster
  <2>2. /\ drawn_fits => Drawn /\ Fits(sprite)
        /\ ~Busy /\ ~clear_flag /\ (shown_fits => mem[displayed_buffer] = shown)
    BY <2>1 DEF Waits, Busy, SpiIsFree
  <2>3. Done' = Done
    <3> DEFINE n == PixelsPerByte(sprite.colors)
    <3>1. n \in {1, 2, 4, 8} /\ sprite.bytes \in Seq(Byte) /\ bytes \in Seq(Byte)
      BY SpriteFacts
    <3>2. PICK k \in Nat : k = Fetched
      <4>1. Len(sprite.bytes) - Len(bytes) \in Nat
        BY <3>1 DEF UnderWay
      <4> QED
        BY <4>1 DEF Fetched
    <3>3. Fetched' = k + 1 /\ n' = n
      <4>1. Len(bytes') = Len(bytes) - 1
        BY <2>1, <3>1
      <4>2. Len(sprite.bytes) \in Nat /\ Len(bytes) \in Nat
        BY <3>1
      <4> QED
        BY <2>1, <3>2, <4>1, <4>2 DEF Fetched, PixelsPerByte
    <3>4. Done' = (k + 1) * n - n /\ Done = k * n - 0
      BY <2>1, <3>2, <3>3 DEF Done
    <3> HIDE DEF n
    <3> QED
      BY ONLY <3>1, <3>4, k \in Nat, BytesOfPixels
  <2>4. drawn_fits' => Drawn'
    <3>1. \A p \in Screen : ToCome(p)' = ToCome(p) /\ At(p)' = At(p)
      BY <2>1, <2>3 DEF ToCome, At, Place, Count, PixelsPerByte
    <3>2. Hidden' = Hidden
      BY <2>1 DEF Hidden
    <3> QED
      BY <2>1, <2>2, <3>1, <3>2 DEF Drawn, ColorOf
  <2> QED
    BY <2>1, <2>2, <2>4 DEF Waits, Busy
<1>4. CASE Draw
  BY <1>4, DrawWaits
<1>5. CASE Tick
  BY <1>5, TickWaits
<1>6. CASE UNCHANGED vars
  <2>1. UNCHANGED <<patient, sprite, bytes, pixels_remaining, displayed_buffer, clear_flag,
                    clear_address_counter, buffer_switch_pending, mem, shown, shown_fits,
                    drawn, drawn_fits>>
    BY <1>6 DEF vars, spi, engine, switch, raster
  <2> QED
    BY <2>1, ZenonT(40) DEF Waits, Busy, SpiIsFree, Cleared, Black, Drawn, ToCome, At, Place, ColorOf, Hidden,
                Done, Count, Fetched, PixelsPerByte
<1> QED
  BY <1>1, <1>2, <1>3, <1>4, <1>5, <1>6 DEF Next

LEMMA PictureInit == Init => UnderWay /\ Waits
<1> SUFFICES ASSUME Init PROVE UnderWay /\ Waits
  OBVIOUS
<1>1. /\ bytes = <<>> /\ first = FALSE /\ pixels_remaining = 0 /\ clear_flag = FALSE
      /\ displayed_buffer = 0 /\ buffer_switch_pending = FALSE
      /\ mem = [b \in Buffers |-> Black] /\ drawn = Black /\ shown = Black
  BY DEF Init
<1>2. sprite.bytes \in Seq(Byte)
  BY InitInv, SpriteFacts
<1>3. UnderWay
  <2>1. Len(bytes) = 0 /\ SpiIsFree
    BY <1>1 DEF SpiIsFree
  <2> QED
    BY <1>1, <1>2, <2>1 DEF UnderWay
<1>4. \A p : ToCome(p) = {}
  BY <1>1, <1>3, InitInv, AtRest DEF SpiIsFree
<1>5. Hidden = 1 /\ mem[0] = Black /\ mem[1] = Black
  BY <1>1 DEF Hidden, Buffers
<1>6. Drawn
  BY <1>1, <1>4, <1>5 DEF Drawn
<1>7. Waits
  BY <1>1, <1>5, <1>6 DEF Waits, Busy, SpiIsFree
<1> QED
  BY <1>3, <1>7

(* A script that waits for each switch and clear sees a picture of sprites *)
(* that fit the pens as it drew it: each pixel at its place and in its     *)
(* color, and nothing else, whatever was on the pictures before.           *)
THEOREM PicturesAreShown == Spec => []ShownIsWhatWasDrawn
<1>1. Init => PictureInv
  BY InitInv, PictureInit DEF PictureInv
<1>2. PictureInv /\ [Next]_vars => PictureInv'
  BY NextInv, UnderWayNext, WaitsNext DEF PictureInv
<1>3. PictureInv => ShownIsWhatWasDrawn
  BY DEF PictureInv, Waits, ShownIsWhatWasDrawn
<1> QED
  BY <1>1, <1>2, <1>3, PTL DEF Spec
=============================================================================
