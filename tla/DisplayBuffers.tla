---------------------------- MODULE DisplayBuffers ----------------------------
(***************************************************************************)
(* Drawing on the display: frame.display.bitmap() and show() of            *)
(* lua_libraries/display.c, and the part of the FPGA they reach over SPI:  *)
(* the sprite engine (sprite_engine.sv), the two frame buffers with their  *)
(* clear and switch logic (display_buffers.sv), and the raster that reads  *)
(* one of them out (display_driver.sv).                                    *)
(*                                                                         *)
(* A tick is two clocks of the display: the raster moves by one pixel and  *)
(* the clear logic by one.  The columns outside of a line are left out, so *)
(* that a frame is blank lines, the pixels, and blank lines again.  SPI is *)
(* slower than the sprite engine (4 MHz a bit against 36 clocks a byte),   *)
(* which has drawn a byte before the next one, or the next opcode, comes.  *)
(***************************************************************************)
EXTENDS Naturals, Sequences, FiniteSetsExt

CONSTANTS
  Width, Height,  \* the screen, 640 by 400 in the source
  AddressSpace,   \* write addresses wrap there, 2^18 in the source
  PenRange,       \* the pens wrap there, 2^10 in the source
  ByteBits,       \* bits in a byte of a sprite, 8 in the source
  BlankBefore, BlankAfter,  \* ticks of a frame around its pixels
  Sprites,        \* the sprites that scripts draw
  MaxDraws,       \* bound on the number of sprites drawn
  MaxShows        \* bound on the number of calls of show()

Pixels     == Width * Height
FrameTicks == BlankBefore + Pixels + BlankAfter
Buffers    == {0, 1}    \* BUFFER_A and BUFFER_B
Screen     == 0 .. Pixels - 1
Color      == 0 .. 15
Byte       == 0 .. 2^ByteBits - 1

BitsPerPixel == [colors \in {2, 4, 16} |-> CASE colors = 2 -> 1 [] colors = 4 -> 2 [] colors = 16 -> 4]
PixelsPerByte(colors) == ByteBits \div BitsPerPixel[colors]

(* What draw_sprite() lets pass, with positions that start from 0.         *)
Sprite == [x : 0 .. Width - 1, y : 0 .. Height - 1, width : 1 .. Width,
           colors : DOMAIN BitsPerPixel, offset : Color, bytes : Seq(Byte)]

(* Clearing a buffer outlasts the blank lines before the pixels: 256000    *)
(* ticks against 37873 in the source.                                      *)
ASSUME DisplayAssumption ==
  /\ {Width, Height, AddressSpace, PenRange, BlankBefore, BlankAfter} \subseteq Nat \ {0}
  /\ ByteBits \in {4, 8} /\ MaxDraws \in Nat /\ MaxShows \in Nat
  /\ Pixels <= AddressSpace /\ Width <= PenRange /\ Height <= PenRange /\ BlankBefore <= Pixels
  /\ Sprites # {} /\ Sprites \subseteq Sprite

VARIABLES
  patient,    \* the script lets a switch and the clear end before it goes on
  sprite,     \* the registers of the sprite under way
  bytes,      \* its bytes that are still to be sent
  first,      \* no byte of it has been sent: operand_count = 8
  data, pixels_remaining, pen,          \* the sprite engine
  beam,       \* the place of the raster in the frame
  displayed_buffer, buffer_switch_pending, clear_flag, clear_address_counter,
  mem,        \* what the two buffers hold on the screen
  sent,       \* history: the pixels sent in this frame
  drawn, shown,     \* history: the picture being drawn, and the one shown
  drawn_fits, shown_fits,  \* history: all sprites on that picture fit the pens
  draws, shows,     \* history: calls of bitmap() and of show()
  current, whole    \* history: the picture on the screen, and the last one
                    \* that was sent from the first line to the last

engine  == <<data, pixels_remaining, pen>>
spi     == <<sprite, bytes, first>>
switch  == <<displayed_buffer, clear_flag, clear_address_counter>>
raster  == <<beam, sent, shown, shown_fits, current, whole>>
vars    == <<patient, spi, engine, switch, raster, buffer_switch_pending, mem, drawn, drawn_fits,
             draws, shows>>

Hidden == 1 - displayed_buffer
Black  == [p \in Screen |-> 0]

(* pixel_data_address_out: it rests at 0 until the first pixel was sent.   *)
ReadAddress ==
  IF beam < BlankBefore THEN 0 ELSE IF beam < BlankBefore + Pixels THEN beam - BlankBefore ELSE Pixels

(* The pixel in the r-th place, counted from the right, of a byte.         *)
PixelOf(byte, colors, r) ==
  LET bits == BitsPerPixel[colors] IN (byte \div 2^(bits * (r - 1))) % 2^bits

(* Mutant: the sum is not cut to four bits.                                *)
PaletteIndexWide(pixel, offset) == IF pixel = 0 THEN 0 ELSE pixel + offset

PaletteIndex(pixel, offset) == IF pixel = 0 THEN 0 ELSE (pixel + offset) % 16
-----------------------------------------------------------------------------
(* The FPGA has just been configured, its memories are zero.               *)
Init ==
  /\ patient \in BOOLEAN
  /\ sprite = (CHOOSE s \in Sprites : TRUE) /\ bytes = <<>> /\ first = FALSE
  /\ data = 0 /\ pixels_remaining = 0 /\ pen = [x |-> 0, y |-> 0]
  /\ beam = 0 /\ displayed_buffer = 0 /\ buffer_switch_pending = FALSE
  /\ clear_flag = FALSE /\ clear_address_counter = 0
  /\ mem = [b \in Buffers |-> Black]
  /\ sent = Black /\ drawn = Black /\ shown = Black /\ drawn_fits = TRUE /\ shown_fits = TRUE
  /\ draws = 0 /\ shows = 0 /\ current = 0 /\ whole = 0

-----------------------------------------------------------------------------
(* The calls of a script.                                                  *)

SpiIsFree == bytes = <<>> /\ pixels_remaining = 0

(* Bit 1 of buffer_status.                                                 *)
Busy == clear_flag \/ buffer_switch_pending

(* The lines of a sprite end where the pen can be: draw_sprite() also lets *)
(* x + width be up to 1279.                                                *)
Fits(s) == s.x + s.width <= PenRange

(* The address of pixel i of a sprite that fits, and its color: the sprite *)
(* goes on line by line, from the last line of the pen to the first.       *)
Place(s, i) == (s.x + (i % s.width) + Width * ((s.y + (i \div s.width)) % PenRange)) % AddressSpace
ColorOf(s, i) ==
  LET n == PixelsPerByte(s.colors) IN
    PaletteIndex(PixelOf(s.bytes[(i \div n) + 1], s.colors, n - (i % n)), s.offset)

(* A picture with a sprite drawn on it, by the definition of a sprite.     *)
WithSprite(picture, s) ==
  LET all == 0 .. Len(s.bytes) * PixelsPerByte(s.colors) - 1
      at(p) == {i \in all : Place(s, i) = p}
  IN  [p \in Screen |-> IF at(p) = {} THEN picture[p] ELSE ColorOf(s, Max(at(p)))]

LuaDisplayBitmap(s) ==
  /\ SpiIsFree /\ draws < MaxDraws /\ (patient => ~Busy)
  /\ sprite' = s /\ bytes' = s.bytes /\ first' = TRUE
  /\ drawn' = WithSprite(drawn, s) /\ drawn_fits' = (drawn_fits /\ Fits(s)) /\ draws' = draws + 1
  /\ UNCHANGED <<patient, engine, switch, raster, buffer_switch_pending, mem, shows>>

(* The status is not read: show() may come while a switch is pending, and  *)
(* is merged with it, or while the new buffer is being cleared.            *)
LuaDisplayShow ==
  /\ SpiIsFree /\ shows < MaxShows /\ (patient => ~Busy)
  /\ buffer_switch_pending' = TRUE
  /\ shows' = shows + 1
  /\ UNCHANGED <<patient, spi, engine, switch, raster, mem, drawn, drawn_fits, draws>>

-----------------------------------------------------------------------------
(* The sprite engine.  The first byte sets the pen to the corner.          *)
NewPixels ==
  /\ bytes # <<>> /\ pixels_remaining = 0
  /\ data' = Head(bytes) /\ bytes' = Tail(bytes) /\ first' = FALSE
  /\ pixels_remaining' = PixelsPerByte(sprite.colors)
  /\ pen' = IF first THEN [x |-> sprite.x, y |-> sprite.y] ELSE pen
  /\ UNCHANGED <<patient, sprite, switch, raster, buffer_switch_pending, mem, drawn, drawn_fits,
                 draws, shows>>

(* Mutant: a line is one pixel too long.                                   *)
NextPenLate ==
  IF pen.x < sprite.x + sprite.width
    THEN [pen EXCEPT !.x = (pen.x + 1) % PenRange]
    ELSE [x |-> sprite.x, y |-> (pen.y + 1) % PenRange]

(* The pens have ten bits, the sum they are compared with has 32: the line *)
(* of a sprite that does not fit never ends.                               *)
NextPen ==
  IF pen.x < sprite.x + sprite.width - 1
    THEN [pen EXCEPT !.x = (pen.x + 1) % PenRange]
    ELSE [x |-> sprite.x, y |-> (pen.y + 1) % PenRange]

(* A pixel that comes while the buffer is cleared is lost, because the     *)
(* memory gets its address and its data from the clear logic.              *)
Draw ==
  /\ pixels_remaining > 0
  /\ LET address == (pen.x + pen.y * Width) % AddressSpace
         color   == PaletteIndex(PixelOf(data, sprite.colors, pixels_remaining), sprite.offset)
     IN  mem' = IF clear_flag \/ address \notin Screen
                  THEN mem ELSE [mem EXCEPT ![Hidden][address] = color]
  /\ pixels_remaining' = pixels_remaining - 1
  /\ pen' = NextPen
  /\ UNCHANGED <<patient, spi, data, switch, raster, buffer_switch_pending, drawn, drawn_fits,
                 draws, shows>>

-----------------------------------------------------------------------------
(* The clock.                                                              *)

(* Mutant: the switch does not wait for the raster.                        *)
MaySwitchAnywhere == buffer_switch_pending

(* Mutant: it waits for an address that is never reached.                  *)
MaySwitchPastTheEnd == buffer_switch_pending /\ ReadAddress > Pixels

MaySwitch == buffer_switch_pending /\ ReadAddress = 0

ClearPixel ==
  mem' = IF clear_flag /\ clear_address_counter \in Screen
           THEN [mem EXCEPT ![Hidden][clear_address_counter] = 0] ELSE mem

(* The counter starts from 0, unless a clear is running: then the later    *)
(* assignment of the always block wins, and the counter goes on.           *)
SwitchAndClear ==
  /\ displayed_buffer' = IF MaySwitch THEN Hidden ELSE displayed_buffer
  /\ buffer_switch_pending' = (buffer_switch_pending /\ ~MaySwitch)
  /\ clear_flag' = IF clear_flag THEN clear_address_counter # Pixels ELSE MaySwitch
  /\ clear_address_counter' =
       IF clear_flag THEN clear_address_counter + 1
       ELSE IF MaySwitch THEN 0 ELSE clear_address_counter

SendPixel ==
  /\ beam' = IF beam < FrameTicks - 1 THEN beam + 1 ELSE 0
  /\ sent' = IF beam \in BlankBefore .. BlankBefore + Pixels - 1
               THEN [sent EXCEPT ![ReadAddress] = mem[displayed_buffer][ReadAddress]]
               ELSE IF beam' = 0 THEN Black ELSE sent
  /\ whole' = IF beam = BlankBefore + Pixels THEN current ELSE whole

Tick ==
  /\ ClearPixel /\ SwitchAndClear /\ SendPixel
  /\ IF MaySwitch
       THEN /\ shown' = drawn /\ drawn' = Black /\ current' = shows
            /\ shown_fits' = drawn_fits /\ drawn_fits' = TRUE
       ELSE UNCHANGED <<shown, shown_fits, drawn, drawn_fits, current>>
  /\ UNCHANGED <<patient, spi, engine, draws, shows>>

-----------------------------------------------------------------------------
Next ==
  \/ \E s \in Sprites : LuaDisplayBitmap(s)
  \/ LuaDisplayShow \/ NewPixels \/ Draw \/ Tick

Spec == Init /\ [][Next]_vars

(* The clock runs.                                                         *)
FairSpec == Spec /\ WF_vars(Tick)

-----------------------------------------------------------------------------
TypeOK ==
  /\ patient \in BOOLEAN /\ sprite \in Sprites /\ bytes \in Seq(Byte) /\ first \in BOOLEAN
  /\ data \in Byte /\ pixels_remaining \in 0 .. ByteBits
  /\ pen \in [x : 0 .. PenRange - 1, y : 0 .. PenRange - 1]
  /\ beam \in 0 .. FrameTicks - 1 /\ displayed_buffer \in Buffers
  /\ buffer_switch_pending \in BOOLEAN /\ clear_flag \in BOOLEAN
  /\ clear_address_counter \in 0 .. Pixels + 1
  /\ mem \in [Buffers -> [Screen -> Color]]
  /\ sent \in [Screen -> Color]
  /\ drawn \in [Screen -> Color] /\ shown \in [Screen -> Color]
  /\ drawn_fits \in BOOLEAN /\ shown_fits \in BOOLEAN
  /\ {draws, shows, current, whole} \subseteq Nat

(* No frame is torn: whatever scripts draw and whenever they call show(),  *)
(* what was sent of this frame is still what the displayed buffer holds.   *)
(* The first pixel is left out: a switch at the last moment catches it in  *)
(* the read pipeline.                                                      *)
NoTearing ==
  \A p \in Screen : 0 < p /\ p < ReadAddress => sent[p] = mem[displayed_buffer][p]

(* A script that lets each switch and clear end sees its picture: on the   *)
(* screen are the sprites it drew since the show() before, each pixel at   *)
(* its place and in its color, the later over the earlier ones, and black  *)
(* elsewhere; nothing is lost and nothing is left of an older picture.  A  *)
(* sprite that does not fit spoils the picture it is on, and no other.     *)
ShownIsWhatWasDrawn == patient /\ shown_fits => mem[displayed_buffer] = shown

(* Each picture of such a script is sent to the display, from the first    *)
(* line to the last, before the next one takes its place.                  *)
EveryPictureIsSent ==
  \A n \in 1 .. MaxShows : (patient /\ shows = n) ~> (whole = n)

(* What draw_sprite() lets pass is drawn, whether it fits or not.          *)
WideSpritesAreShown == patient => mem[displayed_buffer] = shown
=============================================================================
