---------------------------- MODULE CameraCapture ----------------------------
(***************************************************************************)
(* Taking a picture: frame.camera.capture(), image_ready(), read(),        *)
(* read_raw() and power_save() of lua_libraries/camera.c, and the part of  *)
(* the FPGA they talk to over SPI: the registers (spi_registers.sv), the   *)
(* state machine and size counter of the encoder (jpeg_encoder.sv) and the *)
(* image buffer (image_buffer.sv).                                         *)
(*                                                                         *)
(* The FPGA runs on its own clocks between any two SPI transactions; the   *)
(* state machine is clocked far faster than frames and SPI bytes come, so  *)
(* it has reacted to one before the next.  A byte of a file is a tuple:    *)
(* what it is part of, of which picture, and its place there.              *)
(***************************************************************************)
EXTENDS Naturals, Sequences

CONSTANTS
  Resolutions,  \* the resolutions scripts ask for
  HeaderBytes,  \* sizeof(header), 623 in the source
  Word,         \* bytes in a word of the image buffer, 4 in the source
  BufferWords,  \* words in the image buffer, 2^14; addresses wrap there
  MaxWords,     \* bound on the words of a picture; 2^18 in the source
  MaxRead,      \* bound on the bytes asked for in one read()
  MaxCaptures,  \* bound on the number of captures
  MaxOut        \* bound on the bytes read of one capture

ASSUME CameraAssumption ==
  /\ Resolutions # {} /\ Resolutions \subseteq Nat \ {0}
  /\ \A n \in {HeaderBytes, Word, BufferWords, MaxWords, MaxRead, MaxCaptures, MaxOut} :
        n \in Nat \ {0}

VARIABLES
  patient,      \* the script waits for image_ready(), and then reads
  pc,           \* the SPI transaction that a call is waiting for, or "idle"
  asleep,       \* camera_is_asleep
  resolution,   \* capture_settings.resolution
  header_bytes_sent_out, data_bytes_remaining, footer_bytes_sent_out,
  want,         \* data bytes the current read() has still to fetch
  state,        \* the state machine of jpeg_encoder
  frame_valid,  \* the sensor is sending a frame
  resolution_out, image_address_out,  \* registers of the FPGA
  size,         \* bytes the encoder has written
  mem, latched, \* the image buffer, and the word at its output
  picture,      \* history: the picture being encoded, and its resolution
  captures,     \* history: calls of capture() so far
  ready, out, ended  \* history: since the last capture(), image_ready() was
                     \* true, what was read, and read() returned nil

lib     == <<asleep, resolution>>
sentOut == <<header_bytes_sent_out, data_bytes_remaining, footer_bytes_sent_out, want>>
encoder == <<state, size, mem, picture>>
port    == <<resolution_out, image_address_out, latched>>
history == <<captures, ready, out, ended>>
vars    == <<patient, pc, lib, sentOut, encoder, frame_valid, port, history>>

States == {"IDLE", "RESET", "WAIT_FOR_FRAME_START", "COMPRESS", "IMAGE_VALID"}
Calls  == {"idle", "start", "size", "data"}
Mixed  == 0      \* the resolution of a picture when it changed half-way
NoWord == <<0, 0>>

Lesser(m, n) == IF m < n THEN m ELSE n

(* The file: its header tells the resolution, its data are bytes of the    *)
(* picture (numbered from 0), its footer is FF D9.                         *)
HeaderByte(r, i)  == <<"header", r, i>>
DataByte(no, i)   == <<"data", no, i>>
FooterByte(i)     == <<"footer", 0, i>>

(* Addresses are sixteen bits wide, as many as the buffer has bytes.       *)
BufferBytes    == BufferWords * Word
Address(n)     == n % BufferBytes
WordAt(address) == mem[address \div Word]
-----------------------------------------------------------------------------
(* The FPGA and the firmware have just started.  A later reset of Lua      *)
(* touches neither these registers nor the static variables of camera.c.   *)
Init ==
  /\ patient \in BOOLEAN
  /\ pc = "idle" /\ asleep = FALSE /\ resolution = Mixed
  /\ header_bytes_sent_out = 0 /\ data_bytes_remaining = 0
  /\ footer_bytes_sent_out = 0 /\ want = 0
  /\ state = "IDLE" /\ frame_valid \in BOOLEAN
  /\ resolution_out \in Resolutions /\ image_address_out = 0
  /\ size = 0 /\ mem = [w \in 0 .. BufferWords - 1 |-> NoWord] /\ latched = NoWord
  /\ picture = [no |-> 0, res |-> Mixed]
  /\ captures = 0 /\ ready = FALSE /\ out = <<>> /\ ended = FALSE

-----------------------------------------------------------------------------
(* The sensor and the encoder.                                             *)

(* Has the state machine nothing left to do until the level changes?       *)
Settled ==
  /\ state = "RESET" => frame_valid
  /\ state = "WAIT_FOR_FRAME_START" => ~frame_valid

FrameEdge ==
  /\ ~asleep /\ Settled
  /\ frame_valid' = ~frame_valid
  /\ UNCHANGED <<patient, pc, lib, sentOut, encoder, port, history>>

(* Held in reset until the end of the frame under way.                     *)
LeaveReset ==
  /\ state = "RESET" /\ ~frame_valid
  /\ state' = "WAIT_FOR_FRAME_START"
  /\ UNCHANGED <<patient, pc, lib, sentOut, size, mem, picture, frame_valid, port, history>>

FrameStart ==
  /\ state = "WAIT_FOR_FRAME_START" /\ frame_valid
  /\ state' = "COMPRESS" /\ size' = 0
  /\ picture' = [no |-> captures, res |-> resolution_out]
  /\ UNCHANGED <<patient, pc, lib, sentOut, mem, frame_valid, port, history>>

(* A word of the picture is written; the buffer has one port, so the word  *)
(* at its output becomes the old one of that place.                        *)
WriteWord ==
  /\ mem' = [mem EXCEPT ![Address(size) \div Word] = <<picture.no, size \div Word>>]
  /\ latched' = WordAt(Address(size))
  /\ size' = size + Word
  /\ picture' = IF picture.res = resolution_out THEN picture ELSE [picture EXCEPT !.res = Mixed]

(* Mutant: the pulse that ends the compression does not cross the clocks.  *)
EncodeWithoutEnd ==
  /\ state = "COMPRESS" /\ ~asleep /\ size < MaxWords * Word
  /\ WriteWord /\ UNCHANGED state
  /\ UNCHANGED <<patient, pc, lib, sentOut, frame_valid, resolution_out,
                 image_address_out, history>>

Encode ==
  /\ state = "COMPRESS" /\ ~asleep
  /\ WriteWord
  /\ \/ size' < MaxWords * Word /\ UNCHANGED state
     \/ state' = "IMAGE_VALID"
  /\ UNCHANGED <<patient, pc, lib, sentOut, frame_valid, resolution_out,
                 image_address_out, history>>

-----------------------------------------------------------------------------
(* capture().                                                              *)

NothingUnderWay == state = "IDLE" \/ ready

(* The counters and the settings; a bad argument, or a camera that is      *)
(* asleep, is an error before anything has changed.                        *)
LuaCameraCapture(r) ==
  /\ pc = "idle" /\ ~asleep /\ captures < MaxCaptures
  /\ patient => NothingUnderWay
  /\ header_bytes_sent_out' = 0 /\ data_bytes_remaining' = 0 /\ footer_bytes_sent_out' = 0
  /\ resolution' = r /\ resolution_out' = r
  /\ captures' = captures + 1 /\ ready' = FALSE /\ out' = <<>> /\ ended' = FALSE
  /\ pc' = "start"
  /\ UNCHANGED <<patient, asleep, want, encoder, frame_valid, image_address_out, latched>>

(* Opcode 0x20.  A state machine that is busy does not see it.             *)
StartCapture ==
  /\ pc = "start" /\ pc' = "idle"
  /\ image_address_out' = 0
  /\ state' = IF state \in {"IDLE", "IMAGE_VALID"} THEN "RESET" ELSE state
  /\ UNCHANGED <<patient, lib, sentOut, size, mem, picture, frame_valid,
                 resolution_out, latched, history>>

-----------------------------------------------------------------------------
(* image_ready().                                                          *)

LuaCameraImageReady ==
  /\ pc = "idle" /\ ~asleep
  /\ patient => out = <<>> /\ ~ended
  /\ state = "IMAGE_VALID"         \* else it returns false
  /\ pc' = "size"
  /\ UNCHANGED <<patient, lib, sentOut, encoder, frame_valid, port, history>>

(* Mutant: opcode 0x31 does not fetch the word at the read address.        *)
ReadSizeOnly ==
  /\ pc = "size" /\ pc' = "idle"
  /\ data_bytes_remaining' = Address(size)
  /\ ready' = TRUE
  /\ UNCHANGED <<patient, lib, header_bytes_sent_out, footer_bytes_sent_out, want,
                 encoder, frame_valid, port, captures, out, ended>>

(* Opcode 0x31: sixteen bits of the size; each byte that is read also      *)
(* fetches the word at the read address.                                   *)
ReadSize ==
  /\ pc = "size" /\ pc' = "idle"
  /\ data_bytes_remaining' = Address(size)
  /\ latched' = WordAt(image_address_out)
  /\ ready' = TRUE
  /\ UNCHANGED <<patient, lib, header_bytes_sent_out, footer_bytes_sent_out, want,
                 encoder, frame_valid, resolution_out, image_address_out,
                 captures, out, ended>>

-----------------------------------------------------------------------------
(* read() and read_raw() of n bytes.                                       *)

MayRead(n) == pc = "idle" /\ Len(out) + n <= MaxOut

(* The part both have in common: data if some remain, else the footer,     *)
(* else nil.                                                               *)
ReadData(n) ==
  /\ data_bytes_remaining > 0
  /\ want' = Lesser(n, data_bytes_remaining)
  /\ data_bytes_remaining' = data_bytes_remaining - want'
  /\ pc' = "data"
  /\ UNCHANGED <<header_bytes_sent_out, footer_bytes_sent_out, out, ended>>

ReadFooter(n) ==
  /\ data_bytes_remaining = 0 /\ footer_bytes_sent_out < 2
  /\ LET length == Lesser(n, 2 - footer_bytes_sent_out) IN
       /\ out' = out \o [i \in 1 .. length |-> FooterByte(footer_bytes_sent_out + i)]
       /\ footer_bytes_sent_out' = footer_bytes_sent_out + length
  /\ UNCHANGED <<pc, header_bytes_sent_out, data_bytes_remaining, want, ended>>

ReadNil ==
  /\ data_bytes_remaining = 0 /\ footer_bytes_sent_out = 2
  /\ ended' = TRUE
  /\ UNCHANGED <<pc, sentOut, out>>

ReadHeader(n) ==
  LET length == Lesser(n, HeaderBytes - header_bytes_sent_out) IN
    /\ out' = out \o [i \in 1 .. length |-> HeaderByte(resolution, header_bytes_sent_out + i)]
    /\ header_bytes_sent_out' = header_bytes_sent_out + length
    /\ UNCHANGED <<pc, data_bytes_remaining, footer_bytes_sent_out, want, ended>>

LuaCameraRead(n) ==
  /\ MayRead(n)
  /\ patient => ready /\ (out = <<>> \/ header_bytes_sent_out > 0)
  /\ IF header_bytes_sent_out < HeaderBytes
       THEN ReadHeader(n)
       ELSE ReadData(n) \/ ReadFooter(n) \/ ReadNil
  /\ UNCHANGED <<patient, lib, encoder, frame_valid, port, captures, ready>>

LuaCameraReadRaw(n) ==
  /\ MayRead(n)
  /\ patient => ready /\ header_bytes_sent_out = 0
  /\ ReadData(n) \/ ReadFooter(n) \/ ReadNil
  /\ UNCHANGED <<patient, lib, encoder, frame_valid, port, captures, ready>>

(* Opcode 0x22: one byte of the word that was fetched; then the address is *)
(* incremented, while it is less than the size plus a word, and the word   *)
(* there is fetched.                                                       *)
ReadDataByte ==
  /\ pc = "data"
  /\ out' = Append(out, DataByte(latched[1], (latched[2] * Word) + (image_address_out % Word)))
  /\ image_address_out' = IF image_address_out < Address(size + Word)
                            THEN Address(image_address_out + 1) ELSE image_address_out
  /\ latched' = WordAt(image_address_out')
  /\ want' = want - 1
  /\ pc' = IF want' = 0 THEN "idle" ELSE "data"
  /\ UNCHANGED <<patient, lib, header_bytes_sent_out, data_bytes_remaining,
                 footer_bytes_sent_out, encoder, frame_valid, resolution_out,
                 captures, ready, ended>>

-----------------------------------------------------------------------------
(* power_save(): the sensor stops and starts; a picture that was under way *)
(* is made of two frames.                                                  *)
LuaCameraPowerSave ==
  /\ pc = "idle"
  /\ patient => asleep \/ NothingUnderWay
  /\ asleep' = ~asleep
  /\ picture' = IF state = "COMPRESS" THEN [picture EXCEPT !.res = Mixed] ELSE picture
  /\ UNCHANGED <<patient, pc, resolution, sentOut, state, size, mem, frame_valid, port, history>>

-----------------------------------------------------------------------------
Fpga == FrameEdge \/ LeaveReset \/ FrameStart \/ Encode
Transaction == StartCapture \/ ReadSize \/ ReadDataByte

Next ==
  \/ Fpga \/ Transaction
  \/ \E r \in Resolutions : LuaCameraCapture(r)
  \/ LuaCameraImageReady
  \/ \E n \in 1 .. MaxRead : LuaCameraRead(n) \/ LuaCameraReadRaw(n)
  \/ LuaCameraPowerSave

Spec == Init /\ [][Next]_vars

(* The clocks run and a call that began goes on; scripts owe nothing.      *)
Fairness ==
  /\ WF_vars(FrameEdge) /\ WF_vars(LeaveReset) /\ WF_vars(FrameStart)
  /\ WF_vars(Encode) /\ WF_vars(Transaction)

FairSpec == Spec /\ Fairness

-----------------------------------------------------------------------------
TypeOK ==
  /\ patient \in BOOLEAN /\ pc \in Calls /\ asleep \in BOOLEAN
  /\ resolution \in Resolutions \cup {Mixed} /\ resolution_out \in Resolutions
  /\ header_bytes_sent_out \in 0 .. HeaderBytes /\ footer_bytes_sent_out \in 0 .. 2
  /\ data_bytes_remaining \in 0 .. BufferBytes - 1 /\ want \in 0 .. MaxRead
  /\ state \in States /\ frame_valid \in BOOLEAN
  /\ image_address_out \in 0 .. BufferBytes - 1 /\ size \in 0 .. MaxWords * Word
  /\ mem \in [0 .. BufferWords - 1 -> Nat \X Nat] /\ latched \in Nat \X Nat
  /\ picture \in [no : Nat, res : Resolutions \cup {Mixed}]
  /\ captures \in Nat /\ ready \in BOOLEAN /\ ended \in BOOLEAN
  /\ out \in Seq({"header", "data", "footer"} \X Nat \X Nat)

(* The file of the picture taken by the last capture().                    *)
Header == [i \in 1 .. HeaderBytes |-> HeaderByte(picture.res, i)]
Data   == [i \in 1 .. size |-> DataByte(captures, i - 1)]
Footer == [i \in 1 .. 2 |-> FooterByte(i)]
File   == (IF header_bytes_sent_out > 0 THEN Header ELSE <<>>) \o Data \o Footer

IsBeginningOfFile == Len(out) <= Len(File) /\ \A i \in DOMAIN out : out[i] = File[i]

(* A script that waits for image_ready() reads the file of its own picture *)
(* byte by byte, none missing and none stale, under a header that tells    *)
(* the resolution it was encoded with, and gets nil when it has all of it, *)
(* however it cuts the file into pieces and whatever pictures it took and  *)
(* abandoned before.  The picture has to leave two words of the buffer.    *)
FileIsWhole ==
  patient /\ size + Word < BufferBytes =>
    /\ IsBeginningOfFile
    /\ ended => Len(out) = Len(File)

(* A capture ends with a picture, if the camera is not sent to sleep, even *)
(* when the script starts others meanwhile.                                *)
CaptureCompletes == (pc = "start") ~> (state = "IMAGE_VALID" \/ asleep)

(* The same for each picture that fits into the buffer: the register tells *)
(* its size, and all of it can be read.                                    *)
AnyPictureIsWhole ==
  patient /\ size < BufferBytes => IsBeginningOfFile
=============================================================================
