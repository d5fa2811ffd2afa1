-------------------------- MODULE CameraCapture_proofs -------------------------
(* Theorems about CameraCapture, for a header, words, a buffer, pictures   *)
(* and reads of any length and any number of captures.                     *)
EXTENDS CameraCapture, TLAPS

(* Words and addresses.                                                    *)
LEMMA Modulo ==
  ASSUME NEW a \in Nat, NEW m \in Nat \ {0}
  PROVE  /\ a % m \in 0 .. m - 1 /\ a \div m \in Nat
         /\ (a \div m) * m + (a % m) = a
         /\ a < m => a % m = a
<1>1. a % m \in 0 .. m - 1 /\ a \div m \in Nat
  OBVIOUS
<1>2. (a \div m) * m + (a % m) = a
  OBVIOUS
<1>3. a < m => a % m = a
  OBVIOUS
<1> QED
  BY <1>1, <1>2, <1>3

LEMMA QuotientIsLess ==
  ASSUME NEW a \in Nat, NEW m \in Nat \ {0}, NEW k \in Nat, a < k * m
  PROVE  a \div m < k
OBVIOUS

LEMMA QuotientIs ==
  ASSUME NEW m \in Nat \ {0}, NEW k \in Nat
  PROVE  k * m \in Nat /\ (k * m) \div m = k
OBVIOUS

LEMMA NextMultiple ==
  ASSUME NEW m \in Nat \ {0}, NEW k \in Nat, NEW n \in Nat, k < n
  PROVE  k * m + m = (k + 1) * m /\ (k + 1) * m <= n * m /\ k * m < n * m
OBVIOUS

LEMMA LessOf ==
  ASSUME NEW d \in Nat, NEW w \in Nat, NEW b \in Nat, d <= b - 1, w <= d
  PROVE  d - w \in 0 .. b - 1
OBVIOUS

LEMMA ConstantsAre ==
  /\ HeaderBytes \in Nat \ {0} /\ Word \in Nat \ {0} /\ BufferWords \in Nat \ {0}
  /\ MaxWords \in Nat \ {0} /\ MaxRead \in Nat \ {0}
  /\ Resolutions \subseteq Nat \ {0}
BY CameraAssumption

LEMMA BufferBytesIs == BufferBytes \in Nat \ {0}
<1>1. 0 * Word < BufferWords * Word /\ BufferWords * Word \in Nat
  BY ConstantsAre, NextMultiple, QuotientIs
<1> QED
  BY <1>1, ConstantsAre DEF BufferBytes

LEMMA AddressIs ==
  ASSUME NEW n \in Nat
  PROVE  Address(n) \in 0 .. BufferBytes - 1 /\ (n < BufferBytes => Address(n) = n)
BY BufferBytesIs, Modulo DEF Address

LEMMA WordOfAddress ==
  ASSUME NEW a \in 0 .. BufferBytes - 1
  PROVE  a \div Word \in 0 .. BufferWords - 1
<1>1. a \in Nat /\ a < BufferBytes
  BY BufferBytesIs
<1>2. a \div Word \in Nat /\ a \div Word < BufferWords
  BY <1>1, ConstantsAre, Modulo, QuotientIsLess DEF BufferBytes
<1> QED
  BY <1>2, ConstantsAre

(* Types of the state, without what depends on the size of a picture.      *)
Types ==
  /\ patient \in BOOLEAN /\ pc \in Calls /\ asleep \in BOOLEAN
  /\ resolution \in Resolutions \cup {Mixed} /\ resolution_out \in Resolutions
  /\ header_bytes_sent_out \in 0 .. HeaderBytes /\ footer_bytes_sent_out \in 0 .. 2
  /\ data_bytes_remaining \in 0 .. BufferBytes - 1 /\ want \in 0 .. MaxRead
  /\ state \in States /\ frame_valid \in BOOLEAN
  /\ image_address_out \in 0 .. BufferBytes - 1
  /\ mem \in [0 .. BufferWords - 1 -> Nat \X Nat] /\ latched \in Nat \X Nat
  /\ picture \in [no : Nat, res : Resolutions \cup {Mixed}]
  /\ captures \in Nat /\ ready \in BOOLEAN /\ ended \in BOOLEAN
  /\ out \in Seq({"header", "data", "footer"} \X Nat \X Nat)

(* The encoder has written k whole words; as long as they fit into the     *)
(* buffer, each is still there.                                            *)
Written(k) ==
  /\ size = k * Word
  /\ state = "COMPRESS" => k < MaxWords
  /\ state \in {"COMPRESS", "IMAGE_VALID"} /\ k <= BufferWords
       => \A w \in 0 .. BufferWords - 1 : w < k => mem[w] = <<picture.no, w>>

WordsAreWritten == \E k \in 0 .. MaxWords : Written(k)

TypesInv == Types /\ WordsAreWritten /\ (pc = "data" <=> want > 0)

(* What a call and a script that waits have to do with the encoder.        *)
InStep ==
  /\ ready => pc # "start"
  /\ ready \/ pc = "size" => state = "IMAGE_VALID"
  /\ patient /\ pc = "data" => ready
  /\ patient /\ pc = "start" => state \in {"IDLE", "IMAGE_VALID"}
  /\ patient /\ asleep => state \in {"IDLE", "IMAGE_VALID"} /\ pc # "start"
  /\ state # "IDLE" \/ pc = "start" => resolution = resolution_out
  /\ patient /\ state \in {"COMPRESS", "IMAGE_VALID"} /\ pc # "start"
       => picture.no = captures /\ picture.res = resolution_out

Fits == size + Word < BufferBytes

(* Nothing of the picture was read before image_ready() was true.          *)
Untouched ==
  /\ out = <<>> /\ ~ended
  /\ header_bytes_sent_out = 0 /\ footer_bytes_sent_out = 0
NothingRead ==
  patient /\ (~ready \/ (pc = "size" /\ Fits)) => Untouched /\ (pc # "start" => image_address_out = 0)

(* How much was read.                                                      *)
Counts ==
  /\ data_bytes_remaining + want + image_address_out = size
  /\ Len(out) = header_bytes_sent_out + image_address_out + footer_bytes_sent_out
  /\ header_bytes_sent_out \in {0, HeaderBytes}
       \/ (image_address_out = 0 /\ want = 0 /\ footer_bytes_sent_out = 0)
  /\ footer_bytes_sent_out > 0 => data_bytes_remaining = 0 /\ want = 0
  /\ ended => footer_bytes_sent_out = 2 /\ header_bytes_sent_out \in {0, HeaderBytes}
  /\ latched = WordAt(image_address_out)

(* What was read.                                                          *)
Bytes ==
  LET h == header_bytes_sent_out
      a == image_address_out
  IN  /\ \A i \in 1 .. h : out[i] = HeaderByte(resolution, i)
      /\ \A i \in 1 .. a : out[h + i] = DataByte(captures, i - 1)
      /\ \A i \in 1 .. footer_bytes_sent_out : out[h + a + i] = FooterByte(i)

ReadSoFar == patient /\ ready /\ Fits => Counts /\ Bytes

IInv == TypesInv /\ InStep /\ NothingRead /\ ReadSoFar

-----------------------------------------------------------------------------
FileBytes == {"header", "data", "footer"} \X Nat \X Nat

LEMMA WordIsTyped ==
  ASSUME Types, NEW a \in 0 .. BufferBytes - 1
  PROVE  WordAt(a) \in Nat \X Nat
BY WordOfAddress DEF Types, WordAt

LEMMA Joined ==
  ASSUME NEW S, NEW s \in Seq(S), NEW n \in Nat, NEW f, \A i \in 1 .. n : f[i] \in S, f = [i \in 1 .. n |-> f[i]]
  PROVE  s \o f \in Seq(S)
OBVIOUS

LEMMA LesserIs ==
  ASSUME NEW m \in Nat, NEW n \in Nat
  PROVE  Lesser(m, n) \in Nat /\ Lesser(m, n) <= m /\ Lesser(m, n) <= n
         /\ (m > 0 /\ n > 0 => Lesser(m, n) > 0)
BY DEF Lesser

LEMMA TypesInit == Init => Types
<1> SUFFICES ASSUME Init PROVE Types
  OBVIOUS
<1>1. mem \in [0 .. BufferWords - 1 -> Nat \X Nat] /\ latched \in Nat \X Nat
  BY DEF Init, NoWord
<1>2. picture \in [no : Nat, res : Resolutions \cup {Mixed}]
  BY DEF Init
<1>3. out \in Seq({"header", "data", "footer"} \X Nat \X Nat)
  BY DEF Init
<1>4. header_bytes_sent_out \in 0 .. HeaderBytes /\ footer_bytes_sent_out \in 0 .. 2
      /\ want \in 0 .. MaxRead
  BY ConstantsAre DEF Init
<1>5. data_bytes_remaining \in 0 .. BufferBytes - 1 /\ image_address_out \in 0 .. BufferBytes - 1
  BY BufferBytesIs DEF Init
<1>6. pc \in Calls /\ state \in States /\ captures \in Nat
  BY DEF Init, Calls, States
<1> QED
  BY <1>1, <1>2, <1>3, <1>4, <1>5, <1>6 DEF Init, Types

LEMMA TypesFpga ==
  ASSUME Types, size \in Nat, Fpga
  PROVE  Types'
<1> USE DEF lib, sentOut, encoder, port, history
<1>1. CASE FrameEdge
  BY <1>1 DEF FrameEdge, Types
<1>2. CASE LeaveReset
  BY <1>2 DEF LeaveReset, Types, States
<1>3. CASE FrameStart
  BY <1>3 DEF FrameStart, Types, States
<1>4. CASE Encode
  <2>1. /\ mem' = [mem EXCEPT ![Address(size) \div Word] = <<picture.no, size \div Word>>]
        /\ latched' = WordAt(Address(size))
        /\ picture' = IF picture.res = resolution_out THEN picture ELSE [picture EXCEPT !.res = Mixed]
    BY <1>4 DEF Encode, WriteWord
  <2>2. picture \in [no : Nat, res : Resolutions \cup {Mixed}]
        /\ mem \in [0 .. BufferWords - 1 -> Nat \X Nat]
    BY DEF Types
  <2>3. <<picture.no, size \div Word>> \in Nat \X Nat
    BY <2>2, ConstantsAre, Modulo
  <2>4. mem' \in [0 .. BufferWords - 1 -> Nat \X Nat]
    BY <2>1, <2>2, <2>3
  <2>5. latched' \in Nat \X Nat
    BY <2>1, AddressIs, WordIsTyped
  <2>6. picture' \in [no : Nat, res : Resolutions \cup {Mixed}]
    BY <2>1, <2>2
  <2>7. state' \in States
    BY <1>4 DEF Encode, States
  <2>8. UNCHANGED <<patient, pc, lib, sentOut, frame_valid, resolution_out, image_address_out, history>>
    BY <1>4 DEF Encode
  <2> QED
    BY <2>4, <2>5, <2>6, <2>7, <2>8 DEF Types
<1> QED
  BY <1>1, <1>2, <1>3, <1>4 DEF Fpga

LEMMA TypesTransaction ==
  ASSUME Types, size \in Nat, pc = "data" <=> want > 0, Transaction
  PROVE  Types'
<1> USE DEF lib, sentOut, encoder, port, history
<1>1. CASE StartCapture
  BY <1>1, BufferBytesIs DEF StartCapture, Types, States, Calls
<1>2. CASE ReadSize
  <2>1. data_bytes_remaining' \in 0 .. BufferBytes - 1
    BY <1>2, AddressIs DEF ReadSize
  <2>2. latched' \in Nat \X Nat
    BY <1>2, WordIsTyped DEF ReadSize, Types
  <2> QED
    BY <1>2, <2>1, <2>2 DEF ReadSize, Types, Calls
<1>3. CASE ReadDataByte
  <2>1. /\ pc = "data"
        /\ out' = Append(out, DataByte(latched[1], (latched[2] * Word) + (image_address_out % Word)))
        /\ image_address_out' = IF image_address_out < Address(size + Word)
                                  THEN Address(image_address_out + 1) ELSE image_address_out
        /\ latched' = WordAt(image_address_out')
        /\ want' = want - 1
        /\ pc' = IF want' = 0 THEN "idle" ELSE "data"
        /\ UNCHANGED <<patient, lib, header_bytes_sent_out, data_bytes_remaining,
                       footer_bytes_sent_out, encoder, frame_valid, resolution_out,
                       captures, ready, ended>>
    BY <1>3 DEF ReadDataByte
  <2>2. image_address_out' \in 0 .. BufferBytes - 1
    <3>1. image_address_out \in 0 .. BufferBytes - 1 /\ image_address_out + 1 \in Nat
      BY BufferBytesIs DEF Types
    <3>2. Address(image_address_out + 1) \in 0 .. BufferBytes - 1
      BY <3>1, AddressIs
    <3> QED
      BY <2>1, <3>1, <3>2
  <2>3. latched' \in Nat \X Nat
    <3>2. mem \in [0 .. BufferWords - 1 -> Nat \X Nat] /\ mem' = mem
      BY <2>1 DEF Types
    <3>3. image_address_out' \div Word \in 0 .. BufferWords - 1
      BY <2>2, WordOfAddress
    <3> QED
      BY <2>1, <3>2, <3>3 DEF WordAt
  <2>4. want' \in 0 .. MaxRead
    BY <2>1, ConstantsAre DEF Types
  <2>5. pc' \in Calls
    BY <2>1 DEF Calls
  <2>6. out' \in Seq(FileBytes)
    <3>1. latched[1] \in Nat /\ latched[2] \in Nat
      BY DEF Types
    <3>2. latched[2] * Word \in Nat
      BY <3>1, ConstantsAre, QuotientIs
    <3>3. image_address_out % Word \in Nat
      BY Modulo, ConstantsAre, BufferBytesIs DEF Types
    <3>4. (latched[2] * Word) + (image_address_out % Word) \in Nat
      BY <3>2, <3>3
    <3>5. DataByte(latched[1], (latched[2] * Word) + (image_address_out % Word)) \in FileBytes
      BY <3>1, <3>4 DEF DataByte, FileBytes
    <3>6. out \in Seq(FileBytes)
      BY DEF Types, FileBytes
    <3> QED
      BY <2>1, <3>5, <3>6
  <2> QED
    BY <2>1, <2>2, <2>3, <2>4, <2>5, <2>6 DEF Types, FileBytes
<1> QED
  BY <1>1, <1>2, <1>3 DEF Transaction

LEMMA TypesCapture ==
  ASSUME Types, NEW r \in Resolutions, LuaCameraCapture(r)
  PROVE  Types'
<1> USE DEF lib, sentOut, encoder, port, history
<1>1. /\ header_bytes_sent_out' \in 0 .. HeaderBytes /\ footer_bytes_sent_out' \in 0 .. 2
      /\ data_bytes_remaining' \in 0 .. BufferBytes - 1
  BY ConstantsAre, BufferBytesIs DEF LuaCameraCapture
<1>2. out' \in Seq(FileBytes) /\ captures' \in Nat /\ pc' \in Calls
  BY DEF LuaCameraCapture, Types, Calls
<1> QED
  BY <1>1, <1>2 DEF LuaCameraCapture, Types, FileBytes

(* What read() and read_raw() leave alone.                                 *)
LEMMA TypesKept ==
  ASSUME Types, UNCHANGED <<patient, lib, encoder, frame_valid, port, captures, ready>>,
         pc' \in Calls, out' \in Seq(FileBytes), ended' \in BOOLEAN,
         header_bytes_sent_out' \in 0 .. HeaderBytes, footer_bytes_sent_out' \in 0 .. 2,
         data_bytes_remaining' \in 0 .. BufferBytes - 1, want' \in 0 .. MaxRead
  PROVE  Types'
BY DEF Types, FileBytes, lib, encoder, port

LEMMA TypesReads ==
  ASSUME Types, NEW n \in 1 .. MaxRead, LuaCameraRead(n) \/ LuaCameraReadRaw(n)
  PROVE  Types'
<1> USE DEF sentOut
<1>1. UNCHANGED <<patient, lib, encoder, frame_valid, port, captures, ready>>
  BY DEF LuaCameraRead, LuaCameraReadRaw
<1>2. /\ pc \in Calls /\ out \in Seq(FileBytes) /\ ended \in BOOLEAN
      /\ header_bytes_sent_out \in 0 .. HeaderBytes /\ footer_bytes_sent_out \in 0 .. 2
      /\ data_bytes_remaining \in 0 .. BufferBytes - 1 /\ want \in 0 .. MaxRead
      /\ resolution \in Nat
  BY ConstantsAre DEF Types, FileBytes, Mixed
<1>3. CASE ReadData(n)
  <2>1. /\ data_bytes_remaining \in Nat /\ n \in Nat /\ n <= MaxRead
        /\ data_bytes_remaining <= BufferBytes - 1
    BY <1>2, ConstantsAre, BufferBytesIs
  <2>2. want' \in Nat /\ want' <= n /\ want' <= data_bytes_remaining
    BY <1>3, <2>1, LesserIs DEF ReadData
  <2>3. want' \in 0 .. MaxRead
    BY ONLY <2>1, <2>2, ConstantsAre
  <2>4. data_bytes_remaining' = data_bytes_remaining - want'
    BY <1>3 DEF ReadData
  <2>5. data_bytes_remaining' \in 0 .. BufferBytes - 1
    BY ONLY <2>1, <2>2, <2>4, BufferBytesIs, LessOf
  <2>6. pc' \in Calls
    BY <1>3 DEF ReadData, Calls
  <2> QED
    BY <1>1, <1>2, <1>3, <2>3, <2>5, <2>6, TypesKept DEF ReadData
<1>4. CASE ReadFooter(n)
  <2> DEFINE length == Lesser(n, 2 - footer_bytes_sent_out)
             part   == [i \in 1 .. length |-> FooterByte(footer_bytes_sent_out + i)]
  <2>1. n \in Nat /\ footer_bytes_sent_out \in Nat /\ footer_bytes_sent_out < 2 /\ 2 - footer_bytes_sent_out \in Nat
    BY <1>2, <1>4 DEF ReadFooter
  <2>2. length \in Nat /\ length <= 2 - footer_bytes_sent_out
    BY <2>1, LesserIs
  <2>3. out' = out \o part /\ footer_bytes_sent_out' = footer_bytes_sent_out + length
    BY <1>4 DEF ReadFooter
  <2> HIDE DEF length
  <2>4. ASSUME NEW i \in 1 .. length PROVE part[i] \in FileBytes
    BY <2>1, <2>2 DEF FooterByte, FileBytes
  <2>5. part = [i \in 1 .. length |-> part[i]]
    OBVIOUS
  <2> HIDE DEF part
  <2>6. out' \in Seq(FileBytes)
    BY ONLY <1>2, <2>2, <2>3, <2>4, <2>5, Joined
  <2>7. footer_bytes_sent_out' \in 0 .. 2
    BY ONLY <2>1, <2>2, <2>3
  <2> QED
    BY <1>1, <1>2, <1>4, <2>6, <2>7, TypesKept DEF ReadFooter
<1>5. CASE ReadNil
  BY <1>1, <1>2, <1>5, TypesKept DEF ReadNil
<1>6. CASE header_bytes_sent_out < HeaderBytes /\ ReadHeader(n)
  <2> DEFINE length == Lesser(n, HeaderBytes - header_bytes_sent_out)
             part   == [i \in 1 .. length |-> HeaderByte(resolution, header_bytes_sent_out + i)]
  <2>1. /\ n \in Nat /\ header_bytes_sent_out \in Nat /\ HeaderBytes \in Nat
        /\ HeaderBytes - header_bytes_sent_out \in Nat
    BY <1>2, <1>6, ConstantsAre
  <2>2. length \in Nat /\ length <= HeaderBytes - header_bytes_sent_out
    BY <2>1, LesserIs
  <2>3. out' = out \o part /\ header_bytes_sent_out' = header_bytes_sent_out + length
    BY <1>6 DEF ReadHeader
  <2> HIDE DEF length
  <2>4. ASSUME NEW i \in 1 .. length PROVE part[i] \in FileBytes
    BY <1>2, <2>1, <2>2 DEF HeaderByte, FileBytes
  <2>5. part = [i \in 1 .. length |-> part[i]]
    OBVIOUS
  <2> HIDE DEF part
  <2>6. out' \in Seq(FileBytes)
    BY ONLY <1>2, <2>2, <2>3, <2>4, <2>5, Joined
  <2>7. header_bytes_sent_out' \in 0 .. HeaderBytes
    BY ONLY <2>1, <2>2, <2>3
  <2> QED
    BY <1>1, <1>2, <1>6, <2>6, <2>7, TypesKept DEF ReadHeader
<1> QED
  BY <1>3, <1>4, <1>5, <1>6 DEF LuaCameraRead, LuaCameraReadRaw

LEMMA TypesNext ==
  ASSUME Types, size \in Nat, pc = "data" <=> want > 0, [Next]_vars
  PROVE  Types'
<1> USE DEF lib, sentOut, encoder, port, history
<1>1. CASE Fpga
  BY <1>1, TypesFpga
<1>2. CASE Transaction
  BY <1>2, TypesTransaction
<1>3. CASE \E r \in Resolutions : LuaCameraCapture(r)
  BY <1>3, TypesCapture
<1>4. CASE LuaCameraImageReady
  BY <1>4 DEF LuaCameraImageReady, Types, Calls
<1>5. CASE \E n \in 1 .. MaxRead : LuaCameraRead(n) \/ LuaCameraReadRaw(n)
  BY <1>5, TypesReads
<1>6. CASE LuaCameraPowerSave
  <2>1. picture' \in [no : Nat, res : Resolutions \cup {Mixed}]
    <3>1. picture \in [no : Nat, res : Resolutions \cup {Mixed}]
      BY DEF Types
    <3> QED
      BY <1>6, <3>1 DEF LuaCameraPowerSave
  <2>2. asleep' \in BOOLEAN
    BY <1>6 DEF LuaCameraPowerSave, Types
  <2> QED
    BY <1>6, <2>1, <2>2 DEF LuaCameraPowerSave, Types
<1>7. CASE UNCHANGED vars
  BY <1>7 DEF vars, Types
<1> QED
  BY <1>1, <1>2, <1>3, <1>4, <1>5, <1>6, <1>7 DEF Next

(* Words are written one after the other.                                  *)
LEMMA WrittenStays ==
  ASSUME WordsAreWritten, UNCHANGED <<size, mem>>, picture'.no = picture.no,
         state' = state \/ state' \notin {"COMPRESS", "IMAGE_VALID"}
  PROVE  WordsAreWritten'
BY DEF WordsAreWritten, Written

LEMMA WrittenNext ==
  ASSUME Types, WordsAreWritten, [Next]_vars
  PROVE  WordsAreWritten'
<1> USE DEF lib, sentOut, encoder, port, history
<1>0. picture \in [no : Nat, res : Resolutions \cup {Mixed}]
  BY DEF Types
<1>1. CASE FrameStart
  <2>1. 0 \in 0 .. MaxWords /\ 0 < MaxWords
    BY ConstantsAre
  <2>2. 0 * Word = 0
    BY ConstantsAre
  <2>3. size' = 0 /\ state' = "COMPRESS"
    BY <1>1 DEF FrameStart
  <2>4. Written(0)'
    BY ONLY <2>1, <2>2, <2>3, ConstantsAre DEF Written
  <2> QED
    BY <2>1, <2>4 DEF WordsAreWritten
<1>2. CASE Encode
  <2>1. /\ state = "COMPRESS" /\ size' = size + Word
        /\ mem' = [mem EXCEPT ![Address(size) \div Word] = <<picture.no, size \div Word>>]
        /\ picture' = IF picture.res = resolution_out THEN picture ELSE [picture EXCEPT !.res = Mixed]
        /\ (size' < MaxWords * Word /\ state' = "COMPRESS") \/ state' = "IMAGE_VALID"
    BY <1>2 DEF Encode, WriteWord
  <2>2. PICK k \in 0 .. MaxWords : Written(k)
    BY DEF WordsAreWritten
  <2>3. /\ size = k * Word /\ k < MaxWords /\ k \in Nat /\ k + 1 \in Nat
        /\ k <= BufferWords => \A w \in 0 .. BufferWords - 1 : w < k => mem[w] = <<picture.no, w>>
    BY <2>1, <2>2 DEF Written
  <2>4. size' = (k + 1) * Word /\ k + 1 \in 0 .. MaxWords
    BY ONLY <2>1, <2>3, NextMultiple, ConstantsAre
  <2>5. state' = "COMPRESS" => k + 1 < MaxWords
    <3>1. CASE k + 1 = MaxWords
      <4>1. ~(size' < MaxWords * Word)
        <5>1. MaxWords * Word \in Nat
          BY ConstantsAre, QuotientIs
        <5> QED
          BY ONLY <2>4, <3>1, <5>1
      <4> QED
        BY <2>1, <4>1
    <3>2. CASE k + 1 # MaxWords
      BY <2>3, <3>2, ConstantsAre
    <3> QED
      BY <3>1, <3>2
  <2>6. picture'.no = picture.no
    BY <1>0, <2>1
  <2>7. ASSUME k + 1 <= BufferWords, NEW w \in 0 .. BufferWords - 1, w < k + 1
        PROVE  mem'[w] = <<picture'.no, w>>
    <3>1. k < BufferWords /\ k <= BufferWords /\ k \in 0 .. BufferWords - 1
      BY ONLY <2>3, <2>7, ConstantsAre
    <3>2. size \in Nat /\ size < BufferBytes /\ size \div Word = k
      BY ONLY <2>3, <3>1, ConstantsAre, NextMultiple, QuotientIs DEF BufferBytes
    <3>3. Address(size) = size
      BY <3>2, AddressIs
    <3>4. mem' = [mem EXCEPT ![k] = <<picture.no, k>>] /\ mem \in [0 .. BufferWords - 1 -> Nat \X Nat]
      BY <2>1, <3>2, <3>3 DEF Types
    <3>5. w = k \/ w < k
      BY ONLY <2>3, w < k + 1, w \in 0 .. BufferWords - 1, ConstantsAre
    <3>6. CASE w = k
      BY <2>6, <3>1, <3>4, <3>6
    <3>7. CASE w # k
      BY <2>3, <2>6, <3>1, <3>4, <3>5, <3>7
    <3> QED
      BY <3>6, <3>7
  <2>8. Written(k + 1)'
    BY ONLY <2>4, <2>5, <2>7 DEF Written
  <2> QED
    BY <2>4, <2>8 DEF WordsAreWritten
<1>3. CASE FrameEdge \/ LeaveReset
  BY <1>3, WrittenStays DEF FrameEdge, LeaveReset
<1>4. CASE Transaction
  BY <1>4, WrittenStays DEF Transaction, StartCapture, ReadSize, ReadDataByte
<1>5. CASE \E r \in Resolutions : LuaCameraCapture(r)
  BY <1>5, WrittenStays DEF LuaCameraCapture
<1>6. CASE LuaCameraImageReady
  BY <1>6, WrittenStays DEF LuaCameraImageReady
<1>7. CASE \E n \in 1 .. MaxRead : LuaCameraRead(n) \/ LuaCameraReadRaw(n)
  BY <1>7, WrittenStays DEF LuaCameraRead, LuaCameraReadRaw
<1>8. CASE LuaCameraPowerSave
  <2>1. picture'.no = picture.no
    BY <1>0, <1>8 DEF LuaCameraPowerSave
  <2> QED
    BY <1>8, <2>1, WrittenStays DEF LuaCameraPowerSave
<1>9. CASE UNCHANGED vars
  BY <1>9, WrittenStays DEF vars
<1> QED
  BY <1>1, <1>2, <1>3, <1>4, <1>5, <1>6, <1>7, <1>8, <1>9 DEF Next, Fpga

LEMMA WantNext ==
  ASSUME Types, pc = "data" <=> want > 0, [Next]_vars
  PROVE  pc' = "data" <=> want' > 0
<1> USE DEF lib, sentOut, encoder, port, history
<1>1. want \in Nat /\ data_bytes_remaining \in Nat
  BY DEF Types
<1>2. CASE ReadDataByte
  <2>1. pc = "data" /\ want' = want - 1 /\ pc' = IF want' = 0 THEN "idle" ELSE "data"
    BY <1>2 DEF ReadDataByte
  <2> QED
    BY <1>1, <2>1
<1>3. CASE \E n \in 1 .. MaxRead : LuaCameraRead(n) \/ LuaCameraReadRaw(n)
  <2>1. PICK n \in 1 .. MaxRead : LuaCameraRead(n) \/ LuaCameraReadRaw(n)
    BY <1>3
  <2>2. CASE ReadData(n)
    <3>1. n \in Nat /\ n > 0 /\ data_bytes_remaining > 0
      BY <2>2 DEF ReadData
    <3>2. want' > 0 /\ pc' = "data"
      BY <1>1, <2>2, <3>1, LesserIs DEF ReadData
    <3> QED
      BY <3>2
  <2>3. CASE ReadFooter(n) \/ ReadNil \/ ReadHeader(n)
    BY <2>3 DEF ReadFooter, ReadNil, ReadHeader
  <2> QED
    BY <2>1, <2>2, <2>3 DEF LuaCameraRead, LuaCameraReadRaw
<1>4. CASE Fpga
  BY <1>4 DEF Fpga, FrameEdge, LeaveReset, FrameStart, Encode
<1>5. CASE StartCapture \/ ReadSize
  BY <1>5 DEF StartCapture, ReadSize
<1>6. CASE \E r \in Resolutions : LuaCameraCapture(r)
  BY <1>6 DEF LuaCameraCapture
<1>7. CASE LuaCameraImageReady
  BY <1>7 DEF LuaCameraImageReady
<1>8. CASE LuaCameraPowerSave
  BY <1>8 DEF LuaCameraPowerSave
<1>9. CASE UNCHANGED vars
  BY <1>9 DEF vars
<1> QED
  BY <1>2, <1>3, <1>4, <1>5, <1>6, <1>7, <1>8, <1>9 DEF Next, Transaction

LEMMA SizeIs ==
  ASSUME WordsAreWritten
  PROVE  size \in Nat /\ size \in 0 .. MaxWords * Word
<1>1. PICK k \in 0 .. MaxWords : size = k * Word
  BY DEF WordsAreWritten, Written
<1>2. k * Word \in Nat /\ MaxWords * Word \in Nat
  BY ConstantsAre, QuotientIs
<1>3. k * Word <= MaxWords * Word
  <2>1. k = MaxWords \/ k < MaxWords
    BY ConstantsAre
  <2> QED
    BY ONLY <1>2, <2>1, k \in 0 .. MaxWords, NextMultiple, ConstantsAre
<1> QED
  BY ONLY <1>1, <1>2, <1>3

LEMMA TypesInvInit == Init => TypesInv
<1> SUFFICES ASSUME Init PROVE TypesInv
  OBVIOUS
<1>1. 0 \in 0 .. MaxWords /\ 0 * Word = 0
  BY ConstantsAre
<1>2. Written(0)
  BY <1>1 DEF Init, Written
<1>3. WordsAreWritten
  BY <1>1, <1>2 DEF WordsAreWritten
<1> QED
  BY <1>3, TypesInit DEF Init, TypesInv

LEMMA TypesInvNext ==
  ASSUME TypesInv, [Next]_vars
  PROVE  TypesInv'
BY SizeIs, TypesNext, WrittenNext, WantNext DEF TypesInv

(* Counters, addresses and the encoder's size keep their widths, also when *)
(* a picture is larger than the buffer and addresses wrap.                 *)
THEOREM TypeCorrect == Spec => []TypeOK
<1>1. TypesInv => TypeOK
  BY SizeIs DEF TypesInv, Types, TypeOK
<1> QED
  BY <1>1, TypesInvInit, TypesInvNext, PTL DEF Spec

-----------------------------------------------------------------------------
(* Calls, scripts that wait, and the state machine of the encoder.         *)
LEMMA InStepNext ==
  ASSUME TypesInv, InStep, [Next]_vars
  PROVE  InStep'
<1> USE DEF lib, sentOut, encoder, port, history
<1>0. /\ patient \in BOOLEAN /\ ready \in BOOLEAN /\ asleep \in BOOLEAN
      /\ picture \in [no : Nat, res : Resolutions \cup {Mixed}]
  BY DEF TypesInv, Types
<1>1. CASE FrameEdge
  BY <1>1 DEF FrameEdge, InStep
<1>2. CASE LeaveReset
  BY <1>2 DEF LeaveReset, InStep
<1>3. CASE FrameStart
  BY <1>3 DEF FrameStart, InStep
<1>4. CASE Encode
  <2>1. /\ state = "COMPRESS" /\ ~asleep /\ state' \in {"COMPRESS", "IMAGE_VALID"}
        /\ picture' = IF picture.res = resolution_out THEN picture ELSE [picture EXCEPT !.res = Mixed]
        /\ UNCHANGED <<patient, pc, lib, resolution_out, history>>
    BY <1>4 DEF Encode, WriteWord
  <2> QED
    BY <2>1 DEF InStep
<1>5. CASE StartCapture
  BY <1>5 DEF StartCapture, InStep
<1>6. CASE ReadSize
  BY <1>6 DEF ReadSize, InStep
<1>7. CASE ReadDataByte
  <2>1. /\ pc = "data" /\ pc' \in {"idle", "data"}
        /\ UNCHANGED <<patient, lib, encoder, resolution_out, captures, ready>>
    BY <1>7 DEF ReadDataByte
  <2> QED
    BY <2>1 DEF InStep
<1>8. CASE \E r \in Resolutions : LuaCameraCapture(r)
  BY <1>8 DEF LuaCameraCapture, NothingUnderWay, InStep
<1>9. CASE LuaCameraImageReady
  BY <1>9 DEF LuaCameraImageReady, InStep
<1>10. CASE \E n \in 1 .. MaxRead : LuaCameraRead(n) \/ LuaCameraReadRaw(n)
  <2>1. /\ pc = "idle" /\ pc' \in {"idle", "data"} /\ (patient => ready)
        /\ UNCHANGED <<patient, lib, encoder, port, captures, ready>>
    BY <1>10 DEF LuaCameraRead, LuaCameraReadRaw, MayRead, ReadHeader, ReadData, ReadFooter, ReadNil
  <2> QED
    BY <2>1 DEF InStep
<1>11. CASE LuaCameraPowerSave
  <2>1. /\ pc = "idle" /\ (patient => asleep \/ NothingUnderWay) /\ asleep' = ~asleep
        /\ picture' = IF state = "COMPRESS" THEN [picture EXCEPT !.res = Mixed] ELSE picture
        /\ UNCHANGED <<patient, pc, resolution, state, port, history>>
    BY <1>11 DEF LuaCameraPowerSave
  <2> QED
    BY <1>0, <2>1 DEF NothingUnderWay, InStep
<1>12. CASE UNCHANGED vars
  BY <1>12 DEF vars, InStep
<1> QED
  BY <1>1, <1>2, <1>3, <1>4, <1>5, <1>6, <1>7, <1>8, <1>9, <1>10, <1>11, <1>12
     DEF Next, Fpga, Transaction

LEMMA NothingReadNext ==
  ASSUME TypesInv, InStep, NothingRead, ReadSoFar, [Next]_vars
  PROVE  NothingRead'
<1> USE DEF lib, sentOut, encoder, port, history
<1>0. patient \in BOOLEAN /\ ready \in BOOLEAN /\ ended \in BOOLEAN
  BY DEF TypesInv, Types
<1>1. CASE FrameEdge \/ LeaveReset \/ LuaCameraPowerSave
  BY <1>1 DEF FrameEdge, LeaveReset, LuaCameraPowerSave, NothingRead, Untouched, Fits
<1>2. CASE FrameStart \/ Encode
  <2>1. /\ state # "IMAGE_VALID"
        /\ UNCHANGED <<patient, pc, sentOut, image_address_out, history>>
    BY <1>2 DEF FrameStart, Encode
  <2>2. pc # "size"
    BY <2>1 DEF InStep
  <2> QED
    BY <2>1, <2>2 DEF NothingRead, Untouched
<1>3. CASE StartCapture
  <2>1. ~ready
    BY <1>3 DEF StartCapture, InStep
  <2> QED
    BY <1>3, <2>1 DEF StartCapture, NothingRead, Untouched
<1>4. CASE ReadSize
  BY <1>4 DEF ReadSize, NothingRead
<1>5. CASE ReadDataByte
  <2>1. pc = "data" /\ pc' \in {"idle", "data"} /\ UNCHANGED <<patient, ready>>
    BY <1>5 DEF ReadDataByte
  <2> QED
    BY <2>1 DEF NothingRead, InStep
<1>6. CASE \E r \in Resolutions : LuaCameraCapture(r)
  BY <1>6 DEF LuaCameraCapture, NothingRead, Untouched
<1>7. CASE LuaCameraImageReady
  <2>1. /\ pc = "idle" /\ (patient => out = <<>> /\ ~ended)
        /\ UNCHANGED <<patient, sentOut, size, image_address_out, history>>
    BY <1>7 DEF LuaCameraImageReady
  <2>2. CASE ready /\ patient /\ Fits
    <3>1. /\ Len(out) = header_bytes_sent_out + image_address_out + footer_bytes_sent_out
          /\ out = <<>> /\ ~ended
      BY <2>1, <2>2 DEF ReadSoFar, Counts
    <3>2. header_bytes_sent_out \in Nat /\ image_address_out \in Nat /\ footer_bytes_sent_out \in Nat
      BY DEF TypesInv, Types
    <3>3. Len(out) = 0
      BY <3>1
    <3>4. header_bytes_sent_out = 0 /\ image_address_out = 0 /\ footer_bytes_sent_out = 0
      BY ONLY <3>1, <3>2, <3>3
    <3> QED
      BY <2>1, <3>1, <3>4 DEF NothingRead, Untouched
  <2>3. CASE ~ready
    BY <2>1, <2>3 DEF NothingRead, Untouched
  <2>4. CASE ready /\ ~(patient /\ Fits)
    BY <2>1, <2>4 DEF NothingRead, Fits
  <2> QED
    BY <2>2, <2>3, <2>4
<1>8. CASE \E n \in 1 .. MaxRead : LuaCameraRead(n) \/ LuaCameraReadRaw(n)
  <2>1. /\ pc = "idle" /\ pc' \in {"idle", "data"} /\ (patient => ready)
        /\ UNCHANGED <<patient, ready>>
    BY <1>8 DEF LuaCameraRead, LuaCameraReadRaw, MayRead, ReadHeader, ReadData, ReadFooter, ReadNil
  <2> QED
    BY <2>1 DEF NothingRead
<1>9. CASE UNCHANGED vars
  BY <1>9 DEF vars, NothingRead, Untouched, Fits
<1> QED
  BY <1>1, <1>2, <1>3, <1>4, <1>5, <1>6, <1>7, <1>8, <1>9 DEF Next, Fpga, Transaction

-----------------------------------------------------------------------------
(* Reading goes on: what the counters say and the bytes that were read.    *)
LEMMA JoinedAt ==
  ASSUME NEW S, NEW s \in Seq(S), NEW n \in Nat, NEW f,
         \A i \in 1 .. n : f[i] \in S, f = [i \in 1 .. n |-> f[i]]
  PROVE  /\ Len(s \o f) = Len(s) + n
         /\ \A i \in 1 .. Len(s) : (s \o f)[i] = s[i]
         /\ \A i \in 1 .. n : (s \o f)[Len(s) + i] = f[i]
OBVIOUS

LEMMA ReadingStays ==
  ASSUME ReadSoFar, UNCHANGED <<patient, resolution, sentOut, size, mem, image_address_out, latched, history>>
  PROVE  ReadSoFar'
BY DEF ReadSoFar, Fits, Counts, Bytes, WordAt, sentOut, history

LEMMA ReadSizeReads ==
  ASSUME TypesInv, NothingRead, ReadSize
  PROVE  ReadSoFar'
<1> USE DEF lib, sentOut, encoder
<1> SUFFICES ASSUME patient', Fits' PROVE Counts' /\ Bytes'
  BY DEF ReadSoFar
<1>1. /\ pc = "size" /\ pc' = "idle" /\ data_bytes_remaining' = Address(size)
      /\ latched' = WordAt(image_address_out)
      /\ UNCHANGED <<patient, lib, header_bytes_sent_out, footer_bytes_sent_out, want,
                     encoder, image_address_out, captures, out, ended>>
  BY DEF ReadSize
<1>2. patient /\ Fits
  BY <1>1 DEF Fits
<1>3. /\ out = <<>> /\ ~ended /\ header_bytes_sent_out = 0 /\ footer_bytes_sent_out = 0
      /\ image_address_out = 0
  BY <1>1, <1>2 DEF NothingRead, Untouched
<1>4. want = 0
  BY <1>1 DEF TypesInv, Types
<1>5. size \in Nat /\ Word \in Nat /\ BufferBytes \in Nat
  BY SizeIs, ConstantsAre, BufferBytesIs DEF TypesInv
<1>6. size < BufferBytes
  BY ONLY <1>2, <1>5 DEF Fits
<1>7. data_bytes_remaining' = size
  BY <1>1, <1>5, <1>6, AddressIs
<1>8. Len(out) = 0
  BY <1>3
<1>9. Counts'
  <2>1. latched' = WordAt(image_address_out)'
    BY <1>1 DEF WordAt
  <2>2. size + 0 + 0 = size /\ 0 + 0 + 0 = 0
    BY <1>5
  <2> QED
    BY ONLY <1>1, <1>3, <1>4, <1>7, <1>8, <2>1, <2>2, <1>5 DEF Counts
<1>10. Bytes'
  <2>1. header_bytes_sent_out' = 0 /\ image_address_out' = 0 /\ footer_bytes_sent_out' = 0
    BY <1>1, <1>3
  <2>2. \A i \in 1 .. 0 : FALSE
    OBVIOUS
  <2> QED
    BY ONLY <2>1, <2>2, Zenon DEF Bytes
<1> QED
  BY <1>9, <1>10

LEMMA ReadDataByteReads ==
  ASSUME TypesInv, InStep, ReadSoFar, ReadDataByte
  PROVE  ReadSoFar'
<1> USE DEF lib, encoder
<1> SUFFICES ASSUME patient', ready', Fits' PROVE Counts' /\ Bytes'
  BY DEF ReadSoFar
<1> DEFINE a == image_address_out
           h == header_bytes_sent_out
           f == footer_bytes_sent_out
           d == data_bytes_remaining
<1>1. /\ pc = "data"
      /\ out' = Append(out, DataByte(latched[1], (latched[2] * Word) + (a % Word)))
      /\ a' = IF a < Address(size + Word) THEN Address(a + 1) ELSE a
      /\ latched' = WordAt(a')
      /\ want' = want - 1
      /\ UNCHANGED <<patient, lib, header_bytes_sent_out, data_bytes_remaining,
                     footer_bytes_sent_out, encoder, captures, ready, ended>>
  BY DEF ReadDataByte
<1>2. patient /\ ready /\ Fits
  BY <1>1 DEF Fits
<1>3. Counts /\ Bytes
  BY <1>2 DEF ReadSoFar
<1>4. /\ a \in Nat /\ h \in Nat /\ f \in Nat /\ d \in Nat /\ want \in Nat /\ want > 0
      /\ HeaderBytes \in Nat \ {0}
  BY <1>1, ConstantsAre DEF TypesInv, Types
<1>5. size \in Nat /\ Word \in Nat \ {0} /\ BufferBytes \in Nat /\ size + Word < BufferBytes
  BY <1>2, SizeIs, ConstantsAre, BufferBytesIs DEF TypesInv, Fits
<1>6. /\ d + want + a = size /\ Len(out) = h + a + f /\ latched = WordAt(a)
      /\ f = 0 /\ h \in {0, HeaderBytes}
  <2>1. /\ d + want + a = size /\ Len(out) = h + a + f /\ latched = WordAt(a)
        /\ f > 0 => want = 0
        /\ h \in {0, HeaderBytes} \/ want = 0
    BY <1>3 DEF Counts
  <2> QED
    BY ONLY <1>4, <2>1
<1>7. a < size /\ a + 1 <= size /\ a + 1 < BufferBytes
  BY ONLY <1>4, <1>5, <1>6
<1>8. a' = a + 1
  <2>1. Address(size + Word) = size + Word
    BY ONLY <1>5, AddressIs
  <2>2. a < size + Word
    BY ONLY <1>4, <1>5, <1>7
  <2>3. Address(a + 1) = a + 1
    BY ONLY <1>4, <1>7, AddressIs
  <2> QED
    BY ONLY <1>1, <2>1, <2>2, <2>3
<1>9. latched = <<captures, a \div Word>>
  <2>1. PICK k \in 0 .. MaxWords : Written(k)
    BY DEF TypesInv, WordsAreWritten
  <2>2. state = "IMAGE_VALID" /\ picture.no = captures
    BY <1>1, <1>2 DEF InStep
  <2>3. k \in Nat /\ size = k * Word
    BY <2>1 DEF Written
  <2>4. k <= BufferWords
    <3>1. CASE k <= BufferWords
      BY <3>1
    <3>2. CASE BufferWords < k
      <4>1. BufferBytes < size
        BY ONLY <2>3, <3>2, ConstantsAre, NextMultiple DEF BufferBytes
      <4> QED
        BY ONLY <1>5, <4>1
    <3> QED
      BY ONLY <3>1, <3>2, <2>3, ConstantsAre
  <2>5. a \div Word < k /\ a \div Word \in Nat
    BY ONLY <1>4, <1>5, <1>7, <2>3, QuotientIsLess, Modulo
  <2>6. a \div Word \in 0 .. BufferWords - 1
    BY ONLY <2>3, <2>4, <2>5, ConstantsAre
  <2>7. mem[a \div Word] = <<picture.no, a \div Word>>
    BY <2>1, <2>2, <2>4, <2>5, <2>6 DEF Written
  <2> QED
    BY <1>6, <2>2, <2>7 DEF WordAt
<1>10. (latched[2] * Word) + (a % Word) = a /\ latched[1] = captures
  BY ONLY <1>4, <1>5, <1>9, Modulo
<1>11. out' = Append(out, DataByte(captures, a))
  BY ONLY <1>1, <1>10
<1>12. out \in Seq(FileBytes)
  BY DEF TypesInv, Types, FileBytes
<1>13. PICK n \in Nat : n = h + a
  BY <1>4
<1>14. Len(out) = n
  BY ONLY <1>4, <1>6, <1>13
<1>15. /\ Len(out') = n + 1 /\ out'[n + 1] = DataByte(captures, a)
       /\ \A i \in 1 .. n : out'[i] = out[i]
  BY ONLY <1>11, <1>12, <1>14
<1> HIDE DEF a, h, f, d
<1>16. h' = h /\ f' = f /\ d' = d /\ f' = 0 /\ want' = want - 1
  BY <1>1, <1>6 DEF h, f, d
<1>17. Counts'
  <2>1. (d' + want') + a' = size'
    BY ONLY <1>1, <1>4, <1>6, <1>8, <1>16
  <2>2. Len(out') = (h' + a') + f'
    BY ONLY <1>4, <1>8, <1>13, <1>15, <1>16
  <2>3. latched' = WordAt(a)'
    BY <1>1 DEF WordAt
  <2>4. ended' => f' = 2
    <3>1. ended => f = 2
      BY <1>3 DEF Counts, f
    <3> QED
      BY <1>1, <3>1, <1>16
  <2>5. ~(f' > 0) /\ ~ended'
    BY ONLY <1>16, <2>4
  <2>6. h' \in {0, HeaderBytes}
    BY <1>6, <1>16
  <2> QED
    BY ONLY <2>1, <2>2, <2>3, <2>5, <2>6, Zenon DEF Counts, a, h, f, d
<1>18. Bytes'
  <2>1. \A i \in 1 .. h' : out'[i] = HeaderByte(resolution', i)
    <3>1. \A i \in 1 .. h : out[i] = HeaderByte(resolution, i)
      BY <1>3 DEF Bytes, h
    <3>2. \A i \in 1 .. h : i \in 1 .. n
      BY ONLY <1>4, <1>13
    <3>3. resolution' = resolution /\ h' = h
      BY <1>1, <1>16
    <3> QED
      BY ONLY <1>15, <3>1, <3>2, <3>3, Zenon DEF HeaderByte
  <2>2. ASSUME NEW i \in 1 .. a' PROVE out'[h' + i] = DataByte(captures', i - 1)
    <3>1. captures' = captures /\ h' = h /\ a' = a + 1
      BY <1>1, <1>8, <1>16
    <3>2. CASE i \in 1 .. a
      <4>1. out[h + i] = DataByte(captures, i - 1)
        BY <1>3, <3>2 DEF Bytes, h, a
      <4>2. h + i \in 1 .. n
        BY ONLY <1>4, <1>13, <3>2
      <4> QED
        BY ONLY <1>15, <3>1, <4>1, <4>2, Zenon DEF DataByte
    <3>3. CASE i = a + 1
      <4>1. h + i = n + 1 /\ i - 1 = a
        BY ONLY <1>4, <1>13, <3>3
      <4> QED
        BY ONLY <1>15, <3>1, <4>1 DEF DataByte
    <3>4. i \in 1 .. a \/ i = a + 1
      BY ONLY <1>4, <1>8, i \in 1 .. a'
    <3> QED
      BY <3>2, <3>3, <3>4
  <2>3. \A i \in 1 .. f' : FALSE
    BY ONLY <1>16
  <2> QED
    BY ONLY <2>1, <2>2, <2>3, Zenon DEF Bytes, a, h, f
<1> QED
  BY <1>17, <1>18

LEMMA Back ==
  ASSUME NEW d \in Nat, NEW w \in Nat
  PROVE  (d - w) + w = d
OBVIOUS

LEMMA ReadsRead ==
  ASSUME TypesInv, ReadSoFar, NEW n \in 1 .. MaxRead, LuaCameraRead(n) \/ LuaCameraReadRaw(n)
  PROVE  ReadSoFar'
<1> USE DEF lib, sentOut, encoder, port
<1> SUFFICES ASSUME patient', ready', Fits' PROVE Counts' /\ Bytes'
  BY DEF ReadSoFar
<1> DEFINE a == image_address_out
           h == header_bytes_sent_out
           f == footer_bytes_sent_out
           d == data_bytes_remaining
<1>1. /\ pc = "idle"
      /\ UNCHANGED <<patient, resolution, size, mem, image_address_out, latched, captures, ready>>
  BY DEF LuaCameraRead, LuaCameraReadRaw, MayRead
<1>2. patient /\ ready /\ Fits
  BY <1>1 DEF Fits
<1>3. Counts /\ Bytes
  BY <1>2 DEF ReadSoFar
<1>4. /\ a \in Nat /\ h \in Nat /\ f \in 0 .. 2 /\ d \in Nat /\ want = 0
      /\ HeaderBytes \in Nat \ {0} /\ h <= HeaderBytes /\ n \in Nat \ {0} /\ size \in Nat
      /\ resolution \in Nat
  BY <1>1, ConstantsAre, SizeIs, SMTT(30) DEF TypesInv, Types, Mixed
<1>5. out \in Seq(FileBytes)
  BY DEF TypesInv, Types, FileBytes
<1>6. /\ d + a = size /\ Len(out) = h + a + f /\ latched = WordAt(a)
      /\ h \in {0, HeaderBytes} \/ (a = 0 /\ f = 0)
      /\ f > 0 => d = 0
      /\ ended => f = 2 /\ h \in {0, HeaderBytes}
  <2>1. /\ d + want + a = size /\ Len(out) = h + a + f /\ latched = WordAt(a)
        /\ h \in {0, HeaderBytes} \/ (a = 0 /\ f = 0)
        /\ f > 0 => d = 0
        /\ ended => f = 2 /\ h \in {0, HeaderBytes}
    BY <1>3 DEF Counts
  <2> QED
    BY ONLY <1>4, <2>1
<1>7. /\ \A i \in 1 .. h : out[i] = HeaderByte(resolution, i)
      /\ \A i \in 1 .. a : out[h + i] = DataByte(captures, i - 1)
      /\ \A i \in 1 .. f : out[h + a + i] = FooterByte(i)
  BY <1>3 DEF Bytes
<1>8. latched' = WordAt(a)'
  BY <1>1, <1>6 DEF WordAt
<1> HIDE DEF a, h, f, d
<1>9. a' = a
  BY <1>1 DEF a
<1>10. ASSUME d' + want' + a' = size, Len(out') = h' + a' + f',
              h' \in {0, HeaderBytes} \/ (a' = 0 /\ want' = 0 /\ f' = 0),
              f' > 0 => d' = 0 /\ want' = 0,
              ended' => f' = 2 /\ h' \in {0, HeaderBytes}
       PROVE  Counts'
  BY ONLY <1>1, <1>8, <1>10, Zenon DEF Counts, a, h, f, d
<1>11. ASSUME \A i \in 1 .. h' : out'[i] = HeaderByte(resolution, i),
              \A i \in 1 .. a : out'[h' + i] = DataByte(captures, i - 1),
              \A i \in 1 .. f' : out'[h' + a + i] = FooterByte(i)
       PROVE  Bytes'
  <2>1. resolution' = resolution /\ captures' = captures
    BY <1>1
  <2>2. \A i \in 1 .. h' : out'[i] = HeaderByte(resolution', i)
    BY ONLY <1>11, <2>1, Zenon
  <2>3. \A i \in 1 .. a' : out'[h' + i] = DataByte(captures', i - 1)
    BY ONLY <1>9, <1>11, <2>1, Zenon
  <2>4. \A i \in 1 .. f' : out'[h' + a' + i] = FooterByte(i)
    BY ONLY <1>9, <1>11, Zenon
  <2> QED
    BY ONLY <2>2, <2>3, <2>4, Zenon DEF Bytes, a, h, f, HeaderByte, DataByte, FooterByte
<1>12. ASSUME h < HeaderBytes, out = <<>> \/ h > 0, ReadHeader(n) PROVE Counts' /\ Bytes'
  <2> DEFINE length == Lesser(n, HeaderBytes - h)
             part   == [i \in 1 .. length |-> HeaderByte(resolution, h + i)]
  <2>0. HeaderBytes - h \in Nat
    BY ONLY <1>4
  <2>1. length \in Nat /\ length <= HeaderBytes - h
    BY ONLY <1>4, <2>0, LesserIs
  <2>2. out' = out \o part /\ h' = h + length
        /\ d' = d /\ f' = f /\ want' = want /\ ended' = ended
    BY <1>12 DEF ReadHeader, h, d, f
  <2>3. a = 0 /\ f = 0
    <3>1. CASE out = <<>>
      <4>1. Len(out) = 0
        BY <3>1
      <4> QED
        BY ONLY <1>4, <1>6, <4>1
    <3>2. CASE h > 0
      BY ONLY <1>4, <1>6, <1>12, <3>2
    <3> QED
      BY <1>12, <3>1, <3>2
  <2> HIDE DEF length
  <2>4. ASSUME NEW i \in 1 .. length PROVE part[i] \in FileBytes
    BY <1>4, <2>1 DEF HeaderByte, FileBytes
  <2>5. part = [i \in 1 .. length |-> part[i]]
    OBVIOUS
  <2>6. \A i \in 1 .. length : part[i] = HeaderByte(resolution, h + i)
    OBVIOUS
  <2> HIDE DEF part
  <2>7. Len(out) = h
    BY ONLY <1>4, <1>6, <2>3
  <2>8. /\ Len(out') = h + length
        /\ \A i \in 1 .. h : out'[i] = out[i]
        /\ \A i \in 1 .. length : out'[h + i] = part[i]
    BY ONLY <1>5, <2>1, <2>2, <2>4, <2>5, <2>7, JoinedAt
  <2>9. Counts'
    <3>1. ~ended
      BY <1>6, <2>3
    <3>2. d' + want' + a' = size
      BY ONLY <1>4, <1>6, <1>9, <2>2
    <3>3. Len(out') = h' + a' + f'
      BY ONLY <1>4, <1>9, <2>1, <2>2, <2>3, <2>8
    <3>4. a' = 0 /\ want' = 0 /\ f' = 0 /\ ~(f' > 0) /\ ~ended'
      BY ONLY <1>4, <1>9, <2>2, <2>3, <3>1
    <3> QED
      BY ONLY <1>10, <3>2, <3>3, <3>4
  <2>10. Bytes'
    <3>1. ASSUME NEW i \in 1 .. h' PROVE out'[i] = HeaderByte(resolution, i)
      <4>1. CASE i <= h
        BY <1>4, <1>7, <2>8, <4>1
      <4>2. CASE i > h
        <5>1. PICK j \in 1 .. length : i = h + j
          <6>1. i - h \in 1 .. length /\ i = h + (i - h)
            BY ONLY <1>4, <2>1, <2>2, <4>2, i \in 1 .. h'
          <6> QED
            BY ONLY <6>1
        <5> QED
          BY ONLY <2>6, <2>8, <5>1
      <4>3. i <= h \/ i > h
        BY ONLY <1>4, i \in 1 .. h', <2>1, <2>2
      <4> QED
        BY <4>1, <4>2, <4>3
    <3>2. \A i \in 1 .. a : FALSE
      BY ONLY <2>3
    <3>3. \A i \in 1 .. f' : FALSE
      BY ONLY <2>2, <2>3
    <3> QED
      BY ONLY <1>11, <3>1, <3>2, <3>3, Zenon
  <2> QED
    BY <2>9, <2>10
<1>13. ASSUME h \in {0, HeaderBytes}, ReadData(n) PROVE Counts' /\ Bytes'
  <2>1. /\ d > 0 /\ want' = Lesser(n, d) /\ d' = d - want'
        /\ h' = h /\ f' = f /\ out' = out /\ ended' = ended
    BY <1>13 DEF ReadData, d, h, f
  <2>2. f = 0 /\ ~ended
    BY ONLY <1>4, <1>6, <2>1
  <2>3. want' \in Nat
    BY ONLY <1>4, <2>1, LesserIs
  <2>4. Counts'
    <3>1. d' + want' + a' = size
      <4>0. d \in Nat
        BY <1>4
      <4>1. (d - want') + want' = d
        BY ONLY <4>0, <2>3, Back
      <4>2. d + a = size /\ d' = d - want' /\ a' = a
        BY <1>6, <1>9, <2>1
      <4> QED
        BY ONLY <4>1, <4>2
    <3>2. Len(out') = h' + a' + f'
      BY ONLY <1>6, <1>9, <2>1
    <3>3. h' \in {0, HeaderBytes} /\ ~(f' > 0) /\ ~ended'
      BY ONLY <1>13, <2>1, <2>2
    <3> QED
      BY ONLY <1>10, <3>1, <3>2, <3>3
  <2>5. Bytes'
    BY ONLY <1>7, <1>11, <2>1, Zenon
  <2> QED
    BY <2>4, <2>5
<1>14. ASSUME h \in {0, HeaderBytes}, ReadFooter(n) PROVE Counts' /\ Bytes'
  <2> DEFINE length == Lesser(n, 2 - f)
             part   == [i \in 1 .. length |-> FooterByte(f + i)]
  <2>1. d = 0 /\ f < 2
    BY <1>14 DEF ReadFooter, d, f
  <2>2. length \in Nat /\ length <= 2 - f /\ length > 0
    BY <1>4, <2>1, LesserIs
  <2>3. out' = out \o part /\ f' = f + length
        /\ d' = d /\ h' = h /\ want' = want /\ ended' = ended
    BY <1>14 DEF ReadFooter, h, d, f
  <2> HIDE DEF length
  <2>4. ASSUME NEW i \in 1 .. length PROVE part[i] \in FileBytes
    BY <1>4, <2>2 DEF FooterByte, FileBytes
  <2>5. part = [i \in 1 .. length |-> part[i]]
    OBVIOUS
  <2>6. \A i \in 1 .. length : part[i] = FooterByte(f + i)
    OBVIOUS
  <2> HIDE DEF part
  <2>7. PICK m \in Nat : m = h + a + f
    BY <1>4
  <2>8. /\ Len(out') = m + length
        /\ \A i \in 1 .. m : out'[i] = out[i]
        /\ \A i \in 1 .. length : out'[m + i] = part[i]
    BY ONLY <1>5, <1>6, <2>2, <2>3, <2>4, <2>5, <2>7, JoinedAt
  <2>9. Counts'
    <3>1. d' + want' + a' = size
      BY ONLY <1>4, <1>6, <1>9, <2>3
    <3>2. Len(out') = h' + a' + f'
      BY ONLY <1>4, <1>9, <2>2, <2>3, <2>7, <2>8
    <3>3. d' = 0 /\ want' = 0 /\ h' \in {0, HeaderBytes}
      BY ONLY <1>4, <1>14, <2>1, <2>3
    <3>4. ~ended'
      BY ONLY <1>6, <2>1, <2>3
    <3> QED
      BY ONLY <1>10, <3>1, <3>2, <3>3, <3>4
  <2>10. Bytes'
    <3>1. \A i \in 1 .. h' : out'[i] = HeaderByte(resolution, i)
      <4>1. \A i \in 1 .. h : i \in 1 .. m
        BY ONLY <1>4, <2>7
      <4> QED
        BY ONLY <1>7, <2>3, <2>8, <4>1, Zenon
    <3>2. \A i \in 1 .. a : out'[h' + i] = DataByte(captures, i - 1)
      <4>1. \A i \in 1 .. a : h + i \in 1 .. m
        BY ONLY <1>4, <2>7
      <4> QED
        BY ONLY <1>7, <2>3, <2>8, <4>1, Zenon
    <3>3. ASSUME NEW i \in 1 .. f' PROVE out'[h' + a + i] = FooterByte(i)
      <4>1. CASE i <= f
        <5>1. h + a + i \in 1 .. m /\ i \in 1 .. f
          BY ONLY <1>4, <2>7, <4>1, i \in 1 .. f', <2>2, <2>3
        <5> QED
          BY ONLY <1>7, <2>3, <2>8, <5>1
      <4>2. CASE i > f
        <5>1. PICK j \in 1 .. length : i = f + j
          <6>1. i - f \in 1 .. length /\ i = f + (i - f)
            BY ONLY <1>4, <2>2, <2>3, <4>2, i \in 1 .. f'
          <6> QED
            BY ONLY <6>1
        <5>2. h + a + i = m + j
          BY ONLY <1>4, <2>7, <5>1, j \in 1 .. length, <2>2
        <5> QED
          BY ONLY <2>3, <2>6, <2>8, <5>1, <5>2
      <4>3. i <= f \/ i > f
        BY ONLY <1>4, i \in 1 .. f', <2>2, <2>3
      <4> QED
        BY <4>1, <4>2, <4>3
    <3> QED
      BY ONLY <1>11, <3>1, <3>2, <3>3, Zenon
  <2> QED
    BY <2>9, <2>10
<1>15. ASSUME h \in {0, HeaderBytes}, ReadNil PROVE Counts' /\ Bytes'
  <2>1. /\ d = 0 /\ f = 2 /\ d' = d /\ h' = h /\ f' = f /\ want' = want /\ out' = out
    BY <1>15 DEF ReadNil, d, h, f
  <2>2. d' + want' + a' = size /\ Len(out') = h' + a' + f'
    BY ONLY <1>4, <1>6, <1>9, <2>1
  <2>3. d' = 0 /\ want' = 0 /\ f' = 2 /\ h' \in {0, HeaderBytes}
    BY ONLY <1>4, <1>15, <2>1
  <2>4. Counts'
    BY ONLY <1>10, <2>2, <2>3
  <2>5. Bytes'
    BY ONLY <1>7, <1>11, <2>1, Zenon
  <2> QED
    BY <2>4, <2>5
<1>16. CASE LuaCameraRead(n)
  <2>1. CASE h < HeaderBytes
    BY <1>2, <1>12, <1>16, <2>1 DEF LuaCameraRead, h
  <2>2. CASE ~(h < HeaderBytes)
    <3>1. h \in {0, HeaderBytes}
      BY ONLY <1>4, <2>2
    <3> QED
      BY <1>13, <1>14, <1>15, <1>16, <2>2, <3>1 DEF LuaCameraRead, h
  <2> QED
    BY <2>1, <2>2
<1>17. CASE LuaCameraReadRaw(n)
  <2>1. h \in {0, HeaderBytes} /\ (ReadData(n) \/ ReadFooter(n) \/ ReadNil)
    BY <1>2, <1>17 DEF LuaCameraReadRaw, h
  <2> QED
    BY <1>13, <1>14, <1>15, <2>1
<1> QED
  BY <1>16, <1>17

LEMMA ReadSoFarNext ==
  ASSUME TypesInv, InStep, NothingRead, ReadSoFar, [Next]_vars
  PROVE  ReadSoFar'
<1> USE DEF lib, encoder, port, history
<1>0. ready \in BOOLEAN
  BY DEF TypesInv, Types
<1>1. CASE FrameEdge
  BY <1>1, ReadingStays DEF FrameEdge, sentOut
<1>2. CASE LeaveReset \/ FrameStart \/ Encode
  <2>1. state # "IMAGE_VALID" /\ ready' = ready
    BY <1>2 DEF LeaveReset, FrameStart, Encode
  <2> QED
    BY <2>1 DEF InStep, ReadSoFar
<1>3. CASE StartCapture
  BY <1>3 DEF StartCapture, InStep, ReadSoFar
<1>4. CASE ReadSize
  BY <1>4, ReadSizeReads
<1>5. CASE ReadDataByte
  BY <1>5, ReadDataByteReads
<1>6. CASE \E r \in Resolutions : LuaCameraCapture(r)
  BY <1>6 DEF LuaCameraCapture, ReadSoFar
<1>7. CASE LuaCameraImageReady
  BY <1>7, ReadingStays DEF LuaCameraImageReady, sentOut
<1>8. CASE \E n \in 1 .. MaxRead : LuaCameraRead(n) \/ LuaCameraReadRaw(n)
  BY <1>8, ReadsRead
<1>9. CASE LuaCameraPowerSave
  BY <1>9, ReadingStays DEF LuaCameraPowerSave, sentOut
<1>10. CASE UNCHANGED vars
  BY <1>10, ReadingStays DEF vars, sentOut
<1> QED
  BY <1>1, <1>2, <1>3, <1>4, <1>5, <1>6, <1>7, <1>8, <1>9, <1>10
     DEF Next, Fpga, Transaction

LEMMA Invariance == Spec => []IInv
<1>1. Init => IInv
  BY TypesInvInit DEF Init, IInv, InStep, NothingRead, Untouched, ReadSoFar
<1>2. IInv /\ [Next]_vars => IInv'
  BY TypesInvNext, InStepNext, NothingReadNext, ReadSoFarNext DEF IInv
<1> QED
  BY <1>1, <1>2, PTL DEF Spec

-----------------------------------------------------------------------------
(* The file of a picture, place by place.                                  *)
LEMMA FileIs ==
  ASSUME NEW k \in Nat, k = IF header_bytes_sent_out > 0 THEN HeaderBytes ELSE 0,
         NEW s \in Nat, size = s, captures \in Nat, picture.res \in Nat
  PROVE  /\ Len(File) = k + s + 2
         /\ \A i \in 1 .. k : File[i] = HeaderByte(picture.res, i)
         /\ \A i \in 1 .. s : File[k + i] = DataByte(captures, i - 1)
         /\ \A i \in 1 .. 2 : File[k + s + i] = FooterByte(i)
<1> DEFINE hd == IF header_bytes_sent_out > 0 THEN Header ELSE <<>>
<1>1. /\ hd \in Seq(FileBytes) /\ Len(hd) = k
      /\ \A i \in 1 .. k : hd[i] = HeaderByte(picture.res, i)
  <2>1. CASE header_bytes_sent_out > 0
    <3>1. \A i \in 1 .. k : HeaderByte(picture.res, i) \in FileBytes
      BY DEF HeaderByte, FileBytes
    <3>2. hd = [i \in 1 .. k |-> HeaderByte(picture.res, i)]
      BY <2>1 DEF Header
    <3> HIDE DEF hd
    <3> QED
      BY ONLY <3>1, <3>2, k \in Nat
  <2>2. CASE ~(header_bytes_sent_out > 0)
    <3>1. hd = <<>> /\ k = 0
      BY <2>2
    <3> HIDE DEF hd
    <3> QED
      BY ONLY <3>1
  <2> QED
    BY <2>1, <2>2
<1>2. /\ Data = [i \in 1 .. s |-> Data[i]]
      /\ \A i \in 1 .. s : Data[i] = DataByte(captures, i - 1) /\ Data[i] \in FileBytes
  BY DEF Data, DataByte, FileBytes
<1>3. /\ Footer = [i \in 1 .. 2 |-> Footer[i]]
      /\ \A i \in 1 .. 2 : Footer[i] = FooterByte(i) /\ Footer[i] \in FileBytes
  BY DEF Footer, FooterByte, FileBytes
<1>4. /\ Len(hd \o Data) = k + s /\ hd \o Data \in Seq(FileBytes)
      /\ \A i \in 1 .. k : (hd \o Data)[i] = hd[i]
      /\ \A i \in 1 .. s : (hd \o Data)[k + i] = Data[i]
  <2> HIDE DEF hd
  <2>1. \A i \in 1 .. s : Data[i] \in FileBytes
    BY <1>2
  <2>2. Data = [i \in 1 .. s |-> Data[i]]
    BY <1>2
  <2>3. hd \in Seq(FileBytes) /\ Len(hd) = k
    BY <1>1
  <2>4. hd \o Data \in Seq(FileBytes)
    BY ONLY <2>1, <2>2, <2>3, s \in Nat, Joined
  <2>5. /\ Len(hd \o Data) = Len(hd) + s
        /\ \A i \in 1 .. Len(hd) : (hd \o Data)[i] = hd[i]
        /\ \A i \in 1 .. s : (hd \o Data)[Len(hd) + i] = Data[i]
    BY ONLY <2>1, <2>2, <2>3, s \in Nat, JoinedAt
  <2> QED
    BY ONLY <2>3, <2>4, <2>5, Zenon
<1>5. File = (hd \o Data) \o Footer
  BY DEF File
<1> HIDE DEF hd
<1> DEFINE front == hd \o Data
<1>6. 2 \in Nat /\ front \in Seq(FileBytes) /\ Len(front) = k + s
  BY <1>4
<1> HIDE DEF front
<1>7. PICK m \in Nat : m = k + s
  BY ONLY k \in Nat, s \in Nat
<1>8. /\ Len(front \o Footer) = m + 2
      /\ \A i \in 1 .. m : (front \o Footer)[i] = front[i]
      /\ \A i \in 1 .. 2 : (front \o Footer)[m + i] = Footer[i]
  BY ONLY <1>3, <1>6, <1>7, JoinedAt
<1>9. File = front \o Footer
  BY <1>5 DEF front
<1>10. Len(File) = k + s + 2
  BY ONLY <1>7, <1>8, <1>9
<1>11. ASSUME NEW i \in 1 .. k PROVE File[i] = HeaderByte(picture.res, i)
  <2>1. i \in 1 .. m
    BY ONLY <1>7, k \in Nat, s \in Nat, i \in 1 .. k
  <2>2. front[i] = hd[i]
    BY <1>4 DEF front
  <2> QED
    BY ONLY <1>1, <1>8, <1>9, <2>1, <2>2
<1>12. ASSUME NEW i \in 1 .. s PROVE File[k + i] = DataByte(captures, i - 1)
  <2>1. k + i \in 1 .. m
    BY ONLY <1>7, k \in Nat, s \in Nat, i \in 1 .. s
  <2>2. front[k + i] = Data[i]
    BY <1>4 DEF front
  <2> QED
    BY ONLY <1>2, <1>8, <1>9, <2>1, <2>2
<1>13. \A i \in 1 .. 2 : File[k + s + i] = FooterByte(i)
  BY ONLY <1>3, <1>7, <1>8, <1>9
<1> QED
  BY <1>10, <1>11, <1>12, <1>13

(* What a waiting script has read of a picture that fits into the buffer   *)
(* is the beginning of its file, header, data and footer, and all of it    *)
(* when read() has answered nil.                                           *)
THEOREM FileArrivesWhole == Spec => []FileIsWhole
<1>1. IInv => FileIsWhole
  <2> SUFFICES ASSUME IInv, patient, Fits
               PROVE  IsBeginningOfFile /\ (ended => Len(out) = Len(File))
    BY DEF FileIsWhole, Fits
  <2> DEFINE a == image_address_out
             h == header_bytes_sent_out
             f == footer_bytes_sent_out
             d == data_bytes_remaining
  <2>1. /\ a \in Nat /\ h \in Nat /\ f \in 0 .. 2 /\ d \in Nat /\ want \in Nat
        /\ HeaderBytes \in Nat \ {0} /\ h <= HeaderBytes /\ size \in Nat
        /\ ready \in BOOLEAN
    BY ConstantsAre, SizeIs DEF IInv, TypesInv, Types
  <2>2. out \in Seq(FileBytes)
    BY DEF IInv, TypesInv, Types, FileBytes
  <2>3. PICK k \in Nat : k = IF header_bytes_sent_out > 0 THEN HeaderBytes ELSE 0
    BY <2>1
  <2>4. /\ Len(File) = k + size + 2
        /\ \A i \in 1 .. k : File[i] = HeaderByte(picture.res, i)
        /\ \A i \in 1 .. size : File[k + i] = DataByte(captures, i - 1)
        /\ \A i \in 1 .. 2 : File[k + size + i] = FooterByte(i)
    <3>1. captures \in Nat /\ picture.res \in Nat
      <4>1. captures \in Nat /\ picture \in [no : Nat, res : Resolutions \cup {Mixed}]
        BY DEF IInv, TypesInv, Types
      <4>2. Resolutions \cup {Mixed} \subseteq Nat
        BY ConstantsAre DEF Mixed
      <4> QED
        BY ONLY <4>1, <4>2
    <3>2. PICK s \in Nat : size = s
      BY <2>1
    <3>3. /\ Len(File) = k + s + 2
          /\ \A i \in 1 .. k : File[i] = HeaderByte(picture.res, i)
          /\ \A i \in 1 .. s : File[k + i] = DataByte(captures, i - 1)
          /\ \A i \in 1 .. 2 : File[k + s + i] = FooterByte(i)
      BY ONLY <2>3, <3>1, <3>2, FileIs, Zenon
    <3> QED
      BY ONLY <3>2, <3>3, Zenon
  <2>5. CASE ~ready
    <3>1. out = <<>> /\ ~ended
      BY <2>5 DEF IInv, NothingRead, Untouched
    <3>2. Len(out) = 0 /\ DOMAIN out = {}
      BY <3>1
    <3>3. 0 <= Len(File)
      BY ONLY <2>1, <2>3, <2>4
    <3> QED
      BY <3>1, <3>2, <3>3 DEF IsBeginningOfFile
  <2>6. CASE ready
    <3>1. Counts /\ Bytes
      BY <2>6 DEF IInv, ReadSoFar
    <3>2. picture.res = resolution /\ picture.no = captures
      BY <2>6 DEF IInv, InStep
    <3>3. /\ d + want + a = size /\ Len(out) = h + a + f
          /\ h \in {0, HeaderBytes} \/ (a = 0 /\ want = 0 /\ f = 0)
          /\ f > 0 => d = 0 /\ want = 0
          /\ ended => f = 2 /\ h \in {0, HeaderBytes}
      BY <3>1 DEF Counts
    <3>4. /\ \A i \in 1 .. h : out[i] = HeaderByte(resolution, i)
          /\ \A i \in 1 .. a : out[h + i] = DataByte(captures, i - 1)
          /\ \A i \in 1 .. f : out[h + a + i] = FooterByte(i)
      BY <3>1 DEF Bytes
    <3>5. k = IF h > 0 THEN HeaderBytes ELSE 0
      BY <2>3
    <3> HIDE DEF a, h, f, d
    <3>6. h <= k /\ a <= size /\ (a > 0 \/ f > 0 => h = k) /\ (f > 0 => a = size)
      BY ONLY <2>1, <2>3, <3>3, <3>5
    <3>7. Len(out) <= Len(File)
      BY ONLY <2>1, <2>3, <2>4, <3>3, <3>6
    <3>8. ASSUME NEW i \in 1 .. h + a + f PROVE out[i] = File[i]
      <4>1. CASE i <= h
        <5>1. i \in 1 .. h /\ i \in 1 .. k
          BY ONLY <2>1, <2>3, <3>6, <4>1, i \in 1 .. h + a + f
        <5> QED
          BY ONLY <2>4, <3>2, <3>4, <5>1
      <4>2. CASE h < i /\ i <= h + a
        <5>1. PICK j \in 1 .. a : i = h + j
          <6>1. i - h \in 1 .. a /\ i = h + (i - h)
            BY ONLY <2>1, <4>2, i \in 1 .. h + a + f
          <6> QED
            BY ONLY <6>1
        <5>2. i = k + j /\ j \in 1 .. size
          BY ONLY <2>1, <2>3, <3>6, <5>1, j \in 1 .. a
        <5> QED
          BY ONLY <2>4, <3>4, <5>1, <5>2
      <4>3. CASE h + a < i
        <5>1. PICK j \in 1 .. f : i = h + a + j
          <6>1. i - (h + a) \in 1 .. f /\ i = h + a + (i - (h + a))
            BY ONLY <2>1, <4>3, i \in 1 .. h + a + f
          <6> QED
            BY ONLY <6>1
        <5>2. i = k + size + j /\ j \in 1 .. 2
          BY ONLY <2>1, <2>3, <3>6, <5>1, j \in 1 .. f
        <5> QED
          BY ONLY <2>4, <3>4, <5>1, <5>2
      <4> QED
        BY ONLY <4>1, <4>2, <4>3, <2>1, i \in 1 .. h + a + f
    <3>9. DOMAIN out = 1 .. h + a + f
      BY <2>2, <3>3
    <3>10. ended => Len(out) = Len(File)
      <4>1. ASSUME ended PROVE Len(out) = Len(File)
        <5>1. f = 2 /\ a = size /\ h = k
          BY ONLY <2>1, <2>3, <3>3, <3>6, <4>1
        <5> QED
          BY ONLY <2>1, <2>3, <2>4, <3>3, <5>1
      <4> QED
        BY <4>1
    <3> QED
      BY <3>7, <3>8, <3>9, <3>10 DEF IsBeginningOfFile
  <2> QED
    BY <2>1, <2>5, <2>6
<1> QED
  BY <1>1, Invariance, PTL
=============================================================================
