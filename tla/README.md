# Formal models of the Frame firmware and FPGA

TLA+ specifications of the Frame glasses (nRF52840 firmware and FPGA), the TLC
configurations that check them, and TLAPS proofs about them. Every definition is
translated from the code under `src/`; `PROJECT.json` maps each one to its lines.

    tlc -config LuaPort_all.cfg MCLuaPort.tla      # a run
    tlapm LuaPort_proofs.tla                       # the proofs of a module

## The system

The firmware has one main thread, which runs Lua, and interrupt handlers that
preempt it: SoftDevice events (`SD_EVT_IRQHandler`, priority 6), pins and timers
(priority 7). There is no operating system and, but for one critical section,
no locking. The FPGA runs concurrently and is reached over SPI.

| Component | State it keeps | Operations | Talks to | What is hard | What makes it correct |
|---|---|---|---|---|---|
| Lua runtime (`luaport.c`, `watchdog.c`) | `repl_buffer`, `local_repl_buffer`, the Lua state, its one debug hook | REPL loop, break, reset of Lua, watchdog hook | Bluetooth interrupt, every Lua library | interrupts between any two steps, one hook for four purposes, Lua that never ends | lines run once and in order; a break stops a script; 0x04 resets |
| Bluetooth data callback (`lua_libraries/bluetooth.c`) | packet buffer, callback reference | `receive_callback`, packet interrupt, hook handler | debug hook, registry | buffer shared with an interrupt, references that outlive a Lua state | each packet once, whole, to the registered function |
| IMU tap callback (`lua_libraries/imu.c`) | callback reference; the interrupt line | `tap_callback`, pin interrupt, hook handler | debug hook, I2C | an edge-triggered line that must be lowered | a tap is always acknowledged |
| Flash driver (`flash.c`) | `flash_is_busy` | write, erase, wait, event handler | SoftDevice; littlefs, pairing and the button as clients | asynchronous completion, three clients and one flag | a client waits for its own command, and not for ever |
| Bluetooth link (`bluetooth.c`) | connection, MTU, bond in RAM and flash | GAP and GATT events, notify, unpair | SoftDevice, flash, Lua | event order, stale MTU, a full notification queue | bond in RAM and flash agree; MTU is this link's |
| Boot safety (`boot_safety.c`, bootloader) | GPREGRET, GPREGRET2, RESETREAS | watchdog check, boot counter, entry to DFU mode | every kind of reset | crashes and restarts at any place | a firmware that cannot start can be replaced |
| Power (`main.c`, `system.c`) | `not_real_hardware`, `stay_awake`, PMIC | docking, `shutdown`, `frame.sleep` | I2C, camera, display | an interrupt that shuts down what the main thread uses | wakes up again, loses no write |
| Camera (`camera.c`, FPGA camera) | counters of header, data and footer; state machine, size, read address, image buffer | `capture`, `image_ready`, `read`, `read_raw`, `power_save` | SPI, I2C | two chips that count the same bytes, a prefetching memory, addresses that wrap | the file read is the picture taken, whole |
| Display (`display.c`, FPGA graphics) | two frame buffers, palette, sprite engine, clear counter | `bitmap`, `text`, `show`, palette | SPI | the switch waits for the end of a frame, the clear goes on after it | no frame is torn; what is shown is what was drawn |
| JPEG encoder (`jenc/*.sv`) | pipelines of codes and bits | one clock, held or not | image buffer | codes put in between others, bits that cross words, holds that travel backwards | the words are the codes of the picture, all of them |
| SPI, I2C (`spi.c`, `i2c.c`) | chip select; none | transactions, masked writes, three tries | all devices | interrupts in the middle of a transaction | a masked write keeps the other bits |
| Compression (`compression.c`) | output buffer, hook | LZ4 frame, block callback | Lua hook | one hook for many blocks | each block reaches the callback |
| Files (`file.c`, the directory of `lfs.c`) | directory, open handles | open, read, write, close, remove, rename, `require` | littlefs, flash | handles known by a place that moves, failed writes, power loss | a close changes the file that was opened, or nothing |
| Time (`time.c`) | clock offset, tick count | `utc`, `zone`, `date` | RTC interrupt | update with the interrupt disabled | monotonic, interrupt re-enabled |
| Microphone (`microphone.c`) | sample FIFO | start, read, stop | PDM interrupt | writer does not look at reader | compiled out of every build |

## Modules

| Module | Models | Status |
|---|---|---|
| `LossyMailbox` | what the REPL promises a host: one slot, newer lines displace older ones, what is taken is taken once and in order | checked, proved |
| `LuaPort` | `run_lua()` and all interrupt handlers that reach into it; implements `LossyMailbox` | checked, proved |
| `FlashDriver` | `flash.c`, littlefs' block device, the bond key, the button | checked, proved |
| `BootSafety` | resets, boot counter, DFU mode | checked, proved |
| `CameraCapture` | camera library and the FPGA it talks to | checked, proved |
| `DisplayBuffers` | `bitmap()`, `show()`, sprite engine, double buffer and raster | checked, safety proved |
| `FileStore` | what `frame.file` promises a script: named files that change at a close | checked and proved as a refinement |
| `FileLibrary` | `file.c` over one directory of littlefs; implements `FileStore` | checked, proved |
| `BluetoothLink` | all events of `SD_EVT_IRQHandler`, the bond, MTU, `send()` | checked, safety proved |
| `PowerDown` | set-up, rails, `shutdown()`, case pin, charger, transfers on the I2C bus | checked, safety proved |
| `EntropyCoder` | run lengths and code pipeline of the JPEG encoder | checked, safety proved |
| `BytePack` | the encoder's packing, byte stuffing and padding | checked, safety proved |
| `MC*` | instantiations for TLC | |
| `*_proofs` | theorems and their proofs, one module for each component; `FlashAndBoot_proofs` holds those of `FlashDriver` and `BootSafety`, `JpegEncoder_proofs` those of `EntropyCoder` and `BytePack` | |

Where two components share a module of proofs, the definitions of one have a prefix, so that
one module can extend both: `BootSpec`, `BootTypeOK` of `BootSafety` and `PackSpec`,
`PackTypeOK`, `PackNext` of `BytePack`.

### LuaPort

An interrupt handler runs to completion, so it is one action (`LuaWriteToRepl`,
`LuaBreakSignalInterrupt`, `LuaBluetoothDataInterrupt`, `ImuTapInterrupt`). The main
thread is a program counter, `pc`, over the places of `run_lua()`: the two tests of
`repl_buffer[0]` are two actions because an interrupt fits between them, while the
copy into `local_repl_buffer`, made with the SoftDevice interrupt disabled, is one.
A hook handler called by the VM has a second counter, `hpc`: `luaD_hook` reads the
hook (`FireHook`), the handler sets the watchdog's hook again (`SethookWatchdog`) and
then does its work, which for a packet is a copy in two halves, so that a packet
arriving in between can tear it. A text is its number, in the order of the writes, and its
first byte, of which four kinds differ: 0x04 (`EOT`); 0, which is also what a write of no bytes
leaves (`Empty`); that of a line that does not compile (`NotLua`); and that of any other line
(`Text`). An empty write finds the slot as `run_lua()` leaves it: it takes back the line
before it, and if it comes between the test at `luaport.c:245` and the copy, the loop takes
and executes an empty chunk. A packet is its two halves; a function is the callback it was
meant for. `sent`, `ran`, `count`, `delivered` and `dangling` are history.

What user Lua may do: end, fail, catch errors (`ScriptsCatch`), register and
unregister callbacks (`Unregisters`), or loop for ever.

### FlashDriver

The SoftDevice takes one command (`op`), and ends it with an event that
`SD_EVT_IRQHandler` fetches before any thread goes on. `main` and `button` are the
places of the two threads that wait. The flag is set after the command was accepted,
as in the code; `Quick` lets a command end in between. `bond_storage` may be torn by a
reset that cuts a command short. Either outcome of a command is possible, and
both clear the flag, as `flash_event_handler()` ignores its argument.

### BootSafety

The registers are bytes, and the counter is the upper half of GPREGRET2, so the
shifts and masks of the code are arithmetic here. `bootloader` is chosen in `Init`:
the glasses have one, a development kit may not, and `boot_safety_init()` has a branch
for that case. `place` is what the processor executes; each reset, sleep and power
loss is an action that keeps or clears what the hardware does. A start ends well when the
REPL runs (`ReachRepl`); `cutShort` is history and says that some start did not get there.

### CameraCapture

A call that makes several SPI transactions has a place (`pc`) before each, and the
FPGA may step there. `state` is the state machine of `jpeg_encoder.sv`, `size` its
counter, `image_address_out` the read address of `spi_registers.sv`, `latched` the word
at the output of the one-ported image buffer, which a write, or a read of certain
registers, replaces. Bytes of a file are tokens, so that a byte that is missing,
stale, repeated or of another picture is seen. `patient`, chosen in `Init`, makes the
script follow the order that `tests/test_camera.py` uses (wait for `image_ready()`,
then read until nil); the other scripts call anything at any time. `quality` travels
with the resolution and is left out, as are pan and the arithmetic of the quantisation
table in the header.

### DisplayBuffers

One tick is two clocks of the display: the raster (`beam`) moves by one pixel and the
clear logic by one. `mem` is the two buffers as far as they are on the screen; addresses
wrap at `AddressSpace` as they do in the FPGA, so that a sprite that runs past the last
line comes out where the code puts it. The pens wrap at `PenRange`, 1024 in the source, while
the sum they are compared with (`sprite_engine.sv:66`) has 32 bits: a sprite with
`x + width > PenRange`, which `display.c:214` lets pass, never gets to its second line. `Fits`
tells these from the others. `LuaDisplayBitmap` sends a sprite whose bytes
`NewPixels` and `Draw` take one by one; SPI is much slower than the engine, so that they
do not pile up. `drawn`, `shown`, `current` and `whole` are history: the picture by the
definition of a sprite (`WithSprite`), without buffers or time, and the number of the one
that was sent; `drawn_fits` and `shown_fits` say that all sprites on those two fit. `patient`, chosen in `Init`, lets a switch and the clear end before it
goes on; other scripts draw and show at any moment.

### FileLibrary and FileStore

`dir` is the directory as littlefs keeps it: entries sorted by name, each known by its
place; a new name goes before the first that is greater, as `lfs_dir_fetchmatch()` finds it. A change is a list of attributes (`Create`, `Delete`) that is written at once and
by which `lfs_dir_relocatingcommit()` corrects the place of each open file (`FixId`), all but the
one that commits. A handle holds the data it would read, as it does for files that fit
into the directory. `Restart` forgets the handles, which is all that a reset of Lua, of the
chip or of the power does, as each commit is whole or not there. `FileStore` knows neither
places nor commits: files have names, and handles belong to them.

### BluetoothLink

The SoftDevice and the hosts put events into `events`; the handler, one action for each
kind, pulls them later, when the link may be gone. Every checked call of the handler
that may fail then ends in `Reset`, which starts again with what the flash holds. A key is
the number of its pairing, 0 is erased flash, and `Torn` is what is left when the write of a
key over another or its interruption leaves none. `subscribed` is the CCCD of the
characteristic for notifications: the host writes it on an encrypted link, and
`sd_ble_gatts_sys_attr_set()` without attributes, which the handler calls for a connection and again when
attributes are missing, clears it, even if the host was faster. `HvxTakes` lists what
`sd_ble_gatts_hvx()` asks of the link (`ble_gatts.h:637`). `FlashDriver` has the same bond at
the level of words; here its write is one action that may end in either way.

### PowerDown

`main` is the list of the steps of `hardware_setup()` that are still to come, `shutting` those
of `shutdown()`, so that a reset or an interrupt may come between any two, and `transfer` says
that the main thread is in the middle of one on the bus. `PinRises` is the interrupt: in the
middle of a transfer its first access fails and resets the chip, with the rails
and the accelerometer as they happen to be. `MaxResets` bounds the resets that come from
elsewhere (watchdog, errors of Lua, the button).

### EntropyCoder and BytePack

One action is one clock of the FPGA. In `EntropyCoder` a coefficient is its size in bits and
a code the symbol it stands for; `expected` is what an encoder that takes no time
has given and the pipeline has not yet: `First` and `Second` are the codes of the two coefficients of
a pair, `Coded` one coefficient behind its zeros. A hold stops all registers of this module, so clocks without one are enough.
In `BytePack` a bus is a sequence of bits, `image` the bits of all codes and `packed` those that left; the hold of its reader is free at every clock and goes
back through the four stages as in `byte_pack.sv`. `Reference` is the definition of the
output: bytes, a zero after each byte of ones, ones at the end.

## Runs

| Run | Expect | Question |
|---|---|---|
| `LuaPort_all` | pass | Any three signals at any moment, scripts that catch errors and replace callbacks: does the REPL implement the mailbox (`MailboxSpec`, `RanInOrder`), does each hook fire once (`HookFiresOncePerSignal`), is the right function called? |
| `LuaPort_live` | pass | Any four signals, user Lua that may loop: does a break end a script, is the slot served, does the tap line fall, is a paced host's data whole? |
| `FlashDriver_all` | pass | Calls of up to three words with pairing, button and quick commands: does a client wait for its own command, does the button's reset leave a torn key, does each call end? |
| `BootSafety_all` | pass | At most eight starts between visits to DFU mode, DFU mode before setup when it is due, and in the end for a faulty firmware? |
| `BootSafety_healthy` | violation | Does a firmware of which every start reaches the REPL stay out of DFU mode? No: no start clears the counter, so after eight that all get to the REPL, without a loss of power in between, the ninth ends there. `docs/working-with-the-glasses.md:41` notes this; line 39 of it and `README.md:45` speak of failed boots. |
| `CameraCapture_all` | pass | Is the file that a waiting script reads its own picture's, whole, and does each capture end? |
| `DisplayBuffers_all` | pass | Sprites drawn and shown at any moment of the frame: is a frame ever torn, and does a script that waits see its picture and nothing else, each one whole, if its sprites fit the pens? |
| `FileLibrary_all` | pass | Files created, removed and renamed around open ones, failing writes, restarts: does the directory of places implement a store of named files (`ImplementsFileStore`), and is a text read back line by line? |
| `BluetoothLink_all` | pass | Two hosts that connect, pair, fail, forget and leave at any moment: does the bond stay with its host, does only that host get an encrypted link, and does it; can the device be reached again; is a string sent to a host that has enabled notifications? |
| `PowerDown_all` | pass | Pin, charger and resets at any moment of the set-up, of a transfer and of Lua: do rails keep their order, does sleep draw nothing, has Lua what it needs, does a docked device sleep? |
| `BytePack_all` | pass | Short and long codes with gaps and holds: are the words that leave the stuffed bytes of the codes, and does the last come? |
| `EntropyCoder_all` | pass | Runs of up to three extra codes, gaps at any place: are the codes those of a sequential encoder, with the mark on the last? |

`PROJECT.json` lists these runs with their properties. These configurations are kept beside them:

| Configuration | TLC's answer |
|---|---|
| `CameraCapture_types`, `FileLibrary_types`, `BluetoothLink_types`, `PowerDown_types`, `BytePack_types`, `EntropyCoder_types` | no error: `TypeOK`, on the instances of the runs |
| `LuaPort_reset_race` | `ResetIsNotExecuted` is violated: a 0x04 between the two tests of `luaport.c:239` and `:245` is executed as a line, though `bluetooth.c:234` says that the REPL handles it |
| `LuaPort_break_lost` | `BreakAlwaysStops` is violated: a packet replaces the hook of a break that has not fired |
| `LuaPort_packets` | `DataIsNotRepeatedOrTorn` is violated by a host that does not wait |
| `LuaPort_crash` | `HostNeverCrashesLua` is violated: a break while a Lua state starts resets the chip, one while it closes is stored in freed memory |
| `FlashDriver_busy` | `NoResetByBusy` is violated: pairing while a file is written gets `NRF_ERROR_BUSY` (`nrf_soc.h:939`), and `check_error()` resets the chip |
| `CameraCapture_full` | `AnyPictureIsWhole` is violated: the limit of the read address wraps for a picture that leaves one word of the buffer |
| `DisplayBuffers_wide` | `WideSpritesAreShown` is violated: the pen of ten bits never reaches the end of a line at 1024 or beyond (`sprite_engine.sv:66`), though `display.c:214` lets `x + width` be up to 1279, so the pen stays on the first line of such a sprite |
| `FileLibrary_eof` | `EndOfFileIsNil` is violated: at the end of a file `file.c:248` tests a character that was never set, and may return an empty line where `test_file_api.py:98` expects nil |
| `BluetoothLink_mtu` | `MaxLengthIsTheLinks` is violated: `ble_negotiated_mtu` outlives its connection, so `max_length()` differs from the link's until the host exchanges it, which `test_api.py:103` relies on |
| `PowerDown_docking` | `UnpairingMeansButton` is violated: the pin is read (`main.c:350`) before the charger is asked, so a device put into its case in between forgets its bond as if the button had been pressed (`main.c:365`) |

**Bounds.** `MaxSignals` is 3 for safety and 4 for liveness: each race known here needs
a signal to start something, one to disturb it, and one to see the damage. `MaxRefs`
is 2, enough for a reference taken before a reset of Lua to name another function
after it. `MaxWords` of `FlashDriver` is 3, so that a call has a first, a middle and a
last word. `MaxBootAttempts` is the 8 of the source; two power losses let one come
before and one after the counter has moved. The camera's buffer is four words of
two bytes, with pictures from one word to one that wraps the address to 0; a read
of three bytes crosses words, and two captures are enough for one to be abandoned and
its remains to be read by mistake. `MaxOut` is
the length of the longest file that `FileIsWhole` speaks of. The display has three by two pixels, with a
blank part before and after them, pens that count to 3 and seven addresses. Its four sprites overlap
and stop in the middle of a byte; one runs past the last line and round the addresses, one goes
round the lines of the pen and has sums of colors that wrap, one is a single pixel and one does not
fit. Two calls of `bitmap()` put one sprite over another or over a picture being cleared, and three of
`show()` make one picture that is cleared, one that is hidden and one that is shown. `FileLibrary` has three names, so that a file may come
before, between and after others, two handles, and a string with a newline in front of a
character; a state after `eof_line` is not followed, as nothing depends on it. `BluetoothLink` has
two hosts, two keys (one may be in the flash while the other is made) and three events, enough for
a disconnection to come while two others wait. `MaxResets` of `PowerDown` is 2: one may come during
a set-up that another has caused. The words of `BytePack` have eight bits and its bytes two, a
quarter of the FPGA's; its codes go from two bits to 13 as the coder's from two to 52. In
`EntropyCoder` a run has 8 zeros where the standard has 16 and a block 26 coefficients where it has
64: three runs fit into a block, as in the source. The module assumes `Run > 6`: the code of a ZRL goes into
the places of the third pair before, which must have been zeros (TLC finds no error with a run of 7
and a violation with one of 6). Blocks of a component share its last DC coefficient; two
non-zero coefficients let a run stand before, between and after them.

**Fairness.** The main thread is never suspended and handlers are short, so the
firmware's own steps are weakly fair; nothing is assumed of signals, hosts or user
Lua. Properties that need scripts to end say so in their premise (`CallbacksEnd`,
`ScriptsEnd`). In `FlashDriver` the SoftDevice ends its commands and the watchdog bites.
In `BootSafety` a faulty firmware is reset in the end, since only Lua feeds the
watchdog, and somebody takes the glasses out of the case. In `CameraCapture` the
clocks run, and frames come while the sensor is awake. The clock of `DisplayBuffers` and of
`EntropyCoder` runs, and the reader of `BytePack`, a memory, does not hold for ever. In
`BluetoothLink` the interrupt is served, a disconnection that was asked for ends, a notification
is sent while the link lasts, and the script of `SendGetsThrough` goes on trying; hosts are free
never to do anything. In `PowerDown` set-up, `shutdown()` and its wait go on by themselves.

**Conditions in properties.** `BreakStopsTheScript` and `TapLineFalls` hold unless another
signal takes the hook, which the code cannot prevent, and for a hook that is
`Pending`: `sethook_watchdog()`, the first call of each handler, erases a signal
stored between the moment the VM read the hook and that call. The run over four
signals found that window. The same loss leaves the IMU line high for good: the pin sees
no further edge, so taps are dead until Lua is reset. `NoTearing` leaves out the first pixel
of a frame, which a switch at the last moment catches in the read pipeline, and
`ShownIsWhatWasDrawn` speaks of scripts that wait: `show()` does not ask whether the last switch and
clear have ended, and pixels drawn meanwhile are lost. It speaks of pictures of which all sprites fit the
pens, for the reason that `DisplayBuffers_wide` shows; a sprite that does not spoils no other picture.
`SendGetsThrough` speaks of links whose MTU was exchanged, for the reason that `BluetoothLink_mtu`
shows, and on which the host has enabled notifications and keeps them: to one that has not,
`send()` (`bluetooth.c:607`) is busy for ever. `PacedDataIsWhole` speaks of hosts that wait, which rules out the
packet that overwrites another during its copy; `LuaPort_packets` shows that one.
`FileIsWhole` leaves out the picture that wraps the limit (`CameraCapture_full`), and
`LinesAreReadBack` lines that do not fit into the buffer and what follows the end of a file
(`FileLibrary_eof`). `DockedSleeps` speaks of a device that
is docked before its set-up looks at the pin, or while it shuts down: with Lua running the pin's
interrupt is what puts it to sleep, and `stay_awake(true)` is there to prevent that.

## Theorems

All are proved for every value of the constants that the modules' assumptions allow.

- `LuaPort_proofs!MailboxInOrder`: the mailbox delivers at most once and in order.
- `LuaPort_proofs!TypeCorrect`: by induction, in four groups of variables (main thread,
  REPL, data, references), each preserved by every action. That a hook handler is only
  entered in a chunk of Lua is part of it.
- `LuaPort_proofs!ImplementsMailbox`, `RunsInOrder`: `SlotIsFull` (where the loop takes a line or
  clears the slot, the slot holds a write that was not yet taken: the one that was tested or one that came
  since, which may be empty) is the strengthening; with it each step is a `Put` (every write, an
  empty one too), a `Take`, a `Drop` or a stutter, and the order follows from the mailbox's.
- `LuaPort_proofs!SignalsActOnce`: `SignalsAreCounted` adds what is still to come, a stored hook or a
  handler at work, to what has been done, and that sum never exceeds the signals; `CalledFrom` says
  where in `run_lua()` a handler may be at work.
- `LuaPort_proofs!RightCallee`: `RefsAreCurrent` says that a stored reference of the present Lua state
  leads to the function it was taken for, and that the one a handler has looked up is still it.
- `LuaPort_proofs!PacedDataArrivesWhole`: `PacketIsKept` says that the halves in the buffer are
  of one packet, that no new one replaces them while they are copied, and that a packet still to be
  read is newer than all that were delivered.
- `FlashAndBoot_proofs!TypeCorrect`, `WaitsForItsOwn`, `ButtonWaits`: the inductive invariant says
  that a command outstanding means no event is queued, that whoever waits with its
  command outstanding sees the flag set, that a command belongs to a thread still
  inside, and that the words of a call add up. Without the first, an old event could
  clear the flag of a new command.
- `FlashAndBoot_proofs!BootTypeCorrect`, `AttemptsBounded`, `DfuComesBeforeSetup`: `CounterKeepsUp` says
  that while DFU mode is not due the counter in the register is at least the
  number of starts, and which registers are zero where. Two lemmas give the
  arithmetic of the four-bit field.
- `CameraCapture_proofs!TypeCorrect`, `FileArrivesWhole`: for buffers, words, pictures and reads of any
  size. `FileIsWhole` speaks of the bytes a script has; the invariant relates both chips to them.
  `InStep` says where the library and the FPGA may be with respect to each other, `Counts` that the
  bytes remaining, those asked for and the read address add up to the size, and that the latched word
  is the one at the address, and `ReadSoFar` that each byte read is the one at its place in the
  file. Without the latched word the first byte of a transaction could be one of before.
- `DisplayBuffers_proofs!TypeCorrect`, `FramesAreWhole`: for a screen of any size and any sprites, fitting
  or not; that colors stay in four bits and the pens in their range is part of the first. The
  strengthening says where a switch may happen (before the raster has left the first address) and
  that drawing and clearing touch the hidden buffer only, which is why nothing changes below the
  raster.
- `DisplayBuffers_proofs!PicturesAreShown`: `UnderWay` says which bytes and pixels of the sprite are still
  to come and, for a sprite that fits, where the pen is: at the column of the next pixel, and at its line
  modulo the range of the pen. `Waits` says, for a script that waits, that the buffer on the screen is
  the picture shown and what the hidden one holds: black up to the clear counter while it is
  cleared, and else what was drawn, but for places that a pixel still to come will set.
- `FileLibrary_proofs!TypeCorrect`, `DirectorySorted`: for any names, handles, data and length. A commit
  is a fold over at most three attributes, which the lemmas `ApplyAll` and `FixAll` unfold; `Inserted`
  and `Removed` say what that does to a sorted sequence.
- `FileLibrary_proofs!FilesAreNamed`: each action is the operation of `FileStore` it should be, or
  leaves it alone, one lemma for each. The strengthening, `HandlesTrack`, says that an open handle
  either stands on an entry of the directory or is known to be removed, and `DeleteFollowed` and
  `CreateFollowed` that the correction of places, one attribute at a time, keeps it on the same entry.
- `FileLibrary_proofs!LinesComeBack`: for texts of any length and whatever other handles do meanwhile.
  `ReadSoFar` says that a reader stands behind a newline or at the end of its file, and that its lines,
  joined, are the text up to there; `OneLineMore` that one more `read()` keeps it. `Joined` is a fold: the
  lemma `JoinedIs` unfolds its last step, by taking the smallest place where that would fail (a
  minimum of a well-founded order, so that no induction over data is needed).
- `BluetoothLink_proofs!BondStaysKept`, `NoOtherHost`, `ConnectionKnown`, `TypeCorrect`: for any number
  of hosts, pairings and waiting events. `QueueInv` says that a waiting disconnection is the last
  event and that a link that is up was reported or waits to be. `BondInv` says that a pairing is only
  under way while there is no key at all, that at most one successful pairing waits, and that until
  its key is in the flash there is none there; so the write never meets another key. Without the
  part about the queue a second success could be written over the first.
- `PowerDown_proofs!TypeCorrect`, `RailsNested`, `AsleepIsOff`, `ReadyForLua`: for any number of resets.
  What is left of the set-up and of `shutdown()` is the tail of a list of steps (`SetUpTail`,
  `ShutdownTail`), at most one of them at work (`Exclusive`). `RailsAreALevel` says how many rails, from
  the first, are on before each step, `RadioIs` and `ImuIs` where radio and accelerometer are. A
  reset in the middle leaves any level, and the set-up that follows begins by turning all off.

- `JpegEncoder_proofs!TypeCorrect`, `CodesInOrder`: for runs, blocks and images of any size that the
  assumption allows, with gaps of any length. `NothingIsLost` says that the codes that left and those
  in the stages, from the last to the first, are the ones asked for so far. A ZRL is put in front of codes
  that come later and over places that are already in the pipeline, so it needs `RunsAreZeros` (the registers of
  the run lengths are the zeros since the last code) and `ZerosLeaveGaps` (after two zeros the first
  stage is empty and holds the code of a ZRL, after four and six the next two are empty). That is
  where a run of more than six zeros is needed. `MarkIsLast` says that behind the mark of the end no
  code is in the pipeline.
- `JpegEncoder_proofs!PackTypeCorrect`, `CodesComeOut`: for words and bytes of any width, any number of
  codes of up to two words, and holds at any time. `IsPacker` says of one packer and its port where
  the halves of a long code are, that bits behind those that count are zeros (new ones are or-ed to
  them), and what may follow the last code; `PackerStep` that a clock keeps that and that a word which
  leaves is the front of what was there (`Flows`). `PackIInv` puts two packers and `ff00` together: the
  words that passed the first packer are the front of the image (`FrontHalf`), and escaped they are what
  left with the rest in the second packer (`BackHalf`). Escaping whole words one after the other is
  escaping the whole (`EscapesJoin`, `StuffIs`), and the last, filled word is that of the definition
  (`LastBytes`). The definition flattens a sequence of bytes; `AllNumbers` unfolds it, again by a
  smallest counterexample.

TLC checked the inductive invariants of `CameraCapture`, `DisplayBuffers`, `FileLibrary`, `PowerDown` and
`EntropyCoder` as invariants of their runs before they were proved. `PackIInv` was only proved: it asks
for some sequence of bits, which TLC cannot enumerate; its consequence `ImageIsItsCodes` was checked.

With these, a theorem states each safety invariant and each action property of the passing runs.
Only model-checked: everything about liveness, as the provers have no `ENABLED`, and the further
configurations in the table above. The bounds `MaxSignals`, `MaxBlocks`, `MaxCodes` and the like are
constants, so the theorems hold for any value of them. The widths in the assumptions
(`Word % Byte = 0`, `Run > 6`, `2 * LastCnt + 1 < 4 * Run`) hold in the source: 32 and 8, 16, and 31.

## Where code and documents disagree

The violation run is listed under `findings` with its quote, and the further configurations above
show others. Also met:

- `boot_safety.h` puts the call of `boot_safety_init()` after the SoftDevice's
  initialisation, and the counter into GPREGRET; the code calls it first and
  uses GPREGRET2. `README.md:45` says five attempts; the code says eight.
- `boot_safety.c:89` says `boot_safety_mark_boot_successful()` is called from `run_lua()`; the call
  is commented out.
- `flash_event_handler()` ignores an error, and littlefs is told of success.
- The block device waits on a flag that is set after the command was accepted; a
  completion in between leaves it set, and the watchdog ends the wait
  (`FileCallsEnd` holds only thanks to that).

## Plan

What is left, in this order:

1. `EntropyCoder` in front of `BytePack`: the bits of the codes as the input of the packers, with the
   hold, so that the words of an image are those of its coefficients.
2. `Decompression`: blocks of a frame and the hook, as one more user of `LuaPort`'s hook.
3. `LuaPort`: Lua run inside the interrupt when pairing succeeds; a clock for the watchdog.
4. Masked writes and retries of the I2C bus; the disabled interrupt of the clock.
5. The order of coefficients and quantisation of the JPEG encoder.

## Not modelled

Vendored code (Lua, littlefs, lz4, the nRF5 SDK, TensorFlow Lite Micro) beyond what the
modules above use of it; the ML experiments and their weights, which make up most of the
lines of the repository together with the bitstream, the fonts and the generated schema; the radio
test; test benches. Of the parts that are modelled: `text()` and the palette, which draw sprites and
set colors like `bitmap()`; `mkdir`, `listdir` and `require()`; files that do not fit into the
directory; the registers of the sensor, exposure and gain; metering, gamma, transform and
quantisation, which are arithmetic. The SPI bus is a blocking transfer, taken as one step or as
one per byte where something can come in between. Compression and the time library keep no
state that another part changes, but for the shared hook and the disabled interrupt listed
as hazards. The microphone library is compiled out of every build.
