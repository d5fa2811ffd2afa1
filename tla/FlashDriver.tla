----------------------------- MODULE FlashDriver -----------------------------
(***************************************************************************)
(* flash.c and its three clients, which share one SoftDevice flash command *)
(* and one flag:                                                           *)
(*   - littlefs on the main thread (lua_libraries/file.c), word by word,   *)
(*   - the bond, written by SD_EVT_IRQHandler when pairing succeeds,       *)
(*   - the Frame Lite button, whose handler erases the bond and resets.    *)
(* The SoftDevice accepts one command at a time and answers it later with  *)
(* an event; SD_EVT_IRQHandler (priority 6) drains the events at once, so  *)
(* neither the button handler (priority 7) nor the main thread takes a     *)
(* step while one is queued.  The main thread does not run while the       *)
(* button handler does.                                                    *)
(***************************************************************************)
EXTENDS Naturals, Sequences

CONSTANTS
  MaxWords,   \* bound on the words littlefs programs in one call
  FrameLite,  \* is there a button
  Pairs,      \* do hosts ask to pair
  Quick       \* may a command end before the caller has set flash_is_busy

ASSUME FlashAssumption ==
  /\ MaxWords \in Nat \ {0}
  /\ FrameLite \in BOOLEAN
  /\ Pairs \in BOOLEAN
  /\ Quick \in BOOLEAN

VARIABLES
  main,           \* the main thread: booting, or its place in a littlefs call
  button,         \* the button handler: "up" until it is pressed
  flash_is_busy,  \* the flag of flash.c
  op,             \* whose command the SoftDevice is carrying out
  events,         \* SoC events not yet fetched by SD_EVT_IRQHandler
  bond_storage,   \* the page that holds the encryption key of the bond
  bond,           \* the same key in RAM, where pairing looks at it
  pairing,        \* a pairing is under way
  todo,           \* words of the littlefs call still to be programmed
  done, asked     \* history: commands of this call that ended, and all of them

threads == <<main, button>>
keys    == <<bond_storage, bond, pairing>>
call    == <<todo, done, asked>>
vars    == <<threads, flash_is_busy, op, events, keys, call>>

Clients   == {"file", "bond", "button"}
Outcomes  == {"success", "error"}
KeyStates == {"blank", "keys", "torn"}
Running   == {"call", "mark", "wait"}   \* places inside of a flash call
-----------------------------------------------------------------------------
Init ==
  /\ main = "boot" /\ button = "up"
  /\ flash_is_busy = FALSE /\ op = "none" /\ events = <<>>
  /\ bond_storage \in {"blank", "keys"} /\ bond = "blank" /\ pairing = FALSE
  /\ todo = 0 /\ done = 0 /\ asked = 0

-----------------------------------------------------------------------------
(* The factory reset of hardware_setup(): the SoftDevice is not enabled,   *)
(* so the erase is carried out at once, no event follows, and the wait     *)
(* does not look at the flag, which stays set.                             *)
FactoryReset ==
  /\ main = "boot"
  /\ bond_storage' = "blank"
  /\ flash_is_busy' = TRUE
  /\ UNCHANGED <<threads, op, events, bond, pairing, call>>

(* bluetooth_setup() enables the SoftDevice and loads the key.             *)
BluetoothSetup ==
  /\ main = "boot" /\ main' = "idle"
  /\ bond' = bond_storage
  /\ UNCHANGED <<button, flash_is_busy, op, events, bond_storage, pairing, call>>

(* What a reset that cuts a command short may leave of the bond page.      *)
Interrupted ==
  CASE op = "bond"   -> {bond_storage, "keys", "torn"}
    [] op = "button" -> {bond_storage, "blank", "torn"}
    [] OTHER         -> {bond_storage}

(* NVIC_SystemReset(): everything but the flash starts again.              *)
SystemReset ==
  /\ main' = "boot" /\ button' = "up"
  /\ flash_is_busy' = FALSE /\ op' = "none" /\ events' = <<>>
  /\ bond_storage' \in Interrupted /\ bond' = "blank" /\ pairing' = FALSE
  /\ todo' = 0 /\ done' = 0 /\ asked' = 0

(* sd_flash_write() or sd_flash_page_erase() accepts the command.          *)
Command(client) == op = "none" /\ op' = client /\ UNCHANGED <<bond_storage, events>>

(* It answers NRF_ERROR_BUSY while another one is outstanding, and         *)
(* check_error() resets the chip.                                          *)
RefusedBusy == op # "none" /\ SystemReset

-----------------------------------------------------------------------------
(* The main thread.                                                        *)

MainRuns == events = <<>> /\ button = "up"

(* lfs_api_program_block(), or lfs_api_erase_block() as a call of one      *)
(* command.                                                                *)
BlockCall ==
  /\ main = "idle" /\ MainRuns
  /\ main' = "call"
  /\ \E n \in 1 .. MaxWords : todo' = n /\ asked' = n
  /\ done' = 0
  /\ UNCHANGED <<button, flash_is_busy, op, events, keys>>

FlashWrite ==
  /\ main = "call" /\ MainRuns
  /\ \/ /\ Command("file")
        /\ main' = "mark" /\ todo' = todo - 1
        /\ UNCHANGED <<button, flash_is_busy, bond, pairing, done, asked>>
     \/ RefusedBusy

(* Mutant: flash_write() never sets the flag.                              *)
FlashWriteUnmarked ==
  /\ main = "mark" /\ MainRuns
  /\ main' = "wait"
  /\ UNCHANGED <<button, flash_is_busy, op, events, keys, call>>

(* flash_is_busy = true, after sd_flash_write() has returned.              *)
FlashWriteMark ==
  /\ main = "mark" /\ MainRuns
  /\ main' = "wait" /\ flash_is_busy' = TRUE
  /\ UNCHANGED <<button, op, events, keys, call>>

(* Mutant: the loop over the words tests its condition one word late.      *)
FlashWaitOnceMore ==
  /\ main = "wait" /\ MainRuns
  /\ ~flash_is_busy
  /\ main' = IF todo = 0 /\ done > asked THEN "idle" ELSE "call"
  /\ UNCHANGED <<button, flash_is_busy, op, events, keys, call>>

(* flash_wait_until_complete(); the call returns 0 after its last word.    *)
FlashWait ==
  /\ main = "wait" /\ MainRuns
  /\ ~flash_is_busy
  /\ main' = IF todo = 0 THEN "idle" ELSE "call"
  /\ UNCHANGED <<button, flash_is_busy, op, events, keys, call>>

-----------------------------------------------------------------------------
(* The button handler.                                                     *)

ButtonRuns == events = <<>>

ButtonPress ==
  /\ FrameLite /\ button = "up" /\ main # "boot" /\ events = <<>>
  /\ button' = "call"
  /\ UNCHANGED <<main, flash_is_busy, op, events, keys, call>>

ButtonErase ==
  /\ button = "call" /\ ButtonRuns
  /\ \/ /\ Command("button")
        /\ button' = "mark"
        /\ UNCHANGED <<main, flash_is_busy, bond, pairing, call>>
     \/ RefusedBusy

ButtonMark ==
  /\ button = "mark" /\ ButtonRuns
  /\ button' = "wait" /\ flash_is_busy' = TRUE
  /\ UNCHANGED <<main, op, events, keys, call>>

(* Mutant: bluetooth_unpair() does not wait.                               *)
ButtonResetAtOnce == button = "wait" /\ ButtonRuns /\ SystemReset

ButtonReset ==
  /\ button = "wait" /\ ButtonRuns
  /\ ~flash_is_busy
  /\ SystemReset

-----------------------------------------------------------------------------
(* The SoftDevice, and SD_EVT_IRQHandler.                                  *)

(* Has the caller of the current command set the flag yet?                 *)
Marked == (op = "file" => main = "wait") /\ (op = "button" => button = "wait")

(* The command ends, with exactly one event.                               *)
OperationEnds(outcome) ==
  /\ op # "none"
  /\ Quick \/ Marked
  /\ op' = "none"
  /\ events' = Append(events, outcome)
  /\ bond_storage' = CASE outcome = "error" -> bond_storage
                       [] op = "bond"       -> "keys"
                       [] op = "button"     -> "blank"
                       [] op = "file"       -> bond_storage
  /\ done' = IF op = "file" THEN done + 1 ELSE done
  /\ UNCHANGED <<threads, flash_is_busy, bond, pairing, todo, asked>>

(* The first loop of the handler: flash_event_handler(), for both events.  *)
FlashEventHandler ==
  /\ events # <<>> /\ events' = <<>>
  /\ flash_is_busy' = FALSE
  /\ UNCHANGED <<threads, op, keys, call>>

(* BLE_GAP_EVT_SEC_PARAMS_REQUEST: a device that has no key agrees to pair.*)
SecParamsRequest ==
  /\ Pairs
  /\ main # "boot" /\ events = <<>>
  /\ ~pairing /\ bond = "blank"
  /\ pairing' = TRUE
  /\ UNCHANGED <<threads, flash_is_busy, op, events, bond_storage, bond, call>>

(* BLE_GAP_EVT_AUTH_STATUS, or a link that is lost before it.  The handler *)
(* writes the key and does not wait.                                       *)
AuthStatus ==
  /\ pairing /\ events = <<>>
  /\ \/ /\ Command("bond")
        /\ bond' = "keys" /\ pairing' = FALSE /\ flash_is_busy' = TRUE
        /\ UNCHANGED <<threads, call>>
     \/ RefusedBusy

PairingLost ==
  /\ pairing /\ pairing' = FALSE
  /\ UNCHANGED <<threads, flash_is_busy, op, events, bond_storage, bond, call>>

(* Nothing will ever clear the flag that a thread is waiting for.          *)
Stuck == flash_is_busy /\ op = "none" /\ events = <<>> /\ (main = "wait" \/ button = "wait")

(* Mutant: the loop that waits feeds the watchdog.                         *)
WatchdogFed == FALSE /\ UNCHANGED vars

(* A wait of six seconds: a command takes far less, so only a wait that    *)
(* would never end.                                                        *)
WatchdogReset == Stuck /\ SystemReset

-----------------------------------------------------------------------------
MainStep == BlockCall \/ FlashWrite \/ FlashWriteMark \/ FlashWait
ButtonStep == ButtonErase \/ ButtonMark \/ ButtonReset
SoftDevice == (\E o \in Outcomes : OperationEnds(o)) \/ FlashEventHandler
Pairing == SecParamsRequest \/ AuthStatus \/ PairingLost

Next == FactoryReset \/ BluetoothSetup \/ MainStep \/ ButtonPress \/ ButtonStep
        \/ SoftDevice \/ Pairing \/ WatchdogReset

Spec == Init /\ [][Next]_vars

(* Threads run when nothing of higher priority does, commands end, and the *)
(* watchdog bites.                                                         *)
Fairness ==
  /\ WF_vars(BluetoothSetup)
  /\ WF_vars(FlashWrite \/ FlashWriteMark \/ FlashWait)
  /\ WF_vars(ButtonStep) /\ WF_vars(SoftDevice) /\ WF_vars(WatchdogReset)

FairSpec == Spec /\ Fairness

-----------------------------------------------------------------------------
TypeOK ==
  /\ main \in {"boot", "idle"} \cup Running
  /\ button \in {"up"} \cup Running
  /\ flash_is_busy \in BOOLEAN /\ pairing \in BOOLEAN
  /\ op \in {"none"} \cup Clients
  /\ events \in Seq(Outcomes)
  /\ bond_storage \in KeyStates /\ bond \in KeyStates
  /\ todo \in 0 .. MaxWords /\ done \in 0 .. MaxWords /\ asked \in 0 .. MaxWords

(* flash_wait_until_complete() waits for the caller's own command: when a  *)
(* call to littlefs' block device returns, each of its words has been      *)
(* dealt with, no matter what pairing and the button did meanwhile.  The   *)
(* buffer on the stack of lfs_api_program_block() is in use until then.    *)
ReturnsWhenAllDone ==
  /\ main = "idle" => done = asked
  /\ op = "file" => main \in {"mark", "wait"}

(* The reset that follows a press of the button never cuts the erase of    *)
(* the key short and leaves a torn key: the handler waits for its own      *)
(* command, whatever place of a littlefs call it interrupted and whatever  *)
(* completed meanwhile.  Only a pairing that succeeds in the middle of the *)
(* erase may reset the chip before (NoResetByBusy).                        *)
ButtonWaitsForErase ==
  [][button = "wait" /\ button' = "up" /\ ~pairing => op # "button"]_vars

(* A call to the block device comes to an end, if need be by a reset.      *)
FileCallsEnd == (main \in Running) ~> (main \in {"idle", "boot"})

(* Writing a file, or pairing, does not reset the chip: the only resets    *)
(* are that of the button and that of the watchdog.                        *)
NoResetByBusy ==
  [][main # "boot" /\ main' = "boot" => Stuck \/ button = "wait"]_vars
=============================================================================
