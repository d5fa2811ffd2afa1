------------------------------ MODULE BootSafety ------------------------------
(***************************************************************************)
(* boot_safety.c, the parts of the bootloader that choose between DFU mode *)
(* and the application, and every way in which the chip starts again.      *)
(* What outlives a reset is in three registers of the POWER peripheral:    *)
(* GPREGRET (the DFU flag), GPREGRET2 (the boot counter, in its upper four *)
(* bits) and RESETREAS (here its watchdog bit).  A soft reset and System   *)
(* OFF keep them, loss of power clears them; the watchdog sets its bit and *)
(* may or may not keep the other two.                                      *)
(*                                                                         *)
(* No name of a definition is one of FlashDriver's: FlashAndBoot_proofs    *)
(* extends both.                                                           *)
(***************************************************************************)
EXTENDS Naturals

CONSTANTS
  MaxBootAttempts,  \* MAX_BOOT_ATTEMPTS, 8 in the source
  MaxPowerLosses    \* bound on the number of times the battery runs empty

ASSUME BootAssumption ==
  /\ MaxBootAttempts \in 1 .. 15
  /\ MaxPowerLosses \in Nat

VARIABLES
  bootloader, \* FALSE: a development kit that starts the application itself
  place,      \* what the processor is executing
  gpregret, gpregret2, dog,
  app,        \* the application in flash: one that works, or one that does not
  losses,     \* history: power losses so far
  starts,     \* history: times the application started since the last DFU,
              \* counted up to one more than the limit
  cutShort,   \* history: has any start ended before the REPL ran
  reason      \* history: why DFU mode is due, if it is

registers == <<gpregret, gpregret2, dog>>
history   == <<starts, cutShort, reason>>
bootVars      == <<bootloader, place, registers, app, losses, history>>

DfuFlag == 177                       \* 0xB1
Byte    == 0 .. 255
Places  == {"reset", "dfu", "boot_safety", "count", "enter_dfu", "setup", "repl", "off"}
Reasons == {"none", "watchdog", "attempts", "update"}

OneMore(n) == IF n > MaxBootAttempts THEN n ELSE n + 1

(* The upper four bits of GPREGRET2, and a write of them alone.            *)
BootCounter(r) == r \div 16
WithCounter(r, counter) == (r % 16) + ((counter * 16) % 256)
-----------------------------------------------------------------------------
BootInit ==
  /\ bootloader \in BOOLEAN
  /\ place = "reset"
  /\ gpregret = 0 /\ gpregret2 = 0 /\ dog = FALSE
  /\ app \in {"works", "faulty"}
  /\ losses = 0 /\ starts = 0 /\ cutShort = FALSE /\ reason = "none"

-----------------------------------------------------------------------------
(* nrf_bootloader_init().                                                  *)

(* dfu_enter_check() finds the flag, dfu_enter_flags_clear() clears it.    *)
EnterDfu ==
  /\ bootloader
  /\ place = "reset" /\ gpregret = DfuFlag
  /\ place' = "dfu" /\ gpregret' = 0
  /\ UNCHANGED <<bootloader, gpregret2, dog, app, losses, history>>

StartApp ==
  /\ place = "reset" /\ (bootloader => gpregret # DfuFlag)
  /\ place' = "boot_safety"
  /\ starts' = OneMore(starts)
  /\ UNCHANGED <<bootloader, registers, app, losses, cutShort, reason>>

(* An update, or nobody comes and inactivity_timeout() resets the chip.    *)
DfuEnds ==
  /\ place = "dfu" /\ place' = "reset"
  /\ app' \in {app, "works", "faulty"}
  /\ starts' = 0 /\ reason' = "none"
  /\ UNCHANGED <<bootloader, registers, losses, cutShort>>

-----------------------------------------------------------------------------
(* boot_safety_init().                                                     *)

(* Mutant: the watchdog bit is cleared and otherwise ignored.              *)
WatchdogIgnored ==
  /\ place = "boot_safety"
  /\ place' = "count" /\ dog' = FALSE
  /\ UNCHANGED <<bootloader, gpregret, gpregret2, app, losses, history>>

CheckWatchdog ==
  /\ place = "boot_safety"
  /\ place' = IF dog THEN "enter_dfu" ELSE "count"
  /\ dog' = FALSE
  /\ UNCHANGED <<bootloader, gpregret, gpregret2, app, losses, history>>

(* Mutant: the counter is incremented but not saved.                       *)
CountBootUnsaved ==
  /\ place = "count" /\ gpregret # DfuFlag
  /\ place' = IF BootCounter(gpregret2) >= MaxBootAttempts THEN "enter_dfu" ELSE "setup"
  /\ UNCHANGED <<bootloader, registers, app, losses, history>>

(* Mutant: one boot more than the limit.                                   *)
CountBootLate ==
  /\ place = "count" /\ gpregret # DfuFlag
  /\ LET counter == BootCounter(gpregret2) IN
       IF counter > MaxBootAttempts
         THEN /\ gpregret2' = WithCounter(gpregret2, 0)
              /\ place' = "enter_dfu" /\ reason' = "attempts"
         ELSE /\ gpregret2' = WithCounter(gpregret2, counter + 1)
              /\ place' = "setup" /\ UNCHANGED reason
  /\ UNCHANGED <<bootloader, gpregret, dog, app, losses, starts, cutShort>>

CountBoot ==
  /\ place = "count" /\ gpregret # DfuFlag
  /\ LET counter == BootCounter(gpregret2) IN
       IF counter >= MaxBootAttempts
         THEN /\ gpregret2' = WithCounter(gpregret2, 0)
              /\ place' = "enter_dfu" /\ reason' = "attempts"
         ELSE /\ gpregret2' = WithCounter(gpregret2, counter + 1)
              /\ place' = "setup" /\ UNCHANGED reason
  /\ UNCHANGED <<bootloader, gpregret, dog, app, losses, starts, cutShort>>

(* The flag is still set: no bootloader.  The counter starts again at one. *)
CountBootAfterFlag ==
  /\ place = "count" /\ gpregret = DfuFlag
  /\ gpregret' = 0
  /\ gpregret2' = WithCounter(gpregret2, 1)
  /\ place' = "setup"
  /\ starts' = 1 /\ reason' = "none"
  /\ UNCHANGED <<bootloader, dog, app, losses, cutShort>>

(* Mutant: enter_dfu_mode() resets the chip without setting the flag.      *)
EnterDfuModeUnflagged ==
  /\ place = "enter_dfu" /\ place' = "reset"
  /\ UNCHANGED <<bootloader, registers, app, losses, history>>

(* enter_dfu_mode()                                                        *)
EnterDfuMode ==
  /\ place = "enter_dfu" /\ place' = "reset"
  /\ gpregret' = DfuFlag
  /\ UNCHANGED <<bootloader, gpregret2, dog, app, losses, history>>

-----------------------------------------------------------------------------
(* The rest of main().                                                     *)

Started == place \in {"setup", "repl"}

(* run_lua() reaches the REPL.  boot_safety_mark_boot_successful() is not  *)
(* called there.  A faulty application does not get so far.                *)
ReachRepl ==
  /\ place = "setup" /\ app = "works"
  /\ place' = "repl"
  /\ UNCHANGED <<bootloader, registers, app, losses, history>>

(* A boot that ends before the REPL runs is not a successful one.          *)
BootEnds == cutShort' = (cutShort \/ place = "setup")

(* error(), a Lua panic, a hard fault, or the button: NVIC_SystemReset().  *)
SoftReset ==
  /\ Started
  /\ place' = "reset" /\ BootEnds
  /\ UNCHANGED <<bootloader, registers, app, losses, starts, reason>>

WatchdogBites ==
  /\ Started
  /\ place' = "reset" /\ BootEnds
  /\ dog' = TRUE /\ reason' = "watchdog"
  /\ \/ UNCHANGED <<gpregret, gpregret2>>
     \/ gpregret' = 0 /\ gpregret2' = 0
  /\ UNCHANGED <<bootloader, app, losses, starts>>

(* frame.update()                                                          *)
LuaUpdate ==
  /\ place = "repl" /\ place' = "reset"
  /\ gpregret' = DfuFlag /\ reason' = "update"
  /\ UNCHANGED <<bootloader, gpregret2, dog, app, losses, starts, cutShort>>

(* shutdown(): when docked, also during setup; or frame.sleep().  It       *)
(* clears RESETREAS.                                                       *)
Shutdown ==
  /\ Started
  /\ place' = "off" /\ dog' = FALSE /\ BootEnds
  /\ UNCHANGED <<bootloader, gpregret, gpregret2, app, losses, starts, reason>>

(* Undocked, or tapped: a pin of which the sense is enabled changes.       *)
WakeUp ==
  /\ place = "off" /\ place' = "reset"
  /\ UNCHANGED <<bootloader, registers, app, losses, history>>

PowerLoss ==
  /\ losses < MaxPowerLosses /\ losses' = losses + 1
  /\ place' = "reset"
  /\ gpregret' = 0 /\ gpregret2' = 0 /\ dog' = FALSE
  /\ starts' = 0 /\ BootEnds /\ reason' = "none"
  /\ UNCHANGED <<bootloader, app>>

-----------------------------------------------------------------------------
BootStep == EnterDfu \/ StartApp \/ CheckWatchdog \/ CountBoot
            \/ CountBootAfterFlag \/ EnterDfuMode

BootNext == BootStep \/ DfuEnds \/ ReachRepl \/ SoftReset \/ WatchdogBites
            \/ LuaUpdate \/ Shutdown \/ WakeUp \/ PowerLoss

BootSpec == BootInit /\ [][BootNext]_bootVars

(* The boot code runs; an application that does not get to the REPL ends   *)
(* in a reset of some kind, for nothing else feeds the watchdog then; and  *)
(* somebody takes the glasses out of the case again.                       *)
BootFairness ==
  /\ WF_bootVars(BootStep)
  /\ WF_bootVars(WakeUp)
  /\ WF_bootVars(app = "faulty" /\ (SoftReset \/ WatchdogBites))

BootFairSpec == BootSpec /\ BootFairness

-----------------------------------------------------------------------------
BootTypeOK ==
  /\ bootloader \in BOOLEAN /\ place \in Places
  /\ gpregret \in Byte /\ gpregret2 \in Byte /\ dog \in BOOLEAN
  /\ app \in {"works", "faulty"}
  /\ losses \in 0 .. MaxPowerLosses
  /\ BootCounter(gpregret2) <= MaxBootAttempts
  /\ starts \in 0 .. MaxBootAttempts + 1 /\ cutShort \in BOOLEAN
  /\ reason \in Reasons

(* However soft resets, watchdog resets, sleep and loss of power follow    *)
(* each other, the application gets past boot_safety_init() at most        *)
(* MAX_BOOT_ATTEMPTS times between two visits to DFU mode.                 *)
AttemptsAreBounded == Started => starts <= MaxBootAttempts

(* Once DFU mode is due (the watchdog bit, frame.update()), the hardware   *)
(* is not set up again before DFU mode was entered.                        *)
DfuComesFirst == Started => reason = "none"

(* With the bootloader, an application that never gets to the REPL ends up *)
(* in DFU mode, where it can be replaced, even if it is put to sleep and   *)
(* woken or the battery runs empty on the way.                             *)
FaultyAppReachesDfu == (bootloader /\ app = "faulty") ~> (place = "dfu")

(* The boot counter does not put a firmware into DFU mode of which every   *)
(* start came to the REPL.                                                 *)
HealthyAppStaysOutOfDfu ==
  (place = "dfu" /\ reason = "attempts") => cutShort
=============================================================================
