------------------------- MODULE FlashAndBoot_proofs -------------------------
(* Theorems about FlashDriver, for calls of any number of words, with and  *)
(* without the button, pairing and commands that end at once; and about    *)
(* BootSafety, for every limit that fits into four bits.                   *)
EXTENDS FlashDriver, BootSafety, TLAPS

(* The inductive invariant.                                                *)

(* The SoftDevice carries out one command at a time, and a command that    *)
(* ended has not been answered while the next is accepted.                 *)
OneCommand == op # "none" => events = <<>>

(* Whoever waits with a command outstanding sees the flag set.             *)
FlagIsSet ==
  /\ (op = "file" /\ main = "wait") => flash_is_busy
  /\ (op = "button" /\ button = "wait") => flash_is_busy

(* A command belongs to a thread that has not returned yet.                *)
OwnerIsInside ==
  /\ op = "file" => main \in {"mark", "wait"}
  /\ op = "button" => button \in {"mark", "wait"}

(* Every word of the call is still to be programmed, under way, or done.   *)
WordsAddUp ==
  /\ done + todo + (IF op = "file" THEN 1 ELSE 0) = asked
  /\ main \in {"boot", "idle"} => todo = 0
  /\ main = "call" => todo > 0

(* Nothing happens before the SoftDevice is enabled.                       *)
QuietAtBoot ==
  main = "boot" => op = "none" /\ button = "up" /\ events = <<>> /\ ~pairing

IInv == TypeOK /\ OneCommand /\ FlagIsSet /\ OwnerIsInside /\ WordsAddUp /\ QuietAtBoot

-----------------------------------------------------------------------------
LEMMA InitInv == Init => IInv
<1> SUFFICES ASSUME Init PROVE IInv
  OBVIOUS
<1>1. 0 \in 0 .. MaxWords /\ <<>> \in Seq(Outcomes)
  BY FlashAssumption
<1>2. TypeOK
  BY <1>1 DEF Init, TypeOK, Running, Clients, KeyStates
<1> QED
  BY <1>2 DEF Init, IInv, OneCommand, FlagIsSet, OwnerIsInside, WordsAddUp, QuietAtBoot

(* A system reset restores the invariant, wherever it comes from.          *)
LEMMA ResetInv == ASSUME TypeOK, SystemReset PROVE IInv'
<1>1. /\ main' = "boot" /\ button' = "up" /\ flash_is_busy' = FALSE
      /\ op' = "none" /\ events' = <<>> /\ bond' = "blank" /\ pairing' = FALSE
      /\ todo' = 0 /\ done' = 0 /\ asked' = 0
  BY DEF SystemReset
<1>2. bond_storage' \in KeyStates
  BY DEF SystemReset, Interrupted, TypeOK, KeyStates, Clients
<1>3. TypeOK'
  <2>1. 0 \in 0 .. MaxWords /\ <<>> \in Seq(Outcomes)
    BY FlashAssumption
  <2> QED
    BY <1>1, <1>2, <2>1 DEF TypeOK, Running, Clients, KeyStates
<1> QED
  BY <1>1, <1>3
     DEF IInv, OneCommand, FlagIsSet, OwnerIsInside, WordsAddUp, QuietAtBoot

LEMMA NextInv == IInv /\ [Next]_vars => IInv'
<1> SUFFICES ASSUME IInv, [Next]_vars PROVE IInv'
  OBVIOUS
<1> USE FlashAssumption
    DEF IInv, TypeOK, OneCommand, FlagIsSet, OwnerIsInside, WordsAddUp,
        QuietAtBoot, Running, Clients, KeyStates
<1>1. CASE FactoryReset
  BY <1>1 DEF FactoryReset, threads, call
<1>2. CASE BluetoothSetup
  BY <1>2 DEF BluetoothSetup, call
<1>3. CASE BlockCall
  <2>1. PICK n \in 1 .. MaxWords : todo' = n /\ asked' = n
    BY <1>3 DEF BlockCall
  <2>2. /\ main = "idle" /\ main' = "call" /\ done' = 0
        /\ UNCHANGED <<button, flash_is_busy, op, events, keys>>
    BY <1>3 DEF BlockCall
  <2>3. op # "file" /\ n \in 0 .. MaxWords /\ 0 \in 0 .. MaxWords /\ n > 0
    BY <2>2
  <2>4. UNCHANGED <<bond_storage, bond, pairing>>
    BY <2>2 DEF keys
  <2>5. WordsAddUp'
    BY <2>1, <2>2, <2>3
  <2>6. TypeOK'
    BY <2>1, <2>2, <2>3, <2>4
  <2> QED
    BY <2>2, <2>4, <2>5, <2>6
<1>4. CASE FlashWrite
  <2>1. CASE RefusedBusy
    BY <2>1, ResetInv DEF RefusedBusy
  <2>2. CASE Command("file") /\ main' = "mark" /\ todo' = todo - 1
             /\ UNCHANGED <<button, flash_is_busy, bond, pairing, done, asked>>
    <3>1. op = "none" /\ op' = "file" /\ UNCHANGED <<bond_storage, events>>
      BY <2>2 DEF Command
    <3>2. events = <<>> /\ main = "call" /\ button = "up"
      BY <1>4 DEF FlashWrite, MainRuns
    <3>3. todo' \in 0 .. MaxWords /\ done' + todo' + 1 = asked'
      BY <2>2, <3>1, <3>2
    <3> QED
      BY <2>2, <3>1, <3>2, <3>3
  <2> QED
    BY <1>4, <2>1, <2>2 DEF FlashWrite
<1>5. CASE FlashWriteMark
  BY <1>5 DEF FlashWriteMark, keys, call
<1>6. CASE FlashWait
  <2>1. /\ main = "wait" /\ ~flash_is_busy /\ op # "file"
        /\ main' = (IF todo = 0 THEN "idle" ELSE "call")
        /\ UNCHANGED <<button, flash_is_busy, op, events, keys, call>>
    BY <1>6 DEF FlashWait
  <2> QED
    BY <2>1 DEF keys, call
<1>7. CASE ButtonPress
  BY <1>7 DEF ButtonPress, keys, call
<1>8. CASE ButtonErase
  <2>1. CASE RefusedBusy
    BY <2>1, ResetInv DEF RefusedBusy
  <2>2. CASE Command("button") /\ button' = "mark"
             /\ UNCHANGED <<main, flash_is_busy, bond, pairing, call>>
    BY <1>8, <2>2 DEF ButtonErase, ButtonRuns, Command, call
  <2> QED
    BY <1>8, <2>1, <2>2 DEF ButtonErase
<1>9. CASE ButtonMark
  BY <1>9 DEF ButtonMark, keys, call
<1>10. CASE ButtonReset
  BY <1>10, ResetInv DEF ButtonReset
<1>11. ASSUME NEW outcome \in Outcomes, OperationEnds(outcome) PROVE IInv'
  <2>1. /\ op # "none" /\ op' = "none" /\ events' = Append(events, outcome)
        /\ UNCHANGED <<threads, flash_is_busy, bond, pairing, todo, asked>>
        /\ done' = IF op = "file" THEN done + 1 ELSE done
    BY <1>11 DEF OperationEnds
  <2>2. events' \in Seq(Outcomes)
    BY <2>1
  <2>3. bond_storage' \in KeyStates
    BY <1>11 DEF OperationEnds, Outcomes
  <2>4. done' \in 0 .. MaxWords /\ done' + todo' + 0 = asked'
    BY <2>1
  <2>5. main # "boot" /\ main' = main /\ button' = button
    BY <2>1 DEF threads
  <2> QED
    BY <2>1, <2>2, <2>3, <2>4, <2>5
<1>12. CASE FlashEventHandler
  <2>1. op = "none"
    BY <1>12 DEF FlashEventHandler
  <2>2. <<>> \in Seq(Outcomes)
    OBVIOUS
  <2>3. /\ events' = <<>> /\ flash_is_busy' = FALSE
        /\ UNCHANGED <<main, button, op, bond_storage, bond, pairing, todo, done, asked>>
    BY <1>12 DEF FlashEventHandler, threads, keys, call
  <2> QED
    BY <2>1, <2>2, <2>3
<1>13. CASE SecParamsRequest
  BY <1>13 DEF SecParamsRequest, threads, call
<1>14. CASE AuthStatus
  <2>1. CASE RefusedBusy
    BY <2>1, ResetInv DEF RefusedBusy
  <2>2. CASE Command("bond") /\ bond' = "keys" /\ pairing' = FALSE /\ flash_is_busy' = TRUE
             /\ UNCHANGED <<threads, call>>
    BY <1>14, <2>2 DEF AuthStatus, Command, threads, call
  <2> QED
    BY <1>14, <2>1, <2>2 DEF AuthStatus
<1>15. CASE PairingLost
  <2>1. pairing' = FALSE /\ UNCHANGED <<main, button, flash_is_busy, op, events, bond_storage, bond, call>>
    BY <1>15 DEF PairingLost, threads
  <2>2. UNCHANGED <<todo, done, asked>>
    BY <2>1 DEF call
  <2>3. TypeOK'
    BY <2>1, <2>2
  <2>4. OneCommand' /\ FlagIsSet' /\ OwnerIsInside' /\ WordsAddUp'
    BY <2>1, <2>2
  <2>5. QuietAtBoot'
    BY <2>1
  <2> QED
    BY <2>3, <2>4, <2>5
<1>16. CASE WatchdogReset
  BY <1>16, ResetInv DEF WatchdogReset
<1>17. CASE UNCHANGED vars
  BY <1>17 DEF vars, threads, keys, call
<1> QED
  BY <1>1, <1>2, <1>3, <1>4, <1>5, <1>6, <1>7, <1>8, <1>9, <1>10, <1>11, <1>12,
     <1>13, <1>14, <1>15, <1>16, <1>17
     DEF Next, MainStep, ButtonStep, SoftDevice, Pairing

(* Type correctness.                                                       *)
THEOREM TypeCorrect == Spec => []TypeOK
<1>1. IInv => TypeOK
  BY DEF IInv
<1> QED
  BY <1>1, InitInv, NextInv, PTL DEF Spec

(* A call of littlefs returns only when each of its words was dealt with,  *)
(* and no command of its own is under way outside of the call.             *)
THEOREM WaitsForItsOwn == Spec => []ReturnsWhenAllDone
<1>1. IInv => ReturnsWhenAllDone
  BY DEF IInv, TypeOK, OwnerIsInside, WordsAddUp, ReturnsWhenAllDone
<1> QED
  BY <1>1, InitInv, NextInv, PTL DEF Spec

(* The button's own reset comes after the end of its erase.                *)
THEOREM ButtonWaits == Spec => ButtonWaitsForErase
<1>1. ASSUME IInv, Next, button = "wait", button' = "up", ~pairing
      PROVE  op # "button"
  <2>1. CASE ButtonReset
    BY <1>1, <2>1 DEF ButtonReset, IInv, FlagIsSet
  <2>2. CASE WatchdogReset
    BY <2>2 DEF WatchdogReset, Stuck
  <2>3. CASE AuthStatus
    BY <1>1, <2>3 DEF AuthStatus
  <2>4. CASE MainStep
    BY <1>1, <2>4 DEF MainStep, BlockCall, FlashWrite, FlashWriteMark, FlashWait, MainRuns
  <2>5. CASE ButtonPress \/ ButtonErase \/ ButtonMark
    BY <1>1, <2>5 DEF ButtonPress, ButtonErase, ButtonMark
  <2>6. CASE FactoryReset \/ BluetoothSetup
    BY <1>1, <2>6 DEF FactoryReset, BluetoothSetup, threads
  <2>7. CASE SoftDevice
    BY <1>1, <2>7 DEF SoftDevice, OperationEnds, FlashEventHandler, threads
  <2>8. CASE SecParamsRequest \/ PairingLost
    BY <1>1, <2>8 DEF SecParamsRequest, PairingLost, threads
  <2> QED
    BY <1>1, <2>1, <2>2, <2>3, <2>4, <2>5, <2>6, <2>7, <2>8 DEF Next, ButtonStep, Pairing
<1>2. IInv /\ [Next]_vars =>
        [button = "wait" /\ button' = "up" /\ ~pairing => op # "button"]_vars
  BY <1>1
<1> QED
  BY <1>2, InitInv, NextInv, PTL DEF Spec, ButtonWaitsForErase

-----------------------------------------------------------------------------
(* BootSafety.                                                             *)

(* What the four-bit counter does: a write of the upper half reads back,   *)
(* and leaves a byte a byte.                                               *)
LEMMA CounterReadsBack ==
  ASSUME NEW r \in Byte, NEW n \in 0 .. 15
  PROVE  /\ WithCounter(r, n) \in Byte
         /\ BootCounter(WithCounter(r, n)) = n
<1>1. (n * 16) % 256 = n * 16
  OBVIOUS
<1>2. r % 16 \in 0 .. 15
  BY DEF Byte
<1>3. WithCounter(r, n) = (r % 16) + n * 16
  BY <1>1 DEF WithCounter
<1>4. ((r % 16) + n * 16) \div 16 = n
  BY <1>2
<1> QED
  BY <1>2, <1>3, <1>4 DEF Byte, BootCounter

(* A counter read from a byte is a number of four bits.                    *)
LEMMA CounterIsSmall ==
  ASSUME NEW r \in Byte
  PROVE  BootCounter(r) \in 0 .. 15
BY DEF Byte, BootCounter

-----------------------------------------------------------------------------
(* Type correctness: the registers stay bytes, the counter stays within    *)
(* its limit.                                                              *)
LEMMA BootTypeInit == BootInit => BootTypeOK
<1> SUFFICES ASSUME BootInit PROVE BootTypeOK
  OBVIOUS
<1>1. BootCounter(gpregret2) = 0
  BY DEF BootInit, BootCounter
<1>2. BootCounter(gpregret2) <= MaxBootAttempts
  BY <1>1, BootAssumption
<1>3. bootloader \in BOOLEAN /\ place \in Places /\ reason \in Reasons
      /\ dog \in BOOLEAN /\ app \in {"works", "faulty"}
  BY DEF BootInit, Places, Reasons
<1>4. gpregret \in Byte /\ gpregret2 \in Byte
  BY DEF BootInit, Byte
<1>5. losses \in 0 .. MaxPowerLosses /\ starts \in 0 .. MaxBootAttempts + 1
  BY BootAssumption DEF BootInit
<1>6. cutShort \in BOOLEAN
  BY DEF BootInit
<1> QED
  BY <1>2, <1>3, <1>4, <1>5, <1>6 DEF BootTypeOK

LEMMA BootTypeNext == BootTypeOK /\ [BootNext]_bootVars => BootTypeOK'
<1> SUFFICES ASSUME BootTypeOK, [BootNext]_bootVars PROVE BootTypeOK'
  OBVIOUS
<1> USE BootAssumption DEF BootTypeOK, Places, Reasons
<1>0. 0 \in Byte /\ BootCounter(0) = 0 /\ DfuFlag \in Byte
  BY DEF Byte, BootCounter, DfuFlag
<1>1. OneMore(starts) \in 0 .. MaxBootAttempts + 1
  BY DEF OneMore
<1>2. CASE EnterDfu
  BY <1>2, <1>0 DEF EnterDfu, history
<1>3. CASE StartApp
  BY <1>3, <1>1 DEF StartApp, registers
<1>4. CASE DfuEnds
  BY <1>4 DEF DfuEnds, registers
<1>5. CASE CheckWatchdog
  BY <1>5 DEF CheckWatchdog, history
<1>6. CASE CountBoot
  <2> DEFINE counter == BootCounter(gpregret2)
  <2>1. counter \in 0 .. 15
    BY CounterIsSmall
  <2>2. CASE counter >= MaxBootAttempts
    <3>1. gpregret2' = WithCounter(gpregret2, 0)
      BY <1>6, <2>2 DEF CountBoot
    <3> QED
      BY <1>6, <2>1, <2>2, <3>1, CounterReadsBack DEF CountBoot
  <2>3. CASE ~(counter >= MaxBootAttempts)
    <3>1. gpregret2' = WithCounter(gpregret2, counter + 1)
      BY <1>6, <2>3 DEF CountBoot
    <3>2. counter + 1 \in 0 .. 15 /\ counter + 1 <= MaxBootAttempts
      BY <2>1, <2>3
    <3> QED
      BY <1>6, <2>3, <3>1, <3>2, CounterReadsBack DEF CountBoot
  <2> QED
    BY <2>2, <2>3
<1>7. CASE CountBootAfterFlag
  <2>1. gpregret2' = WithCounter(gpregret2, 1)
    BY <1>7 DEF CountBootAfterFlag
  <2> QED
    BY <1>0, <1>7, <2>1, CounterReadsBack DEF CountBootAfterFlag
<1>8. CASE EnterDfuMode
  BY <1>8, <1>0 DEF EnterDfuMode, history
<1>9. CASE ReachRepl
  BY <1>9 DEF ReachRepl, registers, history
<1>10. CASE SoftReset
  BY <1>10, <1>1 DEF SoftReset, BootEnds, registers
<1>11. CASE WatchdogBites
  <2>1. gpregret2' = 0 => BootCounter(gpregret2') = 0
    BY DEF BootCounter
  <2> QED
    BY <1>11, <1>0, <1>1, <2>1 DEF WatchdogBites, BootEnds
<1>12. CASE LuaUpdate
  BY <1>12, <1>0 DEF LuaUpdate
<1>13. CASE Shutdown
  BY <1>13 DEF Shutdown, BootEnds
<1>14. CASE WakeUp
  BY <1>14 DEF WakeUp, registers, history
<1>15. CASE PowerLoss
  <2>1. BootCounter(gpregret2') = 0
    BY <1>15 DEF PowerLoss, BootCounter
  <2>2. losses' \in 0 .. MaxPowerLosses
    BY <1>15 DEF PowerLoss
  <2>3. 0 \in 0 .. MaxBootAttempts + 1 /\ 0 <= MaxBootAttempts
    OBVIOUS
  <2> QED
    BY <1>15, <1>0, <2>1, <2>2, <2>3 DEF PowerLoss, BootEnds
<1>16. CASE UNCHANGED bootVars
  BY <1>16 DEF bootVars, registers, history
<1> QED
  BY <1>2, <1>3, <1>4, <1>5, <1>6, <1>7, <1>8, <1>9, <1>10, <1>11, <1>12,
     <1>13, <1>14, <1>15, <1>16 DEF BootNext, BootStep

THEOREM BootTypeCorrect == BootSpec => []BootTypeOK
<1> QED
  BY BootTypeInit, BootTypeNext, PTL DEF BootSpec

-----------------------------------------------------------------------------
(* The inductive invariant.  DFU mode is due while the watchdog bit or the *)
(* flag is set; in between, on the way from the one to the other, the      *)
(* program is in enter_dfu_mode().  When it is not due, the counter has    *)
(* kept up with the starts, of which the current one is counted in         *)
(* CountBoot.                                                              *)
DfuDue == \/ place = "reset" /\ (dog \/ gpregret = DfuFlag)
          \/ place = "boot_safety" /\ (dog \/ gpregret = DfuFlag)
          \/ place = "count" /\ gpregret = DfuFlag
          \/ place \in {"enter_dfu", "dfu"}

KeptUp ==
  ~DfuDue => /\ reason = "none"
             /\ starts <= BootCounter(gpregret2) + (IF place \in {"boot_safety", "count"} THEN 1 ELSE 0)

RegistersAtRest ==
  /\ gpregret \in {0, DfuFlag}
  /\ place \in {"setup", "repl", "off", "count", "enter_dfu", "dfu"} => ~dog
  /\ place \in {"setup", "repl", "off", "dfu"} => gpregret = 0
  /\ dog => gpregret = 0

CounterKeepsUp == BootTypeOK /\ KeptUp /\ RegistersAtRest

LEMMA KeepsUpInit == BootInit => CounterKeepsUp
BY BootTypeInit DEF BootInit, CounterKeepsUp, KeptUp, RegistersAtRest, DfuDue, DfuFlag, BootCounter

LEMMA KeepsUpNext == CounterKeepsUp /\ [BootNext]_bootVars => CounterKeepsUp'
<1> SUFFICES ASSUME CounterKeepsUp, [BootNext]_bootVars PROVE KeptUp' /\ RegistersAtRest'
  BY BootTypeNext DEF CounterKeepsUp
<1> USE BootAssumption DEF CounterKeepsUp, KeptUp, RegistersAtRest, DfuDue, Started
<1>0. /\ BootCounter(gpregret2) \in 0 .. 15 /\ gpregret2 \in Byte
      /\ BootCounter(gpregret2) \in Nat
      /\ starts \in 0 .. MaxBootAttempts + 1
      /\ DfuFlag # 0 /\ BootCounter(0) = 0
  BY CounterIsSmall DEF BootTypeOK, DfuFlag, BootCounter
<1>1. OneMore(starts) \in Nat /\ OneMore(starts) <= starts + 1
  BY <1>0 DEF OneMore
<1>2. CASE EnterDfu
  <2>1. place' = "dfu" /\ gpregret' = 0 /\ dog' = dog /\ place = "reset" /\ gpregret = DfuFlag
    BY <1>2 DEF EnterDfu
  <2> QED
    BY <1>0, <2>1
<1>3. CASE StartApp
  <2>1. /\ place = "reset" /\ place' = "boot_safety" /\ starts' = OneMore(starts)
        /\ UNCHANGED <<gpregret, dog, reason>>
        /\ BootCounter(gpregret2') = BootCounter(gpregret2)
    BY <1>3 DEF StartApp, registers
  <2> QED
    BY <1>0, <1>1, <2>1
<1>4. CASE DfuEnds
  <2>1. /\ place = "dfu" /\ place' = "reset" /\ starts' = 0 /\ reason' = "none"
        /\ UNCHANGED <<gpregret, dog>>
        /\ BootCounter(gpregret2') = BootCounter(gpregret2)
    BY <1>4 DEF DfuEnds, registers
  <2> QED
    BY <1>0, <2>1
<1>5. CASE CheckWatchdog
  BY <1>5, <1>0 DEF CheckWatchdog, history
<1>6. CASE CountBoot
  <2> DEFINE counter == BootCounter(gpregret2)
  <2>2. CASE counter >= MaxBootAttempts
    BY <1>6, <2>2 DEF CountBoot
  <2>3. CASE ~(counter >= MaxBootAttempts)
    <3>1. gpregret2' = WithCounter(gpregret2, counter + 1)
      BY <1>6, <2>3 DEF CountBoot
    <3>2. counter + 1 \in 0 .. 15
      BY <1>0, <2>3
    <3>3. BootCounter(gpregret2') = counter + 1
      BY <1>0, <3>1, <3>2, CounterReadsBack
    <3>4. /\ place = "count" /\ place' = "setup" /\ gpregret # DfuFlag
          /\ UNCHANGED <<gpregret, dog, starts, reason>>
      BY <1>6, <2>3 DEF CountBoot
    <3>5. starts' <= BootCounter(gpregret2') + 0
      BY <1>0, <3>3, <3>4
    <3> QED
      BY <3>4, <3>5
  <2> QED
    BY <2>2, <2>3
<1>7. CASE CountBootAfterFlag
  <2>1. gpregret2' = WithCounter(gpregret2, 1)
    BY <1>7 DEF CountBootAfterFlag
  <2>2. BootCounter(gpregret2') = 1
    BY <1>0, <2>1, CounterReadsBack
  <2>3. /\ place = "count" /\ place' = "setup" /\ starts' = 1 /\ reason' = "none"
        /\ gpregret' = 0 /\ dog' = dog
    BY <1>7 DEF CountBootAfterFlag
  <2>4. starts' <= BootCounter(gpregret2') + 0
    <3>1. BootCounter(gpregret2') + 0 = 1
      BY <2>2
    <3> QED
      BY <2>3, <3>1
  <2> QED
    BY <2>3, <2>4
<1>8. CASE EnterDfuMode
  BY <1>8 DEF EnterDfuMode, history
<1>9. CASE ReachRepl
  BY <1>9, <1>0 DEF ReachRepl, registers, history
<1>10. CASE SoftReset
  BY <1>10, <1>0 DEF SoftReset, registers
<1>11. CASE WatchdogBites
  BY <1>11 DEF WatchdogBites
<1>12. CASE LuaUpdate
  BY <1>12 DEF LuaUpdate
<1>13. CASE Shutdown
  BY <1>13, <1>0 DEF Shutdown, BootEnds
<1>14. CASE WakeUp
  BY <1>14, <1>0 DEF WakeUp, registers, history
<1>15. CASE PowerLoss
  <2>1. BootCounter(gpregret2') = 0
    BY <1>15 DEF PowerLoss, BootCounter
  <2> QED
    BY <1>15, <1>0, <2>1 DEF PowerLoss
<1>16. CASE UNCHANGED bootVars
  BY <1>16 DEF bootVars, registers, history
<1> QED
  BY <1>2, <1>3, <1>4, <1>5, <1>6, <1>7, <1>8, <1>9, <1>10, <1>11, <1>12,
     <1>13, <1>14, <1>15, <1>16 DEF BootNext, BootStep

(* At most MAX_BOOT_ATTEMPTS starts between two visits to DFU mode.        *)
THEOREM AttemptsBounded == BootSpec => []AttemptsAreBounded
<1>1. CounterKeepsUp => AttemptsAreBounded
  <2> SUFFICES ASSUME CounterKeepsUp, Started PROVE starts <= MaxBootAttempts
    BY DEF AttemptsAreBounded
  <2>1. BootCounter(gpregret2) \in 0 .. 15 /\ BootCounter(gpregret2) <= MaxBootAttempts
    BY CounterIsSmall DEF CounterKeepsUp, BootTypeOK
  <2>2. starts <= BootCounter(gpregret2)
    BY <2>1 DEF CounterKeepsUp, KeptUp, DfuDue, Started, BootTypeOK
  <2> QED
    BY <2>1, <2>2, BootAssumption DEF CounterKeepsUp, BootTypeOK
<1> QED
  BY <1>1, KeepsUpInit, KeepsUpNext, PTL DEF BootSpec

(* DFU mode comes before the next setup of the hardware once it is due.    *)
THEOREM DfuComesBeforeSetup == BootSpec => []DfuComesFirst
<1>1. CounterKeepsUp => DfuComesFirst
  BY DEF CounterKeepsUp, KeptUp, DfuDue, DfuComesFirst, Started
<1> QED
  BY <1>1, KeepsUpInit, KeepsUpNext, PTL DEF BootSpec
=============================================================================
