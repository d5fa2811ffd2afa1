------------------------------- MODULE PowerDown -------------------------------
(***************************************************************************)
(* Power of the glasses: hardware_setup(), set_power_rails() and           *)
(* shutdown() of main.c, which the main thread calls (at the start and for *)
(* frame.sleep()) and the interrupt of the case detect pin, over whatever  *)
(* the main thread is doing on the I2C bus.  Rails and accelerometer keep  *)
(* their state over a reset, and set-up begins with what it left.          *)
(*                                                                         *)
(* The case is the environment: it moves the pin and starts and stops to   *)
(* charge as it likes.                                                     *)
(***************************************************************************)
EXTENDS Naturals, Sequences

CONSTANT MaxResets   \* bound on the resets that this module does not explain
ASSUME ResetsAssumption == MaxResets \in Nat

VARIABLES
  pin,            \* CASE_DETECT_PIN is high
  charging,       \* STAT_CHG_B of the PMIC
  pressed,        \* pin was low while charging, since the start
  awake,          \* not in system off mode
  main,           \* the steps of the set-up to come; <<>> while Lua runs
  case_detect_pin,\* as hardware_setup() read it
  transfer,       \* the main thread is in a transfer on the I2C bus
  armed,          \* the trigger of the pin is enabled
  debounce,       \* shutdown() waits, and returns after that
  shutting,       \* the steps of shutdown() to come
  enable_imu_wakeup,
  stay_awake,
  rails,          \* those that are on
  softdevice,
  accelerometer,  \* out of standby
  resets

vars == <<pin, charging, pressed, awake, main, case_detect_pin, transfer, armed, debounce, shutting,
          enable_imu_wakeup, stay_awake, rails, softdevice, accelerometer, resets>>
case   == <<pin, charging, pressed>>
thread == <<main, case_detect_pin, transfer>>
irq    == <<armed, debounce, shutting, enable_imu_wakeup>>
chips  == <<rails, softdevice, accelerometer>>

-----------------------------------------------------------------------------
Order == <<"SBB0", "LDO0", "LDO1", "SBB2">>

Do(what) == [do |-> what]

(* Mutant: off in the order of on.                                         *)
SetPowerRailsForward(enable) ==
  [i \in 1 .. 4 |-> [do |-> IF enable THEN "on" ELSE "off", rail |-> Order[i]]]

SetPowerRails(enable) ==
  [i \in 1 .. 4 |-> IF enable THEN [do |-> "on", rail |-> Order[i]]
                              ELSE [do |-> "off", rail |-> Order[5 - i]]]

(* Mutant: the PMIC is configured after the rails are on.                  *)
HardwareSetupSwapped ==
  SetPowerRails(TRUE) \o SetPowerRails(FALSE) \o <<Do("pin"), Do("check"), Do("arm")>>
    \o <<Do("softdevice"), Do("imu"), Do("lua")>>

(* Up to the start of the script main.lua.                                 *)
HardwareSetup ==
  SetPowerRails(FALSE) \o <<Do("pin"), Do("check"), Do("arm")>> \o SetPowerRails(TRUE)
    \o <<Do("softdevice"), Do("imu"), Do("lua")>>

(* Mutant: the accelerometer is left on.                                   *)
ShutdownWithTap(wakeup) == <<Do("disable")>> \o SetPowerRails(FALSE) \o <<Do("system_off")>>

Shutdown(wakeup) ==
  (IF wakeup THEN <<>> ELSE <<Do("standby")>>)
    \o <<Do("disable")>> \o SetPowerRails(FALSE) \o <<Do("system_off")>>

(* What a step does to the chips.                                          *)
RailsAfter(step) ==
  CASE step.do = "on"  -> rails \cup {step.rail}
    [] step.do = "off" -> rails \ {step.rail}
    [] OTHER -> rails

AccelerometerAfter(step) ==
  CASE step.do = "imu"     -> TRUE
    [] step.do = "standby" -> FALSE
    [] OTHER -> accelerometer

-----------------------------------------------------------------------------
Start ==
  /\ main' = HardwareSetup /\ case_detect_pin' = FALSE /\ transfer' = FALSE
  /\ armed' = FALSE /\ debounce' = FALSE /\ shutting' = <<>> /\ enable_imu_wakeup' = FALSE
  /\ awake' = TRUE /\ stay_awake' = FALSE /\ softdevice' = FALSE

Init ==
  /\ pin \in BOOLEAN /\ charging \in BOOLEAN /\ pressed = (charging /\ ~pin)
  /\ main = HardwareSetup /\ case_detect_pin = FALSE /\ transfer = FALSE
  /\ armed = FALSE /\ debounce = FALSE /\ shutting = <<>> /\ enable_imu_wakeup = FALSE
  /\ awake = TRUE /\ stay_awake = FALSE
  /\ rails = {} /\ softdevice = FALSE /\ accelerometer = FALSE /\ resets = 0

(* Watchdog, an error of Lua, the button of Frame Lite, an I2C error: any  *)
(* of them may come in the middle of a write to the PMIC.                  *)
Reset ==
  /\ awake /\ resets < MaxResets /\ resets' = resets + 1
  /\ Start /\ UNCHANGED <<case, rails, accelerometer>>

-----------------------------------------------------------------------------
(* The beginning of shutdown().                                            *)
Busy == debounce \/ shutting # <<>>

(* The trigger is disabled first; a device that is to stay awake waits,    *)
(* enables it again and goes on.                                           *)
EnterShutdown(wakeup) ==
  /\ armed' = FALSE
  /\ IF stay_awake
       THEN debounce' = TRUE /\ UNCHANGED <<shutting, enable_imu_wakeup>>
       ELSE shutting' = Shutdown(wakeup) /\ enable_imu_wakeup' = wakeup /\ UNCHANGED debounce

(* Nobody sees an edge while the trigger is disabled.  The first access of *)
(* shutdown() to the bus fails if it interrupts a transfer, which may have *)
(* had its effect or not.                                                  *)
PinRises ==
  /\ ~pin /\ pin' = TRUE /\ UNCHANGED <<charging, pressed>>
  /\ \/ ~(awake /\ armed) /\ UNCHANGED <<awake, thread, irq, stay_awake, chips, resets>>
     \/ /\ awake /\ armed /\ (stay_awake \/ ~transfer)
        /\ EnterShutdown(FALSE)
        /\ UNCHANGED <<awake, thread, stay_awake, chips, resets>>
     \/ /\ awake /\ armed /\ ~stay_awake /\ transfer
        /\ \/ UNCHANGED <<rails, accelerometer>>
           \/ /\ main # <<>> /\ rails' = RailsAfter(Head(main))
              /\ accelerometer' = AccelerometerAfter(Head(main))
        /\ Start /\ UNCHANGED resets

PinFalls ==
  /\ pin /\ pin' = FALSE /\ pressed' = (pressed \/ charging)
  /\ UNCHANGED <<charging, awake, thread, irq, stay_awake, chips, resets>>

ChargerChanges ==
  /\ charging' = ~charging /\ pressed' = (pressed \/ (charging' /\ ~pin))
  /\ UNCHANGED <<pin, awake, thread, irq, stay_awake, chips, resets>>

(* Low pin or tap, as shutdown() configured their sense.                   *)
Wake ==
  /\ ~awake /\ (~pin \/ enable_imu_wakeup)
  /\ Start /\ pressed' = (charging /\ ~pin)
  /\ UNCHANGED <<pin, charging, rails, accelerometer, resets>>

-----------------------------------------------------------------------------
(* The main thread, when no interrupt is being handled.                    *)
MainRuns == awake /\ ~Busy

Begin ==
  /\ MainRuns /\ ~transfer /\ transfer' = TRUE
  /\ IF main = <<>> THEN TRUE ELSE Head(main).do \in {"on", "off", "check", "imu"}
  /\ UNCHANGED <<case, awake, main, case_detect_pin, irq, stay_awake, chips, resets>>

NextStep(what) == MainRuns /\ main # <<>> /\ Head(main).do = what /\ main' = Tail(main)

SetRail ==
  /\ \E what \in {"on", "off"} : NextStep(what)
  /\ transfer /\ transfer' = FALSE /\ rails' = RailsAfter(Head(main))
  /\ UNCHANGED <<case, awake, case_detect_pin, irq, stay_awake, softdevice, accelerometer, resets>>

ReadPin ==
  /\ NextStep("pin") /\ case_detect_pin' = pin
  /\ UNCHANGED <<case, awake, transfer, irq, stay_awake, chips, resets>>

(* Mutant: only the button is looked for.                                  *)
CheckCaseOnly ==
  /\ NextStep("check") /\ transfer /\ transfer' = FALSE
  /\ stay_awake' = (charging /\ ~case_detect_pin)
  /\ UNCHANGED <<case, awake, case_detect_pin, irq, chips, resets>>

CheckCase ==
  /\ NextStep("check") /\ transfer /\ transfer' = FALSE
  /\ IF charging /\ case_detect_pin
       THEN EnterShutdown(FALSE) /\ UNCHANGED stay_awake
       ELSE stay_awake' = charging /\ UNCHANGED irq   \* bluetooth_unpair()
  /\ UNCHANGED <<case, awake, case_detect_pin, chips, resets>>

Arm ==
  /\ NextStep("arm") /\ armed' = TRUE
  /\ UNCHANGED <<case, awake, case_detect_pin, transfer, debounce, shutting, enable_imu_wakeup,
                 stay_awake, chips, resets>>

SetUpSoftDevice ==
  /\ NextStep("softdevice") /\ softdevice' = TRUE
  /\ UNCHANGED <<case, awake, case_detect_pin, transfer, irq, stay_awake, rails, accelerometer, resets>>

OpenImuLibrary ==
  /\ NextStep("imu") /\ transfer /\ transfer' = FALSE /\ accelerometer' = AccelerometerAfter(Head(main))
  /\ UNCHANGED <<case, awake, case_detect_pin, irq, stay_awake, rails, softdevice, resets>>

(* frame.stay_awake(false), before the script main.lua.                    *)
StartMainScript ==
  /\ NextStep("lua") /\ stay_awake' = FALSE
  /\ UNCHANGED <<case, awake, case_detect_pin, transfer, irq, chips, resets>>

SetUp ==
  \/ Begin \/ SetRail \/ ReadPin \/ CheckCase \/ Arm \/ SetUpSoftDevice \/ OpenImuLibrary
  \/ StartMainScript

(* Lua: a transfer ends, frame.stay_awake(b), frame.sleep().               *)
LuaRuns == MainRuns /\ main = <<>>

EndTransfer ==
  /\ LuaRuns /\ transfer /\ transfer' = FALSE
  /\ UNCHANGED <<case, awake, main, case_detect_pin, irq, stay_awake, chips, resets>>

LuaStayAwake ==
  /\ LuaRuns /\ ~transfer /\ stay_awake' \in BOOLEAN
  /\ UNCHANGED <<case, awake, thread, irq, chips, resets>>

LuaSleep ==
  /\ LuaRuns /\ ~transfer /\ EnterShutdown(TRUE)
  /\ UNCHANGED <<case, awake, thread, stay_awake, chips, resets>>

-----------------------------------------------------------------------------
(* The rest of shutdown(), in the interrupt or in the main thread.         *)
Debounced ==
  /\ awake /\ debounce /\ debounce' = FALSE /\ armed' = TRUE
  /\ UNCHANGED <<case, awake, thread, shutting, enable_imu_wakeup, stay_awake, chips, resets>>

ShutdownStep ==
  /\ awake /\ shutting # <<>> /\ shutting' = Tail(shutting)
  /\ LET step == Head(shutting).do
     IN  /\ rails' = RailsAfter(Head(shutting))
         /\ accelerometer' = AccelerometerAfter(Head(shutting))
         /\ softdevice' = (softdevice /\ step # "disable")
         /\ awake' = (step # "system_off")
  /\ UNCHANGED <<case, thread, armed, debounce, enable_imu_wakeup, stay_awake, resets>>

Next ==
  \/ PinRises \/ PinFalls \/ ChargerChanges \/ Wake \/ Reset
  \/ SetUp \/ EndTransfer \/ LuaStayAwake \/ LuaSleep \/ Debounced \/ ShutdownStep

Spec == Init /\ [][Next]_vars

(* Neither the set-up nor shutdown() waits for anything outside.           *)
FairSpec == Spec /\ WF_vars(SetUp) /\ WF_vars(ShutdownStep) /\ WF_vars(Debounced)

-----------------------------------------------------------------------------
TypeOK ==
  /\ {pin, charging, pressed, awake, case_detect_pin, transfer, armed, debounce, enable_imu_wakeup,
      stay_awake, softdevice, accelerometer} \subseteq BOOLEAN
  /\ \E i \in 0 .. Len(HardwareSetup) : main = SubSeq(HardwareSetup, i + 1, Len(HardwareSetup))
  /\ \E wakeup \in BOOLEAN : \E i \in 0 .. Len(Shutdown(wakeup)) :
       shutting = SubSeq(Shutdown(wakeup), i + 1, Len(Shutdown(wakeup)))
  /\ (Busy => ~armed) /\ (debounce => shutting = <<>>) /\ (shutting # <<>> => ~transfer)
  /\ rails \in SUBSET {Order[i] : i \in 1 .. 4} /\ resets \in 0 .. MaxResets

(* The order of the rails holds at every moment, whatever was interrupted  *)
(* or reset half-way: no rail is on while one before it is off.            *)
RailsAreNested ==
  \A i, j \in 1 .. 4 : i < j /\ Order[j] \in rails => Order[i] \in rails

(* Asleep, the device draws nothing that shutdown() is meant to stop.      *)
AsleepMeansOff ==
  ~awake => rails = {} /\ ~softdevice /\ (accelerometer => enable_imu_wakeup)

(* Lua never runs with a rail missing, nor with the device out of reach of *)
(* the case, whatever set-up, reset or debounce came before.               *)
ReadyWhenLuaRuns ==
  LuaRuns => rails = {Order[i] : i \in 1 .. 4} /\ softdevice /\ accelerometer /\ armed

(* A device that is docked before its set-up looks, or that has begun to   *)
(* shut down, is asleep in the end, also if a reset comes first.           *)
DockedSleeps ==
  (pin /\ charging /\ (shutting # <<>> \/ \E i \in DOMAIN main : main[i].do = "pin"))
    ~> (~awake \/ ~pin \/ ~charging)

(* The comment on the check: a charging device whose pin is low had its    *)
(* button pressed.  The pin is read before the charger is asked.           *)
UnpairingMeansButton ==
  [][(CheckCase /\ stay_awake') => pressed]_vars
=============================================================================
