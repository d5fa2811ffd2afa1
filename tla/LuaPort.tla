------------------------------- MODULE LuaPort -------------------------------
(***************************************************************************)
(* The Lua runtime of the firmware: run_lua() of luaport.c on the main     *)
(* thread, and the interrupt handlers that reach into it.                  *)
(*                                                                         *)
(* The handlers of SD_EVT_IRQHandler (bluetooth.c) and of the IMU pin      *)
(* (lua_libraries/imu.c) preempt the main thread between any two of its    *)
(* steps and run to completion, so each of them is one action.  They talk  *)
(* to the main thread through three pieces of shared memory:               *)
(*   - repl_buffer, the one slot for a line of Lua or the reset byte 0x04; *)
(*   - L_global->hook, the one Lua debug hook, which every handler         *)
(*     overwrites and which the VM calls at its next instruction;          *)
(*   - lua_bluetooth_callback.data, the one buffer for a raw data packet.  *)
(* The main thread is sequential; pc is its place in run_lua() and hpc its *)
(* place in the hook handler it is inside of, if any.                      *)
(***************************************************************************)
EXTENDS Naturals, Sequences

CONSTANTS
  Signals,       \* what the outside world does: a subset of AllSignals
  MaxSignals,    \* bound on the number of signals in a behaviour
  MaxRefs,       \* bound on luaL_ref() calls in one Lua state
  ScriptsCatch,  \* may a script catch an error with its own pcall()
  Unregisters,   \* may a script replace a callback by nil
  Paced          \* does the host send data only when the last was processed

AllSignals == {"source", "not_lua", "empty", "reset", "break", "data", "tap"}

ASSUME SignalsAssumption ==
  /\ Signals \subseteq AllSignals
  /\ MaxSignals \in Nat
  /\ MaxRefs \in Nat \ {0}
  /\ ScriptsCatch \in BOOLEAN
  /\ Unregisters \in BOOLEAN
  /\ Paced \in BOOLEAN

VARIABLES
  pc,           \* where the main thread is in run_lua()
  hpc,          \* where it is in a hook handler; "none" means allowhook = 1
  hook,         \* L_global->hook
  cur,          \* the hook being handled
  repl_buffer,  \* the text in the slot, and its byte 0
  local_repl_buffer,  \* the copy the REPL loop is executing
  inta,         \* level of the IMU interrupt line
  data,         \* lua_bluetooth_callback.data, as its two halves
  arg,          \* the two halves lua_pushlstring() has copied so far
  registry,     \* the functions luaL_ref() stored in this Lua state
  dataRef,      \* lua_bluetooth_callback.function
  tapRef,       \* lua_imu_callback_function
  callee,       \* what lua_rawgeti() found for the callback being run
  sent, ran,    \* history: REPL writes so far; those executed, in order
  count,        \* history: signals and handlings of each kind so far
  delivered,    \* history: the arguments of the data callbacks, in order
  dangling      \* history: a hook was stored through a closed lua_State

mainVars == <<pc, hpc, cur>>
replVars == <<repl_buffer, local_repl_buffer, sent, ran>>
dataVars == <<data, arg, delivered>>
refVars  == <<registry, dataRef, tapRef, callee>>
vars == <<mainVars, hook, replVars, inta, dataVars, refVars, count, dangling>>

(* First bytes of a line, by what the program does with them, which are    *)
(* also the kinds of signal that bring them.                               *)
Empty  == "empty"    \* 0: a write of nothing, or of a first byte 0
EOT    == "reset"    \* 0x04
NotLua == "not_lua"  \* that of a line that does not compile
Text   == "source"   \* that of any other line
FirstBytes == {Empty, EOT, NotLua, Text}

Hooks  == {"watchdog", "break", "data", "tap"}
Places == {"stdlibs", "libs", "main_lua", "tap_demo", "splash",
           "check_reset", "clear_reset", "check_source", "take", "command",
           "idle", "close", "closed", "crashed"}
HookPlaces == {"none", "entered", "raise", "copy", "copy2", "clear", "callback"}

(* Places where the Lua VM executes instructions or calls, so where a hook *)
(* can fire.  All but the first run under luaL_dostring()'s lua_pcall().   *)
InLua == {"stdlibs", "main_lua", "tap_demo", "splash", "command", "idle"}

(* Lua of the user's, as opposed to chunks the firmware itself contains;   *)
(* UserChunk is where there is any: a line may be empty, or not compile.   *)
UserLua == {"main_lua", "command"}
UserChunk == pc \in UserLua /\ (pc = "command" => local_repl_buffer.byte0 = Text)

(* A slot run_lua() has emptied holds the text of no write.                *)
NoText == [id |-> 0, byte0 |-> Empty]
NoRef  == [ref |-> 0, old |-> FALSE]

Kinds == {"signal", "break", "data", "tap", "broken", "tapped"}
-----------------------------------------------------------------------------
(* A boot, with the first Lua state made and its standard libraries open.  *)
(* Advertising began an instant ago and the IMU is not configured, so      *)
(* nobody can have sent a signal before; the static variables are zero.    *)
Init ==
  /\ pc = "libs" /\ hpc = "none" /\ cur = "watchdog"
  /\ hook = "watchdog"
  /\ repl_buffer = NoText /\ local_repl_buffer = NoText
  /\ inta = FALSE
  /\ data = <<0, 0>> /\ arg = <<0, 0>>
  /\ registry = <<>> /\ dataRef = NoRef /\ tapRef = NoRef /\ callee = "nil"
  /\ sent = 0 /\ ran = <<>> /\ delivered = <<>>
  /\ count = [k \in Kinds |-> 0]
  /\ dangling = FALSE

-----------------------------------------------------------------------------
(* Interrupt handlers.                                                     *)

(* lua_sethook(L_global, ...).  Between lua_close() and the next           *)
(* luaL_newstate(), L_global still points at the freed state.              *)
SetHook(h) ==
  IF pc = "closed"
    THEN dangling' = TRUE /\ UNCHANGED hook
    ELSE hook' = h /\ UNCHANGED dangling

Signal(kind) ==
  /\ kind \in Signals
  /\ count.signal < MaxSignals
  /\ pc # "crashed"

Counted(ks) == count' = [k \in Kinds |-> IF k \in ks THEN count[k] + 1 ELSE count[k]]

(* A write to the REPL characteristic that is neither data nor a break:    *)
(* lua_write_to_repl() copies it over whatever the slot holds.  An empty   *)
(* one leaves a slot the REPL finds empty.                                 *)
LuaWriteToRepl(byte0) ==
  /\ Signal(byte0)
  /\ sent' = sent + 1
  /\ repl_buffer' = [id |-> sent', byte0 |-> byte0]
  /\ Counted({"signal"})
  /\ UNCHANGED <<mainVars, hook, local_repl_buffer, ran, inta, dataVars, refVars, dangling>>

LuaBreakSignalInterrupt ==
  /\ Signal("break")
  /\ SetHook("break")
  /\ Counted({"signal", "break"})
  /\ UNCHANGED <<mainVars, replVars, inta, dataVars, refVars>>

(* The last data packet has been handled, and no other is pending.         *)
DataSettled == hook # "data" /\ (cur # "data" \/ hpc = "none")

(* The packet is thrown away when no function is registered.               *)
LuaBluetoothDataInterrupt ==
  /\ Signal("data")
  /\ Paced => DataSettled
  /\ IF dataRef.ref = 0
        THEN /\ Counted({"signal"})
             /\ UNCHANGED <<hook, data, dangling>>
        ELSE /\ Counted({"signal", "data"})
             /\ data' = <<count'.data, count'.data>>
             /\ SetHook("data")
  /\ UNCHANGED <<mainVars, replVars, inta, arg, delivered, refVars>>

(* A rising edge of INTA.  The line stays high until the status register   *)
(* of the accelerometer is read, so until then there is no other edge.     *)
ImuTapInterrupt ==
  /\ Signal("tap")
  /\ ~inta
  /\ inta' = TRUE
  /\ SetHook("tap")
  /\ Counted({"signal", "tap"})
  /\ UNCHANGED <<mainVars, replVars, dataVars, refVars>>

-----------------------------------------------------------------------------
(* Chunks of Lua on the main thread, and the hook handlers they run.       *)

AfterChunk ==
  [stdlibs  |-> "libs",        main_lua |-> "tap_demo",   tap_demo |-> "splash",
   splash   |-> "check_reset", command  |-> "check_reset", idle    |-> "check_reset"]

(* An error in the unprotected calls is a Lua panic; one in the splash     *)
(* screen makes show_pairing_screen() call error(): both reset the chip.   *)
AfterError == [AfterChunk EXCEPT !.stdlibs = "crashed", !.splash = "crashed"]

(* luaL_dostring() fails without executing a line that does not compile,   *)
(* as a lone 0x04 does not; an empty line is a chunk like any other.       *)
Executing ==
  pc \in InLua /\ (pc = "command" => local_repl_buffer.byte0 \in {Empty, Text})

(* The VM checks the hook on every call and return, so a chunk that is     *)
(* executed cannot end before a pending hook was called.                   *)
MayEnd == hpc = "none" /\ (Executing => hook = "watchdog")

EndChunk ==
  /\ pc \in InLua \ {"tap_demo"} /\ MayEnd
  /\ pc' = AfterChunk[pc]
  /\ UNCHANGED <<hpc, cur, hook, replVars, inta, dataVars, refVars, count, dangling>>

(* The chunk that installs the double-tap demo of the VWW_RGB build.       *)
InstallTapDemo ==
  /\ pc = "tap_demo" /\ MayEnd
  /\ registry' = Append(registry, "tap")
  /\ tapRef' = [ref |-> Len(registry'), old |-> FALSE]
  /\ pc' = AfterChunk[pc]
  /\ UNCHANGED <<hpc, cur, hook, replVars, inta, dataVars, dataRef, callee, count, dangling>>

(* luaD_hook(): the VM reads the hook, and calls it with allowhook = 0.    *)
FireHook ==
  /\ Executing /\ hpc = "none"
  /\ hook # "watchdog"
  /\ cur' = hook /\ hpc' = "entered"
  /\ UNCHANGED <<pc, hook, replVars, inta, dataVars, refVars, count, dangling>>

AfterSethook == [break |-> "raise", data |-> "copy", tap |-> "clear"]

(* Mutant: the handler starts on its work with its own hook still set.     *)
SethookMissing ==
  /\ hpc = "entered"
  /\ hpc' = AfterSethook[cur]
  /\ UNCHANGED <<pc, cur, hook, replVars, inta, dataVars, refVars, count, dangling>>

(* sethook_watchdog(L), the first thing each of the three handlers does.   *)
SethookWatchdog ==
  /\ hpc = "entered"
  /\ hook' = "watchdog"
  /\ hpc' = AfterSethook[cur]
  /\ UNCHANGED <<pc, cur, replVars, inta, dataVars, refVars, count, dangling>>

(* Mutant: unwinding leaves allowhook at 0.                                *)
LuaLErrorKeepsHooksOff ==
  /\ UNCHANGED <<cur, hpc>>
  /\ \/ pc' = AfterError[pc]
     \/ ScriptsCatch /\ UserChunk /\ UNCHANGED pc

(* luaL_error(): unwinds to the pcall() of the script, if it has one, or   *)
(* to that of the chunk.                                                   *)
LuaLError ==
  /\ hpc' = "none" /\ UNCHANGED cur
  /\ \/ pc' = AfterError[pc]
     \/ ScriptsCatch /\ UserChunk /\ UNCHANGED pc

(* Mutant: the break handler returns instead of raising an error.          *)
BreakHandlerReturns ==
  /\ hpc = "raise" /\ hpc' = "none"
  /\ Counted({"broken"})
  /\ UNCHANGED <<pc, cur, hook, replVars, inta, dataVars, refVars, dangling>>

LuaBreakSignalHandler ==
  /\ hpc = "raise"
  /\ LuaLError
  /\ Counted({"broken"})
  /\ UNCHANGED <<hook, replVars, inta, dataVars, refVars, dangling>>

Lookup(r) == IF r.ref \in DOMAIN registry THEN registry[r.ref] ELSE "nil"

(* lua_rawgeti(), then lua_pushlstring() copies the packet, which the      *)
(* interrupt handler may replace half-way through.                         *)
PushFirstHalf ==
  /\ hpc = "copy"
  /\ callee' = Lookup(dataRef)
  /\ arg' = <<data[1], 0>>
  /\ hpc' = "copy2"
  /\ UNCHANGED <<pc, cur, hook, replVars, inta, data, delivered, registry, dataRef, tapRef, count, dangling>>

PushSecondHalf ==
  /\ hpc = "copy2"
  /\ arg' = [arg EXCEPT ![2] = data[2]]
  /\ delivered' = IF callee = "data" THEN Append(delivered, arg') ELSE delivered
  /\ hpc' = "callback"
  /\ UNCHANGED <<pc, cur, hook, replVars, inta, data, refVars, count, dangling>>

(* Mutant: no callback registered, so the handler returns at once.         *)
ClearTapStatusAfterReturn ==
  /\ hpc = "clear"
  /\ inta' = (inta /\ tapRef.ref = 0)
  /\ Counted({"tapped"})
  /\ hpc' = IF tapRef.ref = 0 THEN "none" ELSE "callback"
  /\ callee' = IF tapRef.ref = 0 THEN callee ELSE Lookup(tapRef)
  /\ UNCHANGED <<pc, cur, hook, replVars, dataVars, registry, dataRef, tapRef, dangling>>

(* lua_imu_tap_callback_handler(): the status read lets INTA fall.         *)
ClearTapStatus ==
  /\ hpc = "clear"
  /\ inta' = FALSE
  /\ Counted({"tapped"})
  /\ hpc' = IF tapRef.ref = 0 THEN "none" ELSE "callback"
  /\ callee' = IF tapRef.ref = 0 THEN callee ELSE Lookup(tapRef)
  /\ UNCHANGED <<pc, cur, hook, replVars, dataVars, registry, dataRef, tapRef, dangling>>

(* The callback returns, or fails; calling nil always fails.               *)
EndCallback ==
  /\ hpc = "callback"
  /\ \/ callee # "nil" /\ hpc' = "none" /\ UNCHANGED <<pc, cur>>
     \/ LuaLError
  /\ UNCHANGED <<hook, replVars, inta, dataVars, refVars, count, dangling>>

(* What the user's Lua may do to the callbacks: receive_callback() and     *)
(* tap_callback(), with a function or nil.  The old reference leaks.       *)
UserRuns == (UserChunk /\ hpc = "none") \/ (hpc = "callback" /\ callee # "nil")

LuaBluetoothReceiveCallback ==
  /\ UserRuns
  /\ \/ /\ Len(registry) < MaxRefs
        /\ registry' = Append(registry, "data")
        /\ dataRef' = [ref |-> Len(registry'), old |-> FALSE]
     \/ Unregisters /\ dataRef' = NoRef /\ UNCHANGED registry
  /\ UNCHANGED <<mainVars, hook, replVars, inta, dataVars, tapRef, callee, count, dangling>>

(* Mutant: the new reference is stored for the other callback.             *)
TapCallbackStoredAsData ==
  /\ UserRuns
  /\ Len(registry) < MaxRefs
  /\ registry' = Append(registry, "tap")
  /\ dataRef' = [ref |-> Len(registry'), old |-> FALSE]
  /\ UNCHANGED <<mainVars, hook, replVars, inta, dataVars, tapRef, callee, count, dangling>>

LuaImuTapCallback ==
  /\ UserRuns
  /\ \/ /\ Len(registry) < MaxRefs
        /\ registry' = Append(registry, "tap")
        /\ tapRef' = [ref |-> Len(registry'), old |-> FALSE]
     \/ Unregisters /\ tapRef' = NoRef /\ UNCHANGED registry
  /\ UNCHANGED <<mainVars, hook, replVars, inta, dataVars, dataRef, callee, count, dangling>>

-----------------------------------------------------------------------------
(* run_lua() between the chunks.                                           *)

Goto(from, to) == pc = from /\ pc' = to /\ UNCHANGED <<hpc, cur>>

(* The frame library.  Opening the IMU part reads the status register, so  *)
(* it clears a tap nobody handled.  No Lua runs here, so no hook fires.    *)
OpenLibraries ==
  /\ Goto("libs", "main_lua")
  /\ inta' = FALSE
  /\ UNCHANGED <<hook, replVars, dataVars, refVars, count, dangling>>

(* if (repl_buffer[0] == 0x04)                                             *)
CheckReset ==
  /\ Goto("check_reset", IF repl_buffer.byte0 = EOT THEN "clear_reset" ELSE "check_source")
  /\ UNCHANGED <<hook, replVars, inta, dataVars, refVars, count, dangling>>

ClearReset ==
  /\ Goto("clear_reset", "close")
  /\ repl_buffer' = NoText
  /\ UNCHANGED <<hook, local_repl_buffer, sent, ran, inta, dataVars, refVars, count, dangling>>

(* Mutants: the copy is tested, which is stale; and nothing is.            *)
CheckStaleSource ==
  /\ Goto("check_source", IF local_repl_buffer.byte0 # Empty THEN "take" ELSE "idle")
  /\ UNCHANGED <<hook, replVars, inta, dataVars, refVars, count, dangling>>

CheckNoSource ==
  /\ Goto("check_source", "take")
  /\ UNCHANGED <<hook, replVars, inta, dataVars, refVars, count, dangling>>

(* if (repl_buffer[0] != 0), a second read of the volatile byte.           *)
CheckSource ==
  /\ Goto("check_source", IF repl_buffer.byte0 # Empty THEN "take" ELSE "idle")
  /\ UNCHANGED <<hook, replVars, inta, dataVars, refVars, count, dangling>>

(* Mutant: the slot is not emptied.                                        *)
TakeCommandKeepsByte0 ==
  /\ Goto("take", "command")
  /\ local_repl_buffer' = repl_buffer
  /\ ran' = Append(ran, repl_buffer.id)
  /\ UNCHANGED <<hook, repl_buffer, sent, inta, dataVars, refVars, count, dangling>>

(* The copy, with the SoftDevice interrupt disabled around it.  A write    *)
(* since the test is what it takes, an empty one too.                      *)
TakeCommand ==
  /\ Goto("take", "command")
  /\ local_repl_buffer' = repl_buffer
  /\ repl_buffer' = NoText
  /\ ran' = Append(ran, repl_buffer.id)
  /\ UNCHANGED <<hook, sent, inta, dataVars, refVars, count, dangling>>

LuaClose ==
  /\ Goto("close", "closed")
  /\ UNCHANGED <<hook, replVars, inta, dataVars, refVars, count, dangling>>

Aged(r) == [r EXCEPT !.old = (r.ref # 0)]

(* main() calls run_lua() again: luaL_newstate(), L_global = L, and the    *)
(* watchdog hook.  The registry is empty; the callback structs keep their  *)
(* references.                                                             *)
NewState ==
  /\ Goto("closed", "stdlibs")
  /\ hook' = "watchdog"
  /\ registry' = <<>> /\ dataRef' = Aged(dataRef) /\ tapRef' = Aged(tapRef)
  /\ UNCHANGED <<callee, replVars, inta, dataVars, count, dangling>>

(* error() and a Lua panic end in a system reset; RAM is initialised anew. *)
Reboot ==
  /\ Goto("crashed", "libs")
  /\ hook' = "watchdog"
  /\ repl_buffer' = NoText /\ local_repl_buffer' = NoText
  /\ data' = <<0, 0>>
  /\ registry' = <<>> /\ dataRef' = NoRef /\ tapRef' = NoRef
  /\ UNCHANGED <<sent, ran, inta, arg, delivered, callee, count, dangling>>

-----------------------------------------------------------------------------
Interrupt ==
  \/ \E b \in FirstBytes : LuaWriteToRepl(b)
  \/ LuaBreakSignalInterrupt
  \/ LuaBluetoothDataInterrupt
  \/ ImuTapInterrupt

HookStep ==
  \/ SethookWatchdog \/ LuaBreakSignalHandler
  \/ PushFirstHalf \/ PushSecondHalf \/ ClearTapStatus

User == LuaBluetoothReceiveCallback \/ LuaImuTapCallback

LoopStep ==
  \/ OpenLibraries \/ CheckReset \/ ClearReset \/ CheckSource \/ TakeCommand
  \/ LuaClose \/ NewState \/ Reboot

Next == Interrupt \/ FireHook \/ HookStep \/ EndCallback \/ EndChunk
        \/ InstallTapDemo \/ User \/ LoopStep

Spec == Init /\ [][Next]_vars

(* The main thread is never suspended, and interrupt handlers are short,   *)
(* so every step of the firmware's own code is taken; the chunks it        *)
(* contains end, and the VM calls a pending hook.  User Lua owes nothing:  *)
(* it may loop for ever.                                                   *)
Fairness ==
  /\ WF_vars(FireHook) /\ WF_vars(HookStep)
  /\ WF_vars(LoopStep) /\ WF_vars(InstallTapDemo)
  /\ WF_vars(~UserChunk /\ EndChunk)

FairSpec == Spec /\ Fairness

(* What user Lua may owe: that its callbacks end, and its chunks.          *)
CallbacksEnd == WF_vars(EndCallback)
ScriptsEnd   == CallbacksEnd /\ WF_vars(EndChunk)

CallbacksEndSpec == FairSpec /\ CallbacksEnd

-----------------------------------------------------------------------------
TypeOK ==
  /\ pc \in Places /\ hpc \in HookPlaces /\ hook \in Hooks /\ cur \in Hooks
  /\ hpc # "none" => pc \in InLua
  /\ repl_buffer \in [id : Nat, byte0 : FirstBytes]
  /\ local_repl_buffer \in [id : Nat, byte0 : FirstBytes]
  /\ inta \in BOOLEAN /\ dangling \in BOOLEAN
  /\ data \in Nat \X Nat /\ arg \in Nat \X Nat
  /\ registry \in Seq({"data", "tap"})
  /\ dataRef \in [ref : Nat, old : BOOLEAN] /\ tapRef \in [ref : Nat, old : BOOLEAN]
  /\ callee \in {"nil", "data", "tap"}
  /\ sent \in Nat /\ ran \in Seq(Nat)
  /\ count \in [Kinds -> Nat]
  /\ delivered \in Seq(Nat \X Nat)

(* Lines of Lua are executed at most once, and in the order they were      *)
(* written, whatever the host overwrites and whenever Lua is reset.        *)
RanInOrder ==
  /\ \A i, j \in DOMAIN ran : i < j => ran[i] < ran[j]
  /\ \A i \in DOMAIN ran : ran[i] <= sent

(* One signal stops or calls at most once: re-arming the watchdog hook     *)
(* before the handler's own work makes each stored hook fire once.         *)
HookFiresOncePerSignal ==
  /\ count.broken <= count.break
  /\ count.tapped <= count.tap
  /\ Len(delivered) <= count.data

(* A callback runs the function that was registered for it, unless its     *)
(* reference was taken in a Lua state that has since been closed, or the   *)
(* script has just unregistered it.                                        *)
CalleeIsTheRegisteredFunction ==
  hpc = "copy2" => \/ callee = "data"
                   \/ dataRef.old
                   \/ dataRef = NoRef

(* A host that sends a packet only when the last one was handled or        *)
(* displaced gets each at most once, whole and in order to the callback,   *)
(* whatever breaks, taps, resets and changes of the callback come between. *)
PacedDataIsWhole ==
  Paced => /\ \A i \in DOMAIN delivered : delivered[i][1] = delivered[i][2]
           /\ \A i, j \in DOMAIN delivered : i < j => delivered[i][1] < delivered[j][1]

(* The REPL link implements the lossy mailbox, whose box holds the last    *)
(* command written and not yet taken, be it an empty one.                  *)
Mailbox == INSTANCE LossyMailbox
             WITH put <- sent, box <- repl_buffer.id, taken <- ran
MailboxSpec == Mailbox!Spec

(* A signal's hook that a handler is not about to erase: one stored while  *)
(* another handler has been called and has not yet run sethook_watchdog()  *)
(* is lost.                                                                *)
Pending(h) == hook = h /\ hpc # "entered"

(* A break ends a script that would run for ever, even one that is inside  *)
(* of a callback, unless another signal takes the hook first.              *)
BreakStopsTheScript ==
  CallbacksEnd =>
    ((pc = "command" /\ Pending("break")) ~> (pc # "command" \/ hook \in {"data", "tap"}))

(* A line in the slot does not stay there, unless it is empty: whatever    *)
(* errors, resets of Lua and reboots come first, it is taken or            *)
(* overwritten, if scripts end.                                            *)
SlotIsServed ==
  ScriptsEnd =>
    \A i \in 1 .. MaxSignals :
      (repl_buffer.id = i /\ repl_buffer.byte0 # Empty) ~> (repl_buffer.id # i)

(* A tap is acknowledged, so that the next one can raise an edge again, if *)
(* scripts end and no other signal takes the hook first.                   *)
TapLineFalls ==
  ScriptsEnd =>
    ((inta /\ Pending("tap")) ~> (~inta \/ hook \in {"break", "data"}))

(* A break ends the script, whatever else arrives.                         *)
BreakAlwaysStops ==
  (pc = "command" /\ hook = "break") ~> (pc # "command")

(* 0x04 resets Lua; it is never executed as a line of Lua.                 *)
ResetIsNotExecuted == pc = "command" => local_repl_buffer.byte0 # EOT

(* What the host sends never resets the chip or writes to a closed state.  *)
HostNeverCrashesLua == pc # "crashed" /\ ~dangling

(* Each packet the callback sees is one the host sent, once.               *)
DataIsNotRepeatedOrTorn ==
  /\ \A i \in DOMAIN delivered : delivered[i][1] = delivered[i][2]
  /\ \A i, j \in DOMAIN delivered : i < j => delivered[i] # delivered[j]
=============================================================================
