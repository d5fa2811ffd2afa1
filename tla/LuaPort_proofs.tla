---------------------------- MODULE LuaPort_proofs ----------------------------
(* Theorems about LuaPort, for any set of signals and any bounds: it is    *)
(* correctly typed; its REPL link implements the lossy mailbox, so that    *)
(* lines of Lua are executed at most once and in order; hooks fire once    *)
(* for a signal, callbacks get the function that was registered, and data  *)
(* of a host that paces itself arrive whole and in order.                  *)
EXTENDS LuaPort, TLAPS

(* Type correctness.  The conjuncts are proved in four groups, for the     *)
(* parts of the state that the actions change together.                    *)
MainType ==
  /\ pc \in Places /\ hpc \in HookPlaces /\ hook \in Hooks /\ cur \in Hooks
  /\ hpc # "none" => pc \in InLua
  /\ hpc = "entered" => cur # "watchdog"
ReplType ==
  /\ repl_buffer \in [id : Nat, byte0 : FirstBytes]
  /\ local_repl_buffer \in [id : Nat, byte0 : FirstBytes]
  /\ sent \in Nat /\ ran \in Seq(Nat)
DataType ==
  /\ inta \in BOOLEAN /\ dangling \in BOOLEAN
  /\ data \in Nat \X Nat /\ arg \in Nat \X Nat
  /\ delivered \in Seq(Nat \X Nat)
  /\ count \in [Kinds -> Nat]
RefType ==
  /\ registry \in Seq({"data", "tap"})
  /\ dataRef \in [ref : Nat, old : BOOLEAN] /\ tapRef \in [ref : Nat, old : BOOLEAN]
  /\ callee \in {"nil", "data", "tap"}

LEMMA AppendIsTyped ==
  ASSUME NEW S, NEW s \in Seq(S), NEW e \in S
  PROVE  Append(s, e) \in Seq(S)
OBVIOUS

(* Where a chunk goes on, whether it ends well or not.                     *)
LEMMA ChunksLeadOn ==
  ASSUME NEW p \in InLua
  PROVE  /\ AfterChunk[p] \in Places \ {"take", "clear_reset"}
         /\ AfterError[p] \in Places \ {"take", "clear_reset"}
<1>1. /\ DOMAIN AfterChunk = InLua
      /\ \A q \in InLua : AfterChunk[q] \in Places \ {"take", "clear_reset"}
  BY DEF AfterChunk, InLua, Places
<1> QED
  BY <1>1 DEF AfterError, Places

(* A step of the main thread leaves a hook handler or stays in Lua.        *)
LEMMA LuaErrorIsTyped ==
  ASSUME MainType, hpc # "none", LuaLError, hook' \in Hooks
  PROVE  MainType'
BY ChunksLeadOn DEF MainType, LuaLError, HookPlaces

LEMMA MainTypeNext == MainType /\ [Next]_vars => MainType'
<1> SUFFICES ASSUME MainType, [Next]_vars PROVE MainType'
  OBVIOUS
<1> USE DEF Hooks, HookPlaces, Places, InLua
<1>1. CASE Interrupt
  BY <1>1 DEF MainType, Interrupt, LuaWriteToRepl, LuaBreakSignalInterrupt,
     LuaBluetoothDataInterrupt, ImuTapInterrupt, SetHook, mainVars
<1>2. CASE FireHook
  BY <1>2 DEF MainType, FireHook, Executing
<1>3. CASE SethookWatchdog
  BY <1>3 DEF MainType, SethookWatchdog, AfterSethook
<1>4. CASE LuaBreakSignalHandler
  BY <1>4, LuaErrorIsTyped DEF MainType, LuaBreakSignalHandler
<1>5. CASE PushFirstHalf \/ PushSecondHalf \/ ClearTapStatus
  BY <1>5 DEF MainType, PushFirstHalf, PushSecondHalf, ClearTapStatus
<1>6. CASE EndCallback
  <2>1. CASE LuaLError
    BY <1>6, <2>1, LuaErrorIsTyped DEF MainType, EndCallback
  <2>2. CASE ~LuaLError
    BY <1>6, <2>2 DEF MainType, EndCallback
  <2> QED
    BY <2>1, <2>2
<1>7. CASE EndChunk
  BY <1>7 DEF MainType, EndChunk, MayEnd, AfterChunk
<1>8. CASE InstallTapDemo
  BY <1>8 DEF MainType, InstallTapDemo, MayEnd, AfterChunk
<1>9. CASE User
  BY <1>9 DEF MainType, User, LuaBluetoothReceiveCallback, LuaImuTapCallback, mainVars
<1>10. CASE LoopStep
  BY <1>10 DEF MainType, LoopStep, OpenLibraries, CheckReset, ClearReset, CheckSource,
     TakeCommand, LuaClose, NewState, Reboot, Goto
<1>11. CASE UNCHANGED vars
  BY <1>11 DEF MainType, vars, mainVars
<1> QED
  BY <1>1, <1>2, <1>3, <1>4, <1>5, <1>6, <1>7, <1>8, <1>9, <1>10, <1>11
     DEF Next, HookStep

LEMMA ReplTypeNext == ReplType /\ [Next]_vars => ReplType'
<1> SUFFICES ASSUME ReplType, [Next]_vars PROVE ReplType'
  OBVIOUS
<1> USE DEF ReplType, FirstBytes, Empty
<1>1. ASSUME NEW b \in FirstBytes, LuaWriteToRepl(b) PROVE ReplType'
  BY <1>1 DEF LuaWriteToRepl
<1>2. CASE ClearReset
  BY <1>2 DEF ClearReset, NoText
<1>3. CASE TakeCommand
  BY <1>3 DEF TakeCommand, NoText
<1>4. CASE Reboot
  BY <1>4 DEF Reboot, NoText
<1>5. CASE UNCHANGED replVars
  BY <1>5 DEF replVars
<1>6. \/ \E b \in FirstBytes : LuaWriteToRepl(b)
      \/ ClearReset \/ TakeCommand \/ Reboot \/ UNCHANGED replVars
  BY DEF Next, Interrupt, HookStep, User, LoopStep, LuaBreakSignalInterrupt,
     LuaBluetoothDataInterrupt, ImuTapInterrupt, EndChunk, InstallTapDemo,
     FireHook, SethookWatchdog, LuaBreakSignalHandler, PushFirstHalf,
     PushSecondHalf, ClearTapStatus, EndCallback, LuaBluetoothReceiveCallback,
     LuaImuTapCallback, OpenLibraries, CheckReset, CheckSource, LuaClose,
     NewState, vars
<1> QED
  BY <1>1, <1>2, <1>3, <1>4, <1>5, <1>6

LEMMA DataTypeNext == DataType /\ [Next]_vars => DataType'
<1> SUFFICES ASSUME DataType, [Next]_vars PROVE DataType'
  OBVIOUS
<1> USE DEF DataType
<1>1. ASSUME NEW ks, Counted(ks) PROVE count' \in [Kinds -> Nat]
  BY <1>1 DEF Counted
<1>2. ASSUME NEW b \in FirstBytes, LuaWriteToRepl(b) PROVE DataType'
  BY <1>1, <1>2 DEF LuaWriteToRepl, dataVars
<1>3. CASE LuaBreakSignalInterrupt
  BY <1>1, <1>3 DEF LuaBreakSignalInterrupt, SetHook, dataVars
<1>4. CASE LuaBluetoothDataInterrupt
  <2>1. count' \in [Kinds -> Nat]
    BY <1>1, <1>4 DEF LuaBluetoothDataInterrupt
  <2>2. data' \in Nat \X Nat
    BY <1>4, <2>1, SMTT(30) DEF LuaBluetoothDataInterrupt, Kinds
  <2> QED
    BY <1>4, <2>1, <2>2 DEF LuaBluetoothDataInterrupt, SetHook
<1>5. CASE ImuTapInterrupt
  BY <1>1, <1>5 DEF ImuTapInterrupt, SetHook, dataVars
<1>6. CASE LuaBreakSignalHandler
  BY <1>1, <1>6 DEF LuaBreakSignalHandler, dataVars
<1>7. CASE PushFirstHalf
  BY <1>7 DEF PushFirstHalf
<1>8. CASE PushSecondHalf
  <2>1. arg' \in Nat \X Nat
    BY <1>8 DEF PushSecondHalf
  <2>2. delivered' = delivered \/ delivered' = Append(delivered, arg')
    BY <1>8 DEF PushSecondHalf
  <2>3. delivered' \in Seq(Nat \X Nat)
    BY <2>1, <2>2, AppendIsTyped
  <2>4. UNCHANGED <<inta, dangling, data, count>>
    BY <1>8 DEF PushSecondHalf
  <2> QED
    BY <2>1, <2>3, <2>4
<1>9. CASE ClearTapStatus
  BY <1>1, <1>9 DEF ClearTapStatus, dataVars
<1>10. CASE OpenLibraries
  BY <1>10 DEF OpenLibraries, dataVars
<1>11. CASE Reboot
  BY <1>11 DEF Reboot
<1>12. CASE UNCHANGED <<inta, dangling, dataVars, count>>
  BY <1>12 DEF dataVars
<1>13. \/ \E b \in FirstBytes : LuaWriteToRepl(b)
       \/ LuaBreakSignalInterrupt \/ LuaBluetoothDataInterrupt \/ ImuTapInterrupt
       \/ LuaBreakSignalHandler \/ PushFirstHalf \/ PushSecondHalf \/ ClearTapStatus
       \/ OpenLibraries \/ Reboot \/ UNCHANGED <<inta, dangling, dataVars, count>>
  BY DEF Next, Interrupt, HookStep, User, LoopStep, EndChunk, InstallTapDemo,
     FireHook, SethookWatchdog, EndCallback, LuaBluetoothReceiveCallback,
     LuaImuTapCallback, CheckReset, ClearReset, CheckSource, TakeCommand,
     LuaClose, NewState, vars
<1> QED
  BY <1>2, <1>3, <1>4, <1>5, <1>6, <1>7, <1>8, <1>9, <1>10, <1>11, <1>12, <1>13

LEMMA RefTypeNext == RefType /\ [Next]_vars => RefType'
<1> SUFFICES ASSUME RefType, [Next]_vars PROVE RefType'
  OBVIOUS
<1> USE DEF RefType
<1>0. \A r : Lookup(r) \in {"nil", "data", "tap"}
  BY DEF Lookup
<1>1. ASSUME NEW k \in {"data", "tap"}, registry' = Append(registry, k)
      PROVE  registry' \in Seq({"data", "tap"}) /\ Len(registry') \in Nat
  BY <1>1
<1>2. CASE InstallTapDemo
  <2>1. /\ registry' = Append(registry, "tap") /\ UNCHANGED <<dataRef, callee>>
        /\ tapRef' = [ref |-> Len(registry'), old |-> FALSE]
    BY <1>2 DEF InstallTapDemo
  <2>2. registry' \in Seq({"data", "tap"}) /\ Len(registry') \in Nat
    BY <1>1, <2>1
  <2> QED
    BY <2>1, <2>2
<1>3. CASE LuaBluetoothReceiveCallback
  <2>1. UNCHANGED <<tapRef, callee>>
    BY <1>3 DEF LuaBluetoothReceiveCallback
  <2>2. CASE registry' = Append(registry, "data") /\ dataRef' = [ref |-> Len(registry'), old |-> FALSE]
    <3>1. registry' \in Seq({"data", "tap"}) /\ Len(registry') \in Nat
      BY <1>1, <2>2
    <3> QED
      BY <2>1, <2>2, <3>1
  <2>3. CASE dataRef' = NoRef /\ UNCHANGED registry
    BY <2>1, <2>3 DEF NoRef
  <2> QED
    BY <1>3, <2>2, <2>3 DEF LuaBluetoothReceiveCallback
<1>4. CASE LuaImuTapCallback
  <2>1. UNCHANGED <<dataRef, callee>>
    BY <1>4 DEF LuaImuTapCallback
  <2>2. CASE registry' = Append(registry, "tap") /\ tapRef' = [ref |-> Len(registry'), old |-> FALSE]
    <3>1. registry' \in Seq({"data", "tap"}) /\ Len(registry') \in Nat
      BY <1>1, <2>2
    <3> QED
      BY <2>1, <2>2, <3>1
  <2>3. CASE tapRef' = NoRef /\ UNCHANGED registry
    BY <2>1, <2>3 DEF NoRef
  <2> QED
    BY <1>4, <2>2, <2>3 DEF LuaImuTapCallback
<1>5. CASE PushFirstHalf
  BY <1>0, <1>5 DEF PushFirstHalf
<1>6. CASE ClearTapStatus
  BY <1>0, <1>6 DEF ClearTapStatus
<1>7. CASE NewState
  <2>1. Aged(dataRef) \in [ref : Nat, old : BOOLEAN] /\ Aged(tapRef) \in [ref : Nat, old : BOOLEAN]
    BY DEF Aged
  <2>2. registry' \in Seq({"data", "tap"})
    BY <1>7 DEF NewState
  <2> QED
    BY <1>7, <2>1, <2>2 DEF NewState
<1>8. CASE Reboot
  BY <1>8 DEF Reboot, NoRef
<1>9. CASE UNCHANGED refVars
  BY <1>9 DEF refVars
<1>10. \/ InstallTapDemo \/ LuaBluetoothReceiveCallback \/ LuaImuTapCallback
       \/ PushFirstHalf \/ ClearTapStatus \/ NewState \/ Reboot \/ UNCHANGED refVars
  BY DEF Next, Interrupt, HookStep, User, LoopStep, LuaWriteToRepl,
     LuaBreakSignalInterrupt, LuaBluetoothDataInterrupt, ImuTapInterrupt,
     EndChunk, FireHook, SethookWatchdog, LuaBreakSignalHandler, PushSecondHalf,
     EndCallback, OpenLibraries, CheckReset, ClearReset, CheckSource,
     TakeCommand, LuaClose, vars
<1> QED
  BY <1>2, <1>3, <1>4, <1>5, <1>6, <1>7, <1>8, <1>9, <1>10

Types == MainType /\ ReplType /\ DataType /\ RefType

LEMMA TypesInit == Init => Types
<1> SUFFICES ASSUME Init PROVE Types
  OBVIOUS
<1>1. MainType /\ ReplType
  BY DEF Init, MainType, ReplType, NoText, Places, HookPlaces, Hooks, FirstBytes, Empty
<1>2. DataType
  <2>1. <<0, 0>> \in Nat \X Nat /\ <<>> \in Seq(Nat \X Nat)
    OBVIOUS
  <2>2. [k \in Kinds |-> 0] \in [Kinds -> Nat]
    OBVIOUS
  <2> QED
    BY <2>1, <2>2 DEF Init, DataType
<1>3. RefType
  BY DEF Init, RefType, NoRef
<1> QED
  BY <1>1, <1>2, <1>3 DEF Types

LEMMA TypesNext == Types /\ [Next]_vars => Types'
BY MainTypeNext, ReplTypeNext, DataTypeNext, RefTypeNext DEF Types

(* Every variable keeps its type, and the processor is inside a hook       *)
(* handler only where the Lua VM runs.                                     *)
THEOREM TypeCorrect == Spec => []TypeOK
<1>1. Types => TypeOK
  BY DEF Types, MainType, ReplType, DataType, RefType, TypeOK
<1> QED
  BY <1>1, TypesInit, TypesNext, PTL DEF Spec

-----------------------------------------------------------------------------
(* Where run_lua() empties the slot there is a command in it that was not  *)
(* yet taken: it saw a first byte that is not 0, and since then only an    *)
(* interrupt handler wrote, whose command, be it empty, is a new one.      *)
SlotIsFull ==
  /\ pc \in {"take", "clear_reset"} => repl_buffer.id # 0
  /\ repl_buffer.byte0 # Empty => repl_buffer.id # 0

LEMMA SlotInit == Init => SlotIsFull
BY DEF Init, SlotIsFull, NoText

LEMMA SlotNext == Types /\ SlotIsFull /\ [Next]_vars => SlotIsFull'
<1> SUFFICES ASSUME Types, SlotIsFull, [Next]_vars PROVE SlotIsFull'
  OBVIOUS
<1> USE DEF SlotIsFull, Types, ReplType, FirstBytes, Empty, EOT
<1>1. ASSUME NEW b \in FirstBytes, LuaWriteToRepl(b) PROVE SlotIsFull'
  BY <1>1 DEF LuaWriteToRepl
<1>2. CASE CheckReset \/ ClearReset \/ CheckSource \/ TakeCommand
  BY <1>2 DEF CheckReset, ClearReset, CheckSource, TakeCommand, Goto, replVars, NoText
<1>3. CASE Reboot
  BY <1>3 DEF Reboot, Goto, NoText
<1>4. CASE UNCHANGED repl_buffer /\ (pc' = pc \/ pc' \notin {"take", "clear_reset"})
  BY <1>4
<1>5. CASE EndChunk \/ InstallTapDemo \/ LuaBreakSignalHandler \/ EndCallback
  <2>1. pc \in InLua
    BY <1>5 DEF EndChunk, InstallTapDemo, LuaBreakSignalHandler, EndCallback, MainType, InLua
  <2>2. UNCHANGED repl_buffer /\ pc' \in {pc, AfterChunk[pc], AfterError[pc]}
    BY <1>5 DEF EndChunk, InstallTapDemo, LuaBreakSignalHandler, EndCallback, LuaLError, replVars
  <2> QED
    BY <1>4, <2>1, <2>2, ChunksLeadOn
<1>6. CASE OpenLibraries \/ LuaClose \/ NewState
  BY <1>4, <1>6 DEF OpenLibraries, LuaClose, NewState, Goto, replVars
<1>7. \/ \E b \in FirstBytes : LuaWriteToRepl(b)
      \/ CheckReset \/ ClearReset \/ CheckSource \/ TakeCommand \/ Reboot
      \/ EndChunk \/ InstallTapDemo \/ LuaBreakSignalHandler \/ EndCallback
      \/ OpenLibraries \/ LuaClose \/ NewState
      \/ UNCHANGED <<repl_buffer, pc>>
  BY DEF Next, Interrupt, HookStep, User, LoopStep, LuaBreakSignalInterrupt,
     LuaBluetoothDataInterrupt, ImuTapInterrupt, FireHook, SethookWatchdog,
     PushFirstHalf, PushSecondHalf, ClearTapStatus, LuaBluetoothReceiveCallback,
     LuaImuTapCallback, vars, replVars, mainVars
<1> QED
  BY <1>1, <1>2, <1>3, <1>4, <1>5, <1>6, <1>7

LEMMA StepIsMailboxStep ==
  ASSUME Types, SlotIsFull, [Next]_vars
  PROVE  [Mailbox!Next]_(Mailbox!vars)
<1> USE DEF Types, ReplType
<1>1. ASSUME NEW b \in FirstBytes, LuaWriteToRepl(b) PROVE Mailbox!Put
  BY <1>1 DEF LuaWriteToRepl, Mailbox!Put
<1>2. CASE TakeCommand
  <2>1. repl_buffer.id # 0 /\ repl_buffer'.id = 0
    BY <1>2 DEF TakeCommand, Goto, SlotIsFull, NoText
  <2> QED
    BY <1>2, <2>1 DEF TakeCommand, Mailbox!Next, Mailbox!Take
<1>3. CASE ClearReset
  <2>1. repl_buffer.id # 0 /\ repl_buffer'.id = 0
    BY <1>3 DEF ClearReset, Goto, SlotIsFull, NoText
  <2> QED
    BY <1>3, <2>1 DEF ClearReset, Mailbox!Next, Mailbox!Drop
<1>4. CASE Reboot
  <2>1. repl_buffer'.id = 0 /\ UNCHANGED <<sent, ran>>
    BY <1>4 DEF Reboot, NoText
  <2> QED
    BY <2>1 DEF Mailbox!Next, Mailbox!Drop, Mailbox!vars
<1>5. CASE UNCHANGED replVars
  BY <1>5 DEF replVars, Mailbox!vars
<1>6. \/ \E b \in FirstBytes : LuaWriteToRepl(b)
      \/ ClearReset \/ TakeCommand \/ Reboot \/ UNCHANGED replVars
  BY DEF Next, Interrupt, HookStep, User, LoopStep, LuaBreakSignalInterrupt,
     LuaBluetoothDataInterrupt, ImuTapInterrupt, EndChunk, InstallTapDemo,
     FireHook, SethookWatchdog, LuaBreakSignalHandler, PushFirstHalf,
     PushSecondHalf, ClearTapStatus, EndCallback, LuaBluetoothReceiveCallback,
     LuaImuTapCallback, OpenLibraries, CheckReset, CheckSource, LuaClose,
     NewState, vars
<1> QED
  BY <1>1, <1>2, <1>3, <1>4, <1>5, <1>6 DEF Mailbox!Next

(* The REPL link implements the lossy mailbox: every write, an empty one   *)
(* too, is a Put, the copy in run_lua() a Take, whatever was written since *)
(* its test, a reset or a reboot a Drop.                                   *)
THEOREM ImplementsMailbox == Spec => MailboxSpec
<1>1. Init => Mailbox!Init
  BY DEF Init, Mailbox!Init, NoText
<1> QED
  BY <1>1, TypesInit, TypesNext, SlotInit, SlotNext, StepIsMailboxStep, PTL
     DEF Spec, MailboxSpec, Mailbox!Spec

-----------------------------------------------------------------------------
(* The mailbox keeps its promise: whatever is in the slot is newer than    *)
(* all that was taken.                                                     *)
Slot == repl_buffer.id

MailboxInv ==
  /\ sent \in Nat /\ Slot \in Nat /\ ran \in Seq(Nat)
  /\ Mailbox!TakenInOrder
  /\ Slot # 0 => Slot <= sent /\ \A i \in DOMAIN ran : ran[i] < Slot

LEMMA MailboxInit == Mailbox!Init => MailboxInv
BY DEF Mailbox!Init, MailboxInv, Slot, Mailbox!TakenInOrder

LEMMA MailboxNext == MailboxInv /\ [Mailbox!Next]_(Mailbox!vars) => MailboxInv'
<1> SUFFICES ASSUME MailboxInv, [Mailbox!Next]_(Mailbox!vars) PROVE MailboxInv'
  OBVIOUS
<1>0. \/ sent' = sent + 1 /\ Slot' = sent' /\ ran' = ran
      \/ Slot # 0 /\ Slot' = 0 /\ ran' = Append(ran, Slot) /\ sent' = sent
      \/ Slot # 0 /\ Slot' = 0 /\ ran' = ran /\ sent' = sent
      \/ UNCHANGED <<sent, Slot, ran>>
  BY DEF Mailbox!Next, Mailbox!Put, Mailbox!Take, Mailbox!Drop, Mailbox!vars, Slot
<1> USE DEF MailboxInv, Mailbox!TakenInOrder
<1> HIDE DEF Slot
<1>1. CASE sent' = sent + 1 /\ Slot' = sent' /\ ran' = ran
  BY <1>1
<1>2. CASE Slot # 0 /\ Slot' = 0 /\ ran' = Append(ran, Slot) /\ sent' = sent
  <2>1. /\ DOMAIN ran' = 1 .. Len(ran) + 1
        /\ ran'[Len(ran) + 1] = Slot
        /\ \A i \in 1 .. Len(ran) : ran'[i] = ran[i]
    BY <1>2
  <2> QED
    BY <1>2, <2>1
<1>3. CASE Slot' = 0 /\ ran' = ran /\ sent' = sent
  BY <1>3
<1>4. CASE UNCHANGED <<sent, Slot, ran>>
  BY <1>4
<1> QED
  BY <1>0, <1>1, <1>2, <1>3, <1>4

(* No command is taken twice, or before an older one.                      *)
THEOREM MailboxInOrder == MailboxSpec => []Mailbox!TakenInOrder
<1>1. MailboxInv => Mailbox!TakenInOrder
  BY DEF MailboxInv
<1> QED
  BY <1>1, MailboxInit, MailboxNext, PTL DEF MailboxSpec, Mailbox!Spec

(* So a line of Lua is executed at most once, and never after a newer one. *)
THEOREM RunsInOrder == Spec => []RanInOrder
<1>1. Mailbox!TakenInOrder => RanInOrder
  BY DEF Mailbox!TakenInOrder, RanInOrder
<1> QED
  BY <1>1, MailboxInOrder, ImplementsMailbox, PTL

-----------------------------------------------------------------------------
(* Inside of a hook handler, the place tells which handler it is.          *)
CalledFrom ==
  /\ hpc = "raise" => cur = "break"
  /\ hpc \in {"copy", "copy2"} => cur = "data"
  /\ hpc = "clear" => cur = "tap"

LEMMA CalledFromInit == Init => CalledFrom
BY DEF Init, CalledFrom

LEMMA CalledFromNext == MainType /\ CalledFrom /\ [Next]_vars => CalledFrom'
<1> SUFFICES ASSUME MainType, CalledFrom, [Next]_vars PROVE CalledFrom'
  OBVIOUS
<1> USE DEF CalledFrom
<1>1. CASE FireHook \/ LuaBreakSignalHandler \/ EndCallback
  BY <1>1 DEF FireHook, LuaBreakSignalHandler, EndCallback, LuaLError
<1>2. CASE SethookWatchdog
  BY <1>2 DEF SethookWatchdog, AfterSethook, MainType, Hooks
<1>3. CASE PushFirstHalf \/ PushSecondHalf \/ ClearTapStatus
  BY <1>3 DEF PushFirstHalf, PushSecondHalf, ClearTapStatus
<1>4. CASE UNCHANGED <<hpc, cur>>
  BY <1>4
<1> QED
  BY <1>1, <1>2, <1>3, <1>4
     DEF Next, Interrupt, HookStep, User, LoopStep, LuaWriteToRepl, LuaBreakSignalInterrupt,
         LuaBluetoothDataInterrupt, ImuTapInterrupt, EndChunk, InstallTapDemo,
         LuaBluetoothReceiveCallback, LuaImuTapCallback, OpenLibraries, CheckReset,
         ClearReset, CheckSource, TakeCommand, LuaClose, NewState, Reboot, Goto, vars, mainVars

(* A hook that is stored, and one whose handler has not done its work, are *)
(* signals that are not yet spent; a hook stored between the call of a     *)
(* handler and its sethook_watchdog() is lost, and counts for nothing.     *)
Counts == {"break", "tap", "data"}
Working(h) == cur = h /\ hpc \in {"entered", "raise", "copy", "copy2", "clear"}
Unspent(h) ==
  (IF hook = h /\ hpc # "entered" THEN 1 ELSE 0) + (IF Working(h) THEN 1 ELSE 0)
Spent(h) ==
  IF h = "break" THEN count.broken ELSE IF h = "tap" THEN count.tapped ELSE Len(delivered)
SignalsAreCounted == \A h \in Counts : Spent(h) + Unspent(h) <= count[h]

LEMMA CountedInit == Init => SignalsAreCounted
BY DEF Init, SignalsAreCounted, Counts, Spent, Unspent, Working, Kinds

LEMMA CountedNext ==
  ASSUME Types, CalledFrom, SignalsAreCounted, [Next]_vars, NEW h \in Counts
  PROVE  Spent(h)' + Unspent(h)' <= count'[h]
<1>1. /\ count \in [Kinds -> Nat] /\ delivered \in Seq(Nat \X Nat) /\ hook \in Hooks /\ cur \in Hooks
  BY DEF Types, DataType, MainType
<1>2. Spent(h) \in Nat /\ Unspent(h) \in Nat /\ count[h] \in Nat /\ Unspent(h)' \in Nat
  BY <1>1 DEF Spent, Unspent, Counts, Kinds
<1>3. Spent(h) + Unspent(h) <= count[h]
  BY DEF SignalsAreCounted
(* A signal comes, and is counted.                                         *)
<1>4. ASSUME NEW ks, Counted(ks), "broken" \notin ks, "tapped" \notin ks, UNCHANGED delivered
      PROVE  Spent(h)' = Spent(h) /\ count'[h] = IF h \in ks THEN count[h] + 1 ELSE count[h]
  BY <1>4, <1>1 DEF Counted, Spent, Counts, Kinds
<1>5. ASSUME Spent(h)' = Spent(h), count'[h] = count[h], Unspent(h)' <= Unspent(h)
      PROVE  Spent(h)' + Unspent(h)' <= count'[h]
  BY <1>2, <1>3, <1>5
<1>6. ASSUME Spent(h)' = Spent(h), count'[h] = count[h] + 1, Unspent(h)' <= Unspent(h) + 1
      PROVE  Spent(h)' + Unspent(h)' <= count'[h]
  BY <1>2, <1>3, <1>6
<1>7. ASSUME Spent(h)' \in Spent(h) .. Spent(h) + 1, count'[h] = count[h], Unspent(h)' + 1 <= Unspent(h)
      PROVE  Spent(h)' + Unspent(h)' <= count'[h]
  BY <1>2, <1>3, <1>7
<1>11. CASE \E b \in FirstBytes : LuaWriteToRepl(b)
  <2>1. Counted({"signal"}) /\ UNCHANGED <<hpc, cur, hook, delivered>>
    BY <1>11 DEF LuaWriteToRepl, mainVars, dataVars
  <2>2. Spent(h)' = Spent(h) /\ count'[h] = count[h]
    BY <1>4, <2>1 DEF Counts
  <2>3. Unspent(h)' = Unspent(h)
    BY <2>1 DEF Unspent, Working
  <2> QED
    BY <1>2, <1>5, <2>2, <2>3
<1>12. ASSUME NEW k \in Counts, Counted({"signal", k}), UNCHANGED <<hpc, cur, delivered>>, hook' \in {hook, k}
       PROVE  Spent(h)' + Unspent(h)' <= count'[h]
  <2>1. Spent(h)' = Spent(h) /\ count'[h] = IF h = k THEN count[h] + 1 ELSE count[h]
    BY <1>4, <1>12 DEF Counts
  <2>2. Unspent(h)' <= IF h = k THEN Unspent(h) + 1 ELSE Unspent(h)
    BY <1>12 DEF Unspent, Working
  <2> QED
    BY <1>2, <1>5, <1>6, <2>1, <2>2
<1>13. CASE LuaBreakSignalInterrupt
  BY <1>12, <1>13 DEF LuaBreakSignalInterrupt, SetHook, mainVars, dataVars, Counts
<1>14. CASE LuaBluetoothDataInterrupt
  <2>1. UNCHANGED <<hpc, cur, delivered>>
    BY <1>14 DEF LuaBluetoothDataInterrupt, mainVars
  <2>2. CASE Counted({"signal", "data"}) /\ hook' \in {hook, "data"}
    BY <1>12, <2>1, <2>2 DEF Counts
  <2>3. CASE Counted({"signal"}) /\ UNCHANGED hook
    <3>1. Spent(h)' = Spent(h) /\ count'[h] = count[h]
      BY <1>4, <2>1, <2>3 DEF Counts
    <3>2. Unspent(h)' = Unspent(h)
      BY <2>1, <2>3 DEF Unspent, Working
    <3> QED
      BY <1>2, <1>5, <3>1, <3>2
  <2> QED
    BY <1>14, <2>2, <2>3 DEF LuaBluetoothDataInterrupt, SetHook
<1>15. CASE ImuTapInterrupt
  BY <1>12, <1>15 DEF ImuTapInterrupt, SetHook, mainVars, dataVars, Counts
(* A handler is called, and does its work.                                 *)
<1>16. ASSUME UNCHANGED <<count, delivered>>, Unspent(h)' <= Unspent(h)
       PROVE  Spent(h)' + Unspent(h)' <= count'[h]
  BY <1>5, <1>16 DEF Spent
<1>17. CASE FireHook
  <2>1. Unspent(h)' <= Unspent(h)
    BY <1>17 DEF FireHook, Unspent, Working
  <2> QED
    BY <1>16, <1>17, <2>1 DEF FireHook, dataVars
<1>18. CASE SethookWatchdog
  <2>1. Unspent(h)' <= Unspent(h)
    BY <1>18 DEF SethookWatchdog, Unspent, Working, Counts
  <2> QED
    BY <1>16, <1>18, <2>1 DEF SethookWatchdog, dataVars
<1>19. CASE LuaBreakSignalHandler
  <2>1. /\ Counted({"broken"}) /\ hpc = "raise" /\ hpc' = "none" /\ cur = "break"
        /\ UNCHANGED <<cur, hook, delivered>>
    BY <1>19 DEF LuaBreakSignalHandler, LuaLError, CalledFrom, dataVars
  <2>2. /\ count'[h] = count[h]
        /\ Spent(h)' = IF h = "break" THEN Spent(h) + 1 ELSE Spent(h)
    BY <1>1, <2>1 DEF Counted, Spent, Counts, Kinds
  <2>3. IF h = "break" THEN Unspent(h)' + 1 <= Unspent(h) ELSE Unspent(h)' <= Unspent(h)
    BY <2>1 DEF Unspent, Working
  <2> QED
    BY <1>2, <1>5, <1>7, <2>2, <2>3
<1>20. CASE PushFirstHalf
  <2>1. Unspent(h)' <= Unspent(h)
    BY <1>20 DEF PushFirstHalf, Unspent, Working
  <2> QED
    BY <1>16, <1>20, <2>1 DEF PushFirstHalf
<1>21. CASE PushSecondHalf
  <2>1. /\ hpc = "copy2" /\ hpc' = "callback" /\ cur = "data" /\ UNCHANGED <<cur, hook, count>>
        /\ delivered' \in {delivered, Append(delivered, arg')}
    BY <1>21 DEF PushSecondHalf, CalledFrom
  <2>2. Len(delivered') \in Len(delivered) .. Len(delivered) + 1
    BY <1>1, <2>1
  <2>3. Spent(h)' \in IF h = "data" THEN Spent(h) .. Spent(h) + 1 ELSE {Spent(h)}
    BY <2>1, <2>2 DEF Spent, Counts
  <2>4. IF h = "data" THEN Unspent(h)' + 1 <= Unspent(h) ELSE Unspent(h)' <= Unspent(h)
    BY <2>1 DEF Unspent, Working
  <2> QED
    BY <1>2, <1>5, <1>7, <2>1, <2>3, <2>4
<1>22. CASE ClearTapStatus
  <2>1. /\ Counted({"tapped"}) /\ hpc = "clear" /\ hpc' \in {"none", "callback"} /\ cur = "tap"
        /\ UNCHANGED <<cur, hook, delivered>>
    BY <1>22 DEF ClearTapStatus, CalledFrom, dataVars
  <2>2. /\ count'[h] = count[h]
        /\ Spent(h)' = IF h = "tap" THEN Spent(h) + 1 ELSE Spent(h)
    BY <1>1, <2>1 DEF Counted, Spent, Counts, Kinds
  <2>3. IF h = "tap" THEN Unspent(h)' + 1 <= Unspent(h) ELSE Unspent(h)' <= Unspent(h)
    BY <2>1 DEF Unspent, Working
  <2> QED
    BY <1>2, <1>5, <1>7, <2>2, <2>3
<1>23. CASE EndCallback
  <2>1. hpc = "callback" /\ hpc' = "none" /\ UNCHANGED <<cur, hook, delivered, count>>
    BY <1>23 DEF EndCallback, LuaLError, dataVars
  <2> QED
    BY <1>2, <1>16, <2>1 DEF Unspent, Working
<1>24. CASE NewState \/ Reboot
  <2>1. hook' = "watchdog" /\ UNCHANGED <<hpc, cur, delivered, count>>
    BY <1>24 DEF NewState, Reboot, Goto, dataVars
  <2>2. Unspent(h)' <= Unspent(h)
    BY <2>1 DEF Unspent, Working, Counts
  <2> QED
    BY <1>16, <2>1, <2>2
<1>25. CASE UNCHANGED <<hpc, cur, hook, delivered, count>>
  BY <1>2, <1>16, <1>25 DEF Unspent, Working
<1> QED
  BY <1>11, <1>13, <1>14, <1>15, <1>17, <1>18, <1>19, <1>20, <1>21, <1>22, <1>23, <1>24, <1>25
     DEF Next, Interrupt, HookStep, User, LoopStep, EndChunk, InstallTapDemo,
         LuaBluetoothReceiveCallback, LuaImuTapCallback, OpenLibraries, CheckReset,
         ClearReset, CheckSource, TakeCommand, LuaClose, Goto, vars, mainVars, dataVars

(* A signal stops a script or calls a function at most once.               *)
THEOREM SignalsActOnce == Spec => []HookFiresOncePerSignal
<1>1. Types /\ SignalsAreCounted => HookFiresOncePerSignal
  <2> SUFFICES ASSUME Types, SignalsAreCounted PROVE HookFiresOncePerSignal
    OBVIOUS
  <2>1. /\ count \in [Kinds -> Nat] /\ Len(delivered) \in Nat
    BY DEF Types, DataType
  <2>2. ASSUME NEW h \in Counts PROVE Spent(h) <= count[h]
    <3>1. Spent(h) \in Nat /\ Unspent(h) \in Nat /\ count[h] \in Nat
      BY <2>1 DEF Spent, Unspent, Counts, Kinds
    <3> QED
      BY <3>1 DEF SignalsAreCounted
  <2> QED
    BY <2>2 DEF Counts, Spent, HookFiresOncePerSignal
<1>2. Types => MainType
  BY DEF Types
<1>3. Types /\ CalledFrom /\ SignalsAreCounted /\ [Next]_vars => SignalsAreCounted'
  BY CountedNext DEF SignalsAreCounted
<1> QED
  BY <1>1, <1>2, <1>3, TypesInit, TypesNext, CalledFromInit, CalledFromNext, CountedInit, PTL DEF Spec

-----------------------------------------------------------------------------
(* A reference is none, or was taken in a Lua state that is closed, or is  *)
(* that of a function that was registered for it.  While a packet is being *)
(* copied, no Lua runs that could change the one that was looked up.       *)
IsCurrent(r, what) ==
  \/ r = NoRef
  \/ r.old /\ r.ref # 0
  \/ ~r.old /\ r.ref \in DOMAIN registry /\ registry[r.ref] = what
RefsAreCurrent ==
  /\ IsCurrent(dataRef, "data")
  /\ hpc = "copy2" => callee = Lookup(dataRef)

LEMMA RefsInit == Init => RefsAreCurrent
BY DEF Init, RefsAreCurrent, IsCurrent

LEMMA RefsNext == Types /\ RefsAreCurrent /\ [Next]_vars => RefsAreCurrent'
<1> SUFFICES ASSUME Types, RefsAreCurrent, [Next]_vars PROVE RefsAreCurrent'
  OBVIOUS
<1>1. registry \in Seq({"data", "tap"}) /\ dataRef \in [ref : Nat, old : BOOLEAN]
  BY DEF Types, RefType
<1>2. ASSUME NEW k \in {"data", "tap"}, registry' = Append(registry, k)
      PROVE  /\ Len(registry') \in DOMAIN registry' /\ registry'[Len(registry')] = k
             /\ \A i \in DOMAIN registry : i \in DOMAIN registry' /\ registry'[i] = registry[i]
  BY <1>1, <1>2
<1>3. ASSUME NEW k \in {"data", "tap"}, registry' = Append(registry, k), UNCHANGED dataRef, hpc' # "copy2"
      PROVE  RefsAreCurrent'
  BY <1>2, <1>3 DEF RefsAreCurrent, IsCurrent
<1>4. CASE InstallTapDemo
  BY <1>3, <1>4 DEF InstallTapDemo, MayEnd
<1>5. CASE LuaBluetoothReceiveCallback
  <2>1. hpc' # "copy2"
    BY <1>5 DEF LuaBluetoothReceiveCallback, UserRuns, mainVars
  <2>2. CASE dataRef' = NoRef
    BY <2>1, <2>2 DEF RefsAreCurrent, IsCurrent
  <2>3. CASE registry' = Append(registry, "data") /\ dataRef' = [ref |-> Len(registry'), old |-> FALSE]
    <3>1. Len(registry') \in DOMAIN registry' /\ registry'[Len(registry')] = "data"
      BY <1>2, <2>3
    <3> QED
      BY <2>1, <2>3, <3>1 DEF RefsAreCurrent, IsCurrent
  <2> QED
    BY <1>5, <2>2, <2>3 DEF LuaBluetoothReceiveCallback
<1>6. CASE LuaImuTapCallback
  <2>1. UNCHANGED dataRef /\ hpc' # "copy2"
    BY <1>6 DEF LuaImuTapCallback, UserRuns, mainVars
  <2>2. CASE UNCHANGED registry
    BY <2>1, <2>2 DEF RefsAreCurrent, IsCurrent
  <2> QED
    BY <1>3, <1>6, <2>1, <2>2 DEF LuaImuTapCallback
<1>7. CASE PushFirstHalf
  BY <1>7 DEF PushFirstHalf, RefsAreCurrent, IsCurrent, Lookup
<1>8. CASE NewState
  <2>1. hpc' # "copy2" /\ dataRef' = Aged(dataRef)
    BY <1>8 DEF NewState, Goto, Types, MainType, InLua
  <2>2. Aged(dataRef) = NoRef \/ (Aged(dataRef).old /\ Aged(dataRef).ref # 0)
    <3>1. CASE dataRef.ref # 0
      BY <1>1, <3>1 DEF Aged
    <3>2. CASE dataRef.ref = 0
      <4>1. ~dataRef.old
        BY <1>1, <3>2 DEF RefsAreCurrent, IsCurrent, NoRef
      <4> QED
        BY <1>1, <3>2, <4>1 DEF Aged, NoRef
    <3> QED
      BY <3>1, <3>2
  <2> QED
    BY <2>1, <2>2 DEF RefsAreCurrent, IsCurrent
<1>9. CASE Reboot
  BY <1>9 DEF Reboot, Goto, Types, MainType, InLua, RefsAreCurrent, IsCurrent
<1>10. CASE hpc' # "copy2" /\ UNCHANGED <<registry, dataRef>>
  BY <1>10 DEF RefsAreCurrent, IsCurrent
<1>11. CASE UNCHANGED <<hpc, callee, registry, dataRef>>
  BY <1>11 DEF RefsAreCurrent, IsCurrent, Lookup
<1>12. CASE FireHook \/ SethookWatchdog \/ LuaBreakSignalHandler \/ PushSecondHalf \/ ClearTapStatus \/ EndCallback
  <2>1. UNCHANGED <<registry, dataRef>>
    BY <1>12 DEF FireHook, SethookWatchdog, LuaBreakSignalHandler, PushSecondHalf, ClearTapStatus,
       EndCallback, refVars
  <2>2. hpc' # "copy2"
    BY <1>12 DEF FireHook, SethookWatchdog, LuaBreakSignalHandler, PushSecondHalf, ClearTapStatus,
       EndCallback, LuaLError, AfterSethook, Types, MainType, Hooks
  <2> QED
    BY <1>10, <2>1, <2>2
<1> QED
  BY <1>4, <1>5, <1>6, <1>7, <1>8, <1>9, <1>11, <1>12
     DEF Next, Interrupt, HookStep, User, LoopStep, LuaWriteToRepl, LuaBreakSignalInterrupt,
         LuaBluetoothDataInterrupt, ImuTapInterrupt, EndChunk, OpenLibraries, CheckReset,
         ClearReset, CheckSource, TakeCommand, LuaClose, Goto, vars, mainVars, refVars

(* A packet is given to the function that was registered for it, unless    *)
(* the reference is from a closed Lua state or there is none.              *)
THEOREM RightCallee == Spec => []CalleeIsTheRegisteredFunction
<1>1. RefsAreCurrent => CalleeIsTheRegisteredFunction
  BY DEF RefsAreCurrent, IsCurrent, Lookup, CalleeIsTheRegisteredFunction
<1> QED
  BY <1>1, TypesInit, TypesNext, RefsInit, RefsNext, PTL DEF Spec

-----------------------------------------------------------------------------
(* With a paced host, the packet in the buffer is whole, and newer than    *)
(* all that were delivered, as long as it is to be read; it is not         *)
(* replaced while a handler of data is at work.                            *)
ToBeRead == hook = "data" \/ (cur = "data" /\ hpc \in {"entered", "copy", "copy2"})
DeliveredBelow(n) == \A i \in DOMAIN delivered : delivered[i][1] < n
PacketIsKept ==
  /\ data[1] = data[2] /\ data[1] <= count.data
  /\ hpc = "copy2" => arg[1] = data[1]
  /\ hook = "data" => ~(cur = "data" /\ hpc \in {"copy", "copy2", "callback"})
  /\ DeliveredBelow(count.data + 1)
  /\ ToBeRead => DeliveredBelow(data[1])
  /\ \A i \in DOMAIN delivered : delivered[i][1] = delivered[i][2]
  /\ \A i, j \in DOMAIN delivered : i < j => delivered[i][1] < delivered[j][1]

LEMMA PacketInit == Init => PacketIsKept
BY DEF Init, PacketIsKept, ToBeRead, DeliveredBelow, Kinds

LEMMA PacketNext == Paced /\ Types /\ CalledFrom /\ PacketIsKept /\ [Next]_vars => PacketIsKept'
<1> SUFFICES ASSUME Paced, Types, CalledFrom, PacketIsKept, [Next]_vars PROVE PacketIsKept'
  OBVIOUS
<1> USE DEF PacketIsKept
<1>1. /\ count \in [Kinds -> Nat] /\ delivered \in Seq(Nat \X Nat) /\ data \in Nat \X Nat
      /\ hook \in Hooks /\ cur \in Hooks /\ hpc \in HookPlaces
  BY DEF Types, DataType, MainType
<1>2. count.data \in Nat /\ data[1] \in Nat /\ \A i \in DOMAIN delivered : delivered[i][1] \in Nat
  BY <1>1 DEF Kinds
<1>3. ASSUME NEW ks, Counted(ks)
      PROVE  count'.data = IF "data" \in ks THEN count.data + 1 ELSE count.data
  BY <1>1, <1>3 DEF Counted, Kinds
(* Steps that leave the packet alone and make no hook of data pending.     *)
<1>4. ASSUME UNCHANGED <<data, arg, delivered>>, count'.data = count.data, hpc' # "copy2" \/ hpc = "copy2",
             ToBeRead' => ToBeRead,
             hook' = "data" => ~(cur' = "data" /\ hpc' \in {"copy", "copy2", "callback"})
      PROVE  PacketIsKept'
  BY <1>4 DEF DeliveredBelow
<1>5. ASSUME Counted({"signal", "data"}), DataSettled, UNCHANGED <<hpc, cur, arg, delivered>>,
             data' = <<count'.data, count'.data>>
      PROVE  PacketIsKept'
  <2>1. count'.data = count.data + 1
    BY <1>3, <1>5
  <2>2. data'[1] = count.data + 1 /\ data'[2] = count.data + 1
    BY <1>5, <2>1
  <2>3. DeliveredBelow(data[1])' /\ DeliveredBelow(count.data + 1)'
    BY <1>2, <1>5, <2>1, <2>2 DEF DeliveredBelow
  <2>4. hpc' # "copy2" /\ ~(cur' = "data" /\ hpc' \in {"copy", "copy2", "callback"})
    BY <1>5 DEF DataSettled, CalledFrom
  <2> QED
    BY <1>2, <1>5, <2>1, <2>2, <2>3, <2>4
<1>11. CASE \E b \in FirstBytes : LuaWriteToRepl(b)
  <2>1. Counted({"signal"}) /\ UNCHANGED <<hpc, cur, hook, data, arg, delivered>>
    BY <1>11 DEF LuaWriteToRepl, mainVars, dataVars
  <2>2. count'.data = count.data
    BY <1>3, <2>1
  <2> QED
    BY <1>4, <2>1, <2>2 DEF ToBeRead
<1>12. ASSUME NEW h \in {"break", "tap"}, Counted({"signal", h}), UNCHANGED <<hpc, cur, dataVars>>,
              hook' \in {hook, h}
       PROVE  PacketIsKept'
  <2>1. count'.data = count.data
    BY <1>3, <1>12
  <2> QED
    BY <1>4, <1>12, <2>1 DEF ToBeRead, dataVars
<1>13. CASE LuaBreakSignalInterrupt
  BY <1>12, <1>13 DEF LuaBreakSignalInterrupt, SetHook, mainVars
<1>14. CASE LuaBluetoothDataInterrupt
  <2>1. DataSettled /\ UNCHANGED <<hpc, cur, arg, delivered>>
    BY <1>14 DEF LuaBluetoothDataInterrupt, mainVars
  <2>2. CASE dataRef.ref = 0
    <3>1. Counted({"signal"}) /\ UNCHANGED <<hook, data>>
      BY <1>14, <2>2 DEF LuaBluetoothDataInterrupt
    <3>2. count'.data = count.data
      BY <1>3, <3>1
    <3> QED
      BY <1>4, <2>1, <3>1, <3>2 DEF ToBeRead
  <2>3. CASE dataRef.ref # 0
    BY <1>5, <1>14, <2>1, <2>3 DEF LuaBluetoothDataInterrupt
  <2> QED
    BY <2>2, <2>3
<1>15. CASE ImuTapInterrupt
  BY <1>12, <1>15 DEF ImuTapInterrupt, SetHook, mainVars
<1>16. CASE FireHook
  BY <1>4, <1>16 DEF FireHook, dataVars, ToBeRead
<1>17. CASE SethookWatchdog
  <2>1. /\ hpc = "entered" /\ hook' = "watchdog" /\ UNCHANGED <<cur, data, arg, delivered, count>>
        /\ hpc' \in {"raise", "copy", "clear"} \/ cur \notin DOMAIN AfterSethook
        /\ hpc' = AfterSethook[cur]
    BY <1>1, <1>17 DEF SethookWatchdog, dataVars, AfterSethook, Hooks
  <2>2. cur # "watchdog" /\ DOMAIN AfterSethook = {"break", "data", "tap"}
    BY <2>1 DEF AfterSethook, Types, MainType
  <2>3. hpc' \in {"raise", "copy", "clear"}
    BY <1>1, <2>1, <2>2 DEF Hooks
  <2> QED
    BY <1>4, <2>1, <2>3 DEF ToBeRead
<1>18. CASE LuaBreakSignalHandler \/ ClearTapStatus
  <2>1. /\ hpc' \in {"none", "callback"} /\ cur # "data" /\ UNCHANGED <<cur, hook, data, arg, delivered>>
        /\ (Counted({"broken"}) \/ Counted({"tapped"}))
    BY <1>18 DEF LuaBreakSignalHandler, ClearTapStatus, LuaLError, CalledFrom, dataVars
  <2>2. count'.data = count.data
    BY <1>3, <2>1
  <2> QED
    BY <1>4, <2>1, <2>2 DEF ToBeRead
<1>19. CASE PushFirstHalf
  <2>1. /\ hpc = "copy" /\ hpc' = "copy2" /\ cur = "data" /\ arg'[1] = data[1]
        /\ UNCHANGED <<cur, hook, data, delivered, count>>
    BY <1>19 DEF PushFirstHalf, CalledFrom
  <2> QED
    BY <2>1 DEF ToBeRead, DeliveredBelow
<1>20. CASE PushSecondHalf
  <2>1. /\ hpc = "copy2" /\ hpc' = "callback" /\ cur = "data" /\ hook # "data"
        /\ UNCHANGED <<cur, hook, data, count>> /\ arg' = [arg EXCEPT ![2] = data[2]]
        /\ delivered' \in {delivered, Append(delivered, arg')}
    BY <1>20 DEF PushSecondHalf, CalledFrom
  <2>2. arg'[1] = data[1] /\ arg'[2] = data[1]
    BY <2>1 DEF Types, DataType
  <2>3. DeliveredBelow(data[1])
    BY <2>1 DEF ToBeRead
  <2>4. CASE delivered' = delivered
    BY <2>1, <2>4 DEF ToBeRead, DeliveredBelow
  <2>5. CASE delivered' = Append(delivered, arg')
    <3>1. /\ \A i \in DOMAIN delivered' :
                 \/ i \in DOMAIN delivered /\ delivered'[i] = delivered[i] /\ i < Len(delivered) + 1
                 \/ i = Len(delivered) + 1 /\ delivered'[i] = arg'
          /\ \A i \in DOMAIN delivered : i <= Len(delivered)
      BY <1>1, <2>5
    <3>2. DeliveredBelow(count.data + 1)'
      <4>1. \A i \in DOMAIN delivered' : delivered'[i][1] < count.data + 1
        BY <1>2, <2>2, <3>1 DEF DeliveredBelow
      <4> QED
        BY <2>1, <4>1 DEF DeliveredBelow
    <3>3. \A i \in DOMAIN delivered' : delivered'[i][1] = delivered'[i][2]
      BY <2>2, <3>1
    <3>4. \A i, j \in DOMAIN delivered' : i < j => delivered'[i][1] < delivered'[j][1]
      <4> TAKE i, j \in DOMAIN delivered'
      <4> HAVE i < j
      <4>1. i \in DOMAIN delivered /\ delivered'[i] = delivered[i]
        BY <1>1, <2>5, <3>1
      <4>2. CASE j \in DOMAIN delivered /\ delivered'[j] = delivered[j]
        BY <4>1, <4>2
      <4>3. CASE delivered'[j] = arg'
        BY <2>2, <2>3, <4>1, <4>3 DEF DeliveredBelow
      <4> QED
        BY <3>1, <4>2, <4>3
    <3>5. ~ToBeRead' /\ hpc' # "copy2" /\ hook' # "data"
      BY <2>1 DEF ToBeRead
    <3> QED
      BY <2>1, <3>2, <3>3, <3>4, <3>5
  <2> QED
    BY <2>1, <2>4, <2>5
<1>21. CASE EndCallback
  <2>1. hpc = "callback" /\ hpc' = "none" /\ UNCHANGED <<cur, hook, data, arg, delivered, count>>
    BY <1>21 DEF EndCallback, LuaLError, dataVars
  <2> QED
    BY <1>4, <2>1 DEF ToBeRead
<1>22. CASE NewState
  <2>1. hook' = "watchdog" /\ UNCHANGED <<hpc, cur, data, arg, delivered, count>>
    BY <1>22 DEF NewState, Goto, dataVars
  <2> QED
    BY <1>4, <2>1 DEF ToBeRead
<1>23. CASE Reboot
  <2>1. /\ hook' = "watchdog" /\ data' = <<0, 0>> /\ hpc = "none"
        /\ UNCHANGED <<hpc, cur, arg, delivered, count>>
    BY <1>23 DEF Reboot, Goto, Types, MainType, InLua
  <2> QED
    BY <1>2, <2>1 DEF ToBeRead, DeliveredBelow
<1>24. CASE UNCHANGED <<hpc, cur, hook, data, arg, delivered, count>>
  BY <1>4, <1>24 DEF ToBeRead
<1> QED
  BY <1>11, <1>13, <1>14, <1>15, <1>16, <1>17, <1>18, <1>19, <1>20, <1>21, <1>22, <1>23, <1>24
     DEF Next, Interrupt, HookStep, User, LoopStep, EndChunk, InstallTapDemo,
         LuaBluetoothReceiveCallback, LuaImuTapCallback, OpenLibraries, CheckReset,
         ClearReset, CheckSource, TakeCommand, LuaClose, Goto, vars, mainVars, dataVars

(* A host that waits for a packet to be handled or displaced gets each of  *)
(* them to the callback at most once, whole and in order.                  *)
THEOREM PacedDataArrivesWhole == Spec => []PacedDataIsWhole
<1>1. CASE Paced
  <2>1. PacketIsKept => PacedDataIsWhole
    BY DEF PacketIsKept, PacedDataIsWhole
  <2>2. Types => MainType
    BY DEF Types
  <2>3. Types /\ CalledFrom /\ PacketIsKept /\ [Next]_vars => PacketIsKept'
    BY <1>1, PacketNext
  <2> QED
    BY <2>1, <2>2, <2>3, TypesInit, TypesNext, CalledFromInit, CalledFromNext, PacketInit, PTL DEF Spec
<1>2. CASE ~Paced
  <2>1. PacedDataIsWhole
    BY <1>2 DEF PacedDataIsWhole
  <2> QED
    BY <2>1, PTL
<1> QED
  BY <1>1, <1>2
=============================================================================
