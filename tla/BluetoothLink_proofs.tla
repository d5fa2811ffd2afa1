------------------------- MODULE BluetoothLink_proofs -------------------------
(* Theorems about BluetoothLink, for any number of hosts, pairings and     *)
(* events that wait.                                                       *)
EXTENDS BluetoothLink, SequenceTheorems, TLAPS

(* The events that the SoftDevice reports.                                 *)
Types ==
  {"CONNECTED", "DISCONNECTED", "SEC_PARAMS_REQUEST", "SEC_INFO_REQUEST", "REQUEST",
   "SYS_ATTR_MISSING", "GATTS_TIMEOUT"}
Messages ==
  [type : Types] \cup [type : {"EXCHANGE_MTU_REQUEST"}, mtu : ClientMtus]
    \cup [type : {"AUTH_STATUS"}, success : BOOLEAN]

Links == {"advertising", "connected", "closing", "down"}

(* The types.  The keys are numbers of pairings, but for a torn one.       *)
TypeInv ==
  /\ link \in Links /\ peer \in Hosts \cup {NoHost} /\ (peer = NoHost <=> link \in {"advertising", "down"})
  /\ security \in {"none", "asked", "pairing", "encrypted"}
  /\ (security # "none" => link \in {"connected", "closing"})
  /\ link_mtu \in 0 .. PreferredMtu /\ ble_negotiated_mtu \in 0 .. PreferredMtu - 3
  /\ connection \in BOOLEAN /\ notification \in BOOLEAN /\ subscribed \in BOOLEAN /\ events \in Seq(Messages)
  /\ ram_key \in Keys /\ flash_key \in Keys /\ writing \in 0 .. MaxPairings
  /\ pairings \in 0 .. MaxPairings /\ host_key \in [Hosts -> 0 .. MaxPairings]
  /\ sending \in {Idle} \cup 1 .. PreferredMtu

(* A disconnection is the last event that waits, as long as it waits.      *)
IsGone(i) == events[i].type = "DISCONNECTED"
QueueInv ==
  /\ link = "advertising" => events = <<>> /\ ~connection
  /\ \A i \in 1 .. Len(events) : IsGone(i) => i = Len(events) /\ link = "down"
  /\ link = "down" => events # <<>> /\ IsGone(Len(events))
  /\ link \in {"connected", "closing"} =>
       connection \/ \E i \in 1 .. Len(events) : events[i].type = "CONNECTED"

(* At most one pairing has succeeded whose key is not yet in the flash.    *)
HasPaired(i) == events[i].type = "AUTH_STATUS" /\ events[i].success
BondInv ==
  /\ (flash_key # 0 => ram_key = flash_key) /\ (ram_key = Torn => flash_key = Torn)
  /\ security = "pairing" => ram_key = 0
  /\ security = "encrypted" => host_key[peer] = ram_key
  /\ writing # 0 => writing = ram_key /\ flash_key = 0
  /\ \A i \in 1 .. Len(events) : HasPaired(i) => ram_key # 0 /\ flash_key = 0 /\ writing = 0
  /\ \A i, j \in 1 .. Len(events) : HasPaired(i) /\ HasPaired(j) => i = j

IInv == TypeInv /\ QueueInv /\ BondInv

-----------------------------------------------------------------------------
(* A sequence without its first element, and with one more at its end.     *)
LEMMA Shorter ==
  ASSUME NEW S, NEW s \in Seq(S), s # <<>>
  PROVE  /\ Tail(s) \in Seq(S) /\ Len(s) \in Nat /\ Len(s) > 0 /\ Len(Tail(s)) = Len(s) - 1
         /\ \A i \in 1 .. Len(Tail(s)) : i + 1 \in 1 .. Len(s) /\ Tail(s)[i] = s[i + 1]
         /\ s[1] = Head(s) /\ Head(s) \in S /\ 1 \in 1 .. Len(s)
         /\ (Tail(s) = <<>> <=> Len(s) = 1)
<1>1. Len(s) \in Nat /\ Len(s) > 0
  BY EmptySeq
<1>2. /\ Head(s) \in S /\ Tail(s) \in Seq(S) /\ Len(Tail(s)) = Len(s) - 1
      /\ \A i \in 1 .. Len(Tail(s)) : Tail(s)[i] = s[i + 1]
  BY HeadTailProperties
<1>3. Tail(s) = <<>> <=> Len(Tail(s)) = 0
  BY <1>2, EmptySeq
<1> QED
  BY <1>1, <1>2, <1>3

LEMMA Longer ==
  ASSUME NEW S, NEW s \in Seq(S), NEW m \in S
  PROVE  /\ Append(s, m) \in Seq(S) /\ Len(s) \in Nat /\ Len(Append(s, m)) = Len(s) + 1
         /\ Append(s, m) # <<>>
         /\ \A i \in 1 .. Len(s) : i \in 1 .. Len(Append(s, m)) /\ Append(s, m)[i] = s[i]
         /\ Append(s, m)[Len(s) + 1] = m
<1>1. Len(s) \in Nat
  OBVIOUS
<1> QED
  BY <1>1, AppendProperties

(* The first event that waits.                                             *)
LEMMA HeadIsMessage ==
  ASSUME TypeInv, events # <<>>, Pull
  PROVE  /\ events' \in Seq(Messages)
         /\ Head(events).type = "EXCHANGE_MTU_REQUEST" => Head(events).mtu \in ClientMtus
<1>1. events' \in Seq(Messages) /\ Head(events) \in Messages
  BY Shorter DEF TypeInv, Pull
<1>2. ASSUME NEW m \in Messages, m.type = "EXCHANGE_MTU_REQUEST" PROVE m.mtu \in ClientMtus
  BY <1>2 DEF Messages, Types
<1> QED
  BY <1>1, <1>2

(* An event that is put into the queue keeps it typed.                     *)
LEMMA EventTyped ==
  ASSUME TypeInv, NEW m \in Messages, events' = Append(events, m)
  PROVE  events' \in Seq(Messages)
BY Longer DEF TypeInv

LEMMA Plain == ASSUME NEW t \in Types PROVE [type |-> t] \in Messages
BY DEF Messages

LEMMA Numbers ==
  /\ NoHost \notin Hosts /\ MaxPairings \in Nat /\ PreferredMtu \in Nat /\ DefaultMtu \in Nat
  /\ 4 <= DefaultMtu /\ DefaultMtu <= PreferredMtu
  /\ \A m \in ClientMtus : m \in Nat /\ 4 <= m
  /\ <<>> \in Seq(Messages)
<1>1. /\ PreferredMtu \in Nat \ (0 .. 3) /\ DefaultMtu \in Nat \ (0 .. 3)
      /\ \A m \in ClientMtus : m \in Nat \ (0 .. 3)
  BY LinkAssumption
<1>2. \A m \in Nat \ (0 .. 3) : m \in Nat /\ 4 <= m
  OBVIOUS
<1> QED
  BY <1>1, <1>2, LinkAssumption

LEMMA InitTyped == Init => TypeInv
<1> SUFFICES ASSUME Init PROVE TypeInv
  OBVIOUS
<1>1. events \in Seq(Messages)
  BY Numbers DEF Init
<1>2. ble_negotiated_mtu \in 0 .. PreferredMtu - 3 /\ link_mtu \in 0 .. PreferredMtu
  BY Numbers DEF Init
<1>3. ram_key \in Keys /\ flash_key \in Keys /\ writing \in 0 .. MaxPairings /\ pairings \in 0 .. MaxPairings
  BY Numbers DEF Init, Keys, Torn
<1> QED
  BY <1>1, <1>2, <1>3, Numbers DEF Init, TypeInv, Links

LEMMA StartTyped ==
  ASSUME TypeInv, NEW key \in Keys, StartWith(key) PROVE TypeInv'
<1>1. events' \in Seq(Messages)
  BY Numbers DEF StartWith
<1>2. ble_negotiated_mtu' \in 0 .. PreferredMtu - 3 /\ link_mtu' \in 0 .. PreferredMtu
  BY Numbers DEF StartWith
<1>3. ram_key' \in Keys /\ flash_key' \in Keys /\ writing' \in 0 .. MaxPairings
  BY Numbers DEF StartWith
<1>4. pairings' \in 0 .. MaxPairings /\ host_key' \in [Hosts -> 0 .. MaxPairings]
  BY DEF StartWith, TypeInv
<1>5. /\ link' = "advertising" /\ peer' = NoHost /\ security' = "none"
      /\ connection' = FALSE /\ notification' = FALSE /\ subscribed' = FALSE /\ sending' = Idle
  BY DEF StartWith
<1> QED
  BY <1>1, <1>2, <1>3, <1>4, <1>5 DEF TypeInv, Links

LEMMA ResetTyped == ASSUME TypeInv, Reset \/ FactoryReset PROVE TypeInv'
<1>1. flash_key \in Keys /\ Torn \in Keys /\ 0 \in Keys
  BY Numbers DEF TypeInv, Keys, Torn
<1> QED
  BY <1>1, StartTyped DEF Reset, FactoryReset

(* The handler keeps the types.                                            *)
LEMMA HandlerTyped ==
  ASSUME TypeInv, QueueInv, BondInv, Handler PROVE TypeInv'
<1> USE DEF NextIs, IsUp, ether, bond, sender
<1> SUFFICES ASSUME ~Reset PROVE TypeInv'
  BY ResetTyped
<1>1. events # <<>> /\ Pull
  BY DEF Handler, Connected, Disconnected, ExchangeMtuRequest, SecParamsRequest, SecInfoRequest,
         AuthStatus, Request, SysAttrMissing, GattsTimeout
<1>2. /\ events' \in Seq(Messages)
      /\ Head(events).type = "EXCHANGE_MTU_REQUEST" => Head(events).mtu \in ClientMtus
  BY <1>1, HeadIsMessage
<1>3. Disconnected => link = "down"
  <2> SUFFICES ASSUME Disconnected PROVE link = "down"
    OBVIOUS
  <2>1. 1 \in 1 .. Len(events) /\ events[1] = Head(events)
    BY <1>1, Shorter DEF TypeInv
  <2> QED
    BY <2>1 DEF QueueInv, IsGone, Disconnected
<1>4. link # "advertising"
  BY <1>1 DEF QueueInv
<1>5. CASE Connected
  BY <1>2, <1>5 DEF Connected, TypeInv
<1>6. CASE Disconnected
  BY <1>2, <1>3, <1>6 DEF Disconnected, TypeInv, Links
<1>7. CASE ExchangeMtuRequest
  BY <1>2, <1>7, Numbers DEF ExchangeMtuRequest, Negotiated, TypeInv
<1>8. CASE SecParamsRequest
  BY <1>2, <1>4, <1>8 DEF SecParamsRequest, TypeInv, Links
<1>9. CASE SecInfoRequest
  BY <1>2, <1>4, <1>9 DEF SecInfoRequest, TypeInv, Links
<1>10. CASE AuthStatus
  <2>1. Head(events).success => ram_key \in 0 .. MaxPairings
    <3>1. 1 \in 1 .. Len(events) /\ events[1] = Head(events)
      BY <1>1, Shorter DEF TypeInv
    <3> QED
      BY <1>10, <3>1, Numbers DEF BondInv, HasPaired, AuthStatus, TypeInv, Keys, Torn
  <2> QED
    BY <1>2, <1>10, <2>1 DEF AuthStatus, TypeInv
<1>11. CASE Request
  BY <1>2, <1>11 DEF Request, TypeInv
<1>12. CASE GattsTimeout
  BY <1>2, <1>12 DEF GattsTimeout, TypeInv, Links
<1>13. CASE SysAttrMissing
  BY <1>2, <1>13 DEF SysAttrMissing, TypeInv
<1> QED
  BY <1>5, <1>6, <1>7, <1>8, <1>9, <1>10, <1>11, <1>12, <1>13 DEF Handler

(* So does every step.                                                     *)
LEMMA NextTyped ==
  ASSUME TypeInv, QueueInv, BondInv, [Next]_vars PROVE TypeInv'
<1> USE DEF IsUp, Event, ether, bond, sender
<1>1. ASSUME NEW h \in Hosts, Connect(h) PROVE TypeInv'
  <2>1. events' \in Seq(Messages)
    BY <1>1, Plain, EventTyped DEF Connect, Types
  <2>2. link_mtu' \in 0 .. PreferredMtu /\ peer' \in Hosts \cup {NoHost} /\ peer' # NoHost
    BY <1>1, Numbers DEF Connect
  <2>3. /\ link' = "connected" /\ security' = "none" /\ subscribed' = FALSE
        /\ UNCHANGED <<connection, ble_negotiated_mtu, ram_key, flash_key, writing, pairings,
                      host_key, notification, sending>>
    BY <1>1 DEF Connect
  <2> QED
    BY <2>1, <2>2, <2>3 DEF TypeInv, Links
<1>2. ASSUME NEW h \in Hosts, Forget(h) PROVE TypeInv'
  BY <1>2, Numbers DEF Forget, TypeInv
<1>3. ASSUME NEW m \in ClientMtus, ExchangeMtu(m) PROVE TypeInv'
  <2>1. [type |-> "EXCHANGE_MTU_REQUEST", mtu |-> m] \in Messages
    BY DEF Messages
  <2>2. events' \in Seq(Messages)
    BY <1>3, <2>1, EventTyped DEF ExchangeMtu
  <2> QED
    BY <1>3, <2>2 DEF ExchangeMtu, TypeInv
<1>4. ASSUME NEW t \in {"REQUEST", "SYS_ATTR_MISSING", "GATTS_TIMEOUT"}, Ask(t) PROVE TypeInv'
  <2>1. events' \in Seq(Messages)
    BY <1>4, Plain, EventTyped DEF Ask, Types
  <2> QED
    BY <1>4, <2>1 DEF Ask, TypeInv
<1>5. CASE Disconnect
  <2>1. events' \in Seq(Messages)
    BY <1>5, Plain, EventTyped DEF Disconnect, Types
  <2> QED
    BY <1>5, <2>1 DEF Disconnect, TypeInv, Links
<1>6. CASE StartSecurity
  <2>1. events' \in Seq(Messages)
    BY <1>6, Plain, EventTyped DEF StartSecurity, Types
  <2> QED
    BY <1>6, <2>1 DEF StartSecurity, TypeInv
<1>7. CASE PairingSucceeds
  <2>1. [type |-> "AUTH_STATUS", success |-> TRUE] \in Messages
    BY DEF Messages
  <2>2. events' \in Seq(Messages)
    BY <1>7, <2>1, EventTyped DEF PairingSucceeds
  <2> QED
    BY <1>7, <2>2, Numbers DEF PairingSucceeds, TypeInv, Keys, Torn
<1>8. CASE PairingFails
  <2>1. [type |-> "AUTH_STATUS", success |-> FALSE] \in Messages
    BY DEF Messages
  <2>2. events' \in Seq(Messages)
    BY <1>8, <2>1, EventTyped DEF PairingFails
  <2> QED
    BY <1>8, <2>2, Numbers DEF PairingFails, TypeInv, Keys, Torn
<1>9. CASE NotificationSent
  BY <1>9 DEF NotificationSent, TypeInv
<1>10. CASE FlashWriteEnds
  BY <1>10, Numbers DEF FlashWriteEnds, TypeInv, Keys, Torn
<1>11. CASE LuaBluetoothMaxLength
  BY <1>11, Numbers DEF LuaBluetoothMaxLength, TypeInv
<1>12. CASE LuaBluetoothSend
  BY <1>12 DEF LuaBluetoothSend, TypeInv
<1>13. CASE WriteCccd
  BY <1>13 DEF WriteCccd, TypeInv
<1>14. CASE UNCHANGED vars
  BY <1>14 DEF vars, TypeInv
<1> QED
  BY <1>1, <1>2, <1>3, <1>4, <1>5, <1>6, <1>7, <1>8, <1>9, <1>10, <1>11, <1>12, <1>13, <1>14,
     HandlerTyped, ResetTyped DEF Next

-----------------------------------------------------------------------------
LEMMA QueuePushed ==
  ASSUME TypeInv, QueueInv, NEW m \in Messages, events' = Append(events, m), m.type # "DISCONNECTED",
         link \in {"connected", "closing"}, link' = link, connection' = connection
  PROVE  QueueInv'
<1>1. /\ Len(events) \in Nat /\ Len(events') = Len(events) + 1
      /\ \A i \in 1 .. Len(events) : i \in 1 .. Len(events') /\ events'[i] = events[i]
      /\ events'[Len(events) + 1] = m
  BY Longer DEF TypeInv
<1>2. \A i \in 1 .. Len(events') : ~IsGone(i)'
  <2> TAKE i \in 1 .. Len(events')
  <2>1. i \in 1 .. Len(events) \/ i = Len(events) + 1
    BY <1>1
  <2> QED
    BY <1>1, <2>1 DEF QueueInv, IsGone
<1> QED
  BY <1>1, <1>2 DEF QueueInv

LEMMA QueuePulled ==
  ASSUME TypeInv, QueueInv, events # <<>>, Pull, Head(events).type \notin {"CONNECTED", "DISCONNECTED"},
         link' = link \/ (link = "connected" /\ link' = "closing"), connection' = connection
  PROVE  QueueInv'
<1>1. /\ Len(events) \in Nat /\ Len(events) > 0 /\ Len(events') = Len(events) - 1
      /\ \A i \in 1 .. Len(events') : i + 1 \in 1 .. Len(events) /\ events'[i] = events[i + 1]
      /\ events[1] = Head(events) /\ (events' = <<>> <=> Len(events) = 1)
  BY Shorter DEF TypeInv, Pull
<1>2. link # "advertising"
  BY DEF QueueInv
<1>3. \A i \in 1 .. Len(events') : events'[i].type = "DISCONNECTED" => i = Len(events') /\ link' = "down"
  BY <1>1 DEF QueueInv, IsGone
<1>4. ASSUME link = "down" PROVE events' # <<>> /\ IsGone(Len(events))
  BY <1>1, <1>4 DEF QueueInv, IsGone
<1>5. link' = "down" => events' # <<>> /\ events'[Len(events')].type = "DISCONNECTED"
  BY <1>1, <1>4 DEF IsGone
<1>6. ASSUME link \in {"connected", "closing"}, ~connection
      PROVE  \E i \in 1 .. Len(events') : events'[i].type = "CONNECTED"
  <2>1. PICK i \in 1 .. Len(events) : events[i].type = "CONNECTED"
    BY <1>6 DEF QueueInv
  <2>2. i # 1
    BY <1>1, <2>1
  <2>3. i - 1 \in 1 .. Len(events') /\ events'[i - 1] = events[i]
    BY <1>1, <2>2
  <2> QED
    BY <2>1, <2>3
<1> QED
  BY <1>2, <1>3, <1>5, <1>6 DEF QueueInv, IsGone

LEMMA QueueStarts == ASSUME TypeInv, Reset \/ FactoryReset PROVE QueueInv'
<1>1. events' = <<>> /\ link' = "advertising" /\ connection' = FALSE
  BY DEF Reset, FactoryReset, StartWith
<1>2. Len(events') = 0
  BY <1>1
<1> QED
  BY <1>1, <1>2 DEF QueueInv

LEMMA InitQueue == Init => QueueInv
<1> SUFFICES ASSUME Init PROVE QueueInv
  OBVIOUS
<1>1. events = <<>> /\ Len(events) = 0 /\ link = "advertising" /\ connection = FALSE
  BY DEF Init
<1> QED
  BY <1>1 DEF QueueInv

(* The order of events: what waits is what the link has become since.      *)
LEMMA NextQueue ==
  ASSUME TypeInv, QueueInv, [Next]_vars PROVE QueueInv'
<1> USE DEF IsUp, Event, ether, bond, sender
<1>1. CASE UNCHANGED <<events, link, connection>>
  BY <1>1 DEF QueueInv, IsGone
<1>2. ASSUME NEW h \in Hosts, Connect(h) PROVE QueueInv'
  <2>1. events = <<>> /\ events' = Append(events, [type |-> "CONNECTED"]) /\ link' = "connected"
    BY <1>2 DEF Connect, QueueInv
  <2>2. [type |-> "CONNECTED"] \in Messages
    BY Plain DEF Types
  <2>3. Len(events) = 0 /\ Len(events') = 1 /\ events'[1] = [type |-> "CONNECTED"]
    BY <2>1, <2>2, Longer DEF TypeInv
  <2> QED
    BY <2>1, <2>3 DEF QueueInv, IsGone
<1>3. CASE Disconnect
  <2>1. /\ events' = Append(events, [type |-> "DISCONNECTED"]) /\ link' = "down"
        /\ link \in {"connected", "closing"}
    BY <1>3 DEF Disconnect
  <2>2. [type |-> "DISCONNECTED"] \in Messages
    BY Plain DEF Types
  <2>3. /\ Len(events) \in Nat /\ Len(events') = Len(events) + 1 /\ events' # <<>>
        /\ \A i \in 1 .. Len(events) : events'[i] = events[i]
        /\ events'[Len(events')] = [type |-> "DISCONNECTED"]
    BY <2>1, <2>2, Longer DEF TypeInv
  <2>4. \A i \in 1 .. Len(events) : ~IsGone(i)
    BY <2>1 DEF QueueInv
  <2>5. \A i \in 1 .. Len(events') : IsGone(i)' => i = Len(events')
    <3> TAKE i \in 1 .. Len(events')
    <3>1. i \in 1 .. Len(events) \/ i = Len(events')
      BY <2>3
    <3> QED
      BY <2>3, <2>4, <3>1 DEF IsGone
  <2> QED
    BY <2>1, <2>3, <2>5 DEF QueueInv, IsGone
<1>4. ASSUME NEW m \in ClientMtus, ExchangeMtu(m) PROVE QueueInv'
  <2>1. [type |-> "EXCHANGE_MTU_REQUEST", mtu |-> m] \in Messages
    BY DEF Messages
  <2> QED
    BY <1>4, <2>1, QueuePushed DEF ExchangeMtu
<1>5. ASSUME NEW t \in {"REQUEST", "SYS_ATTR_MISSING", "GATTS_TIMEOUT"}, Ask(t) PROVE QueueInv'
  <2>1. [type |-> t] \in Messages
    BY Plain DEF Types
  <2> QED
    BY <1>5, <2>1, QueuePushed DEF Ask
<1>6. CASE StartSecurity
  <2> DEFINE t == IF host_key[peer] = 0 THEN "SEC_PARAMS_REQUEST" ELSE "SEC_INFO_REQUEST"
  <2>1. t \in {"SEC_PARAMS_REQUEST", "SEC_INFO_REQUEST"} /\ events' = Append(events, [type |-> t])
    BY <1>6 DEF StartSecurity
  <2> HIDE DEF t
  <2>2. [type |-> t] \in Messages
    BY <2>1, Plain DEF Types
  <2> QED
    BY <1>6, <2>1, <2>2, QueuePushed DEF StartSecurity
<1>7. CASE PairingSucceeds
  <2>1. [type |-> "AUTH_STATUS", success |-> TRUE] \in Messages
    BY DEF Messages
  <2> QED
    BY <1>7, <2>1, QueuePushed DEF PairingSucceeds
<1>8. CASE PairingFails
  <2>1. [type |-> "AUTH_STATUS", success |-> FALSE] \in Messages
    BY DEF Messages
  <2>2. link \in {"connected", "closing"}
    BY <1>8 DEF PairingFails, TypeInv
  <2> QED
    BY <1>8, <2>1, <2>2, QueuePushed DEF PairingFails
<1>9. CASE Reset \/ FactoryReset
  BY <1>9, QueueStarts
<1>10. ASSUME Connected, ~Reset PROVE QueueInv'
  <2>1. events # <<>> /\ Pull /\ link' = link /\ link = "connected" /\ connection' = TRUE
    BY <1>10 DEF Connected, NextIs
  <2>2. /\ Len(events) \in Nat /\ Len(events') = Len(events) - 1
        /\ \A i \in 1 .. Len(events') : i + 1 \in 1 .. Len(events) /\ events'[i] = events[i + 1]
    BY <2>1, Shorter DEF TypeInv, Pull
  <2> QED
    BY <2>1, <2>2 DEF QueueInv, IsGone
<1>11. CASE Disconnected
  <2>1. /\ events # <<>> /\ Pull /\ Head(events).type = "DISCONNECTED"
        /\ link' = "advertising" /\ connection' = FALSE
    BY <1>11 DEF Disconnected, NextIs
  <2>2. /\ Len(events) \in Nat /\ 1 \in 1 .. Len(events) /\ events[1] = Head(events)
        /\ Len(events') = Len(events) - 1 /\ (events' = <<>> <=> Len(events) = 1)
    BY <2>1, Shorter DEF TypeInv, Pull
  <2>3. Len(events) = 1
    BY <2>1, <2>2 DEF QueueInv, IsGone
  <2> QED
    BY <2>1, <2>2, <2>3 DEF QueueInv
<1>12. ASSUME ~Reset, ExchangeMtuRequest \/ SecParamsRequest \/ SecInfoRequest \/ AuthStatus \/ Request
                        \/ SysAttrMissing \/ GattsTimeout
       PROVE  QueueInv'
  <2>1. /\ events # <<>> /\ Pull /\ Head(events).type \notin {"CONNECTED", "DISCONNECTED"}
        /\ connection' = connection /\ (link' = link \/ (link = "connected" /\ link' = "closing"))
    BY <1>12 DEF ExchangeMtuRequest, SecParamsRequest, SecInfoRequest, AuthStatus, Request,
                 SysAttrMissing, GattsTimeout, NextIs
  <2> QED
    BY <2>1, QueuePulled
<1>13. Handler => QueueInv'
  BY <1>9, <1>10, <1>11, <1>12 DEF Handler
<1>14. (\E h \in Hosts : Forget(h)) \/ WriteCccd \/ NotificationSent \/ FlashWriteEnds \/ LuaBluetoothMaxLength
         \/ LuaBluetoothSend \/ UNCHANGED vars => UNCHANGED <<events, link, connection>>
  BY DEF Forget, WriteCccd, NotificationSent, FlashWriteEnds, LuaBluetoothMaxLength, LuaBluetoothSend, vars
<1> QED
  BY <1>1, <1>2, <1>3, <1>4, <1>5, <1>6, <1>7, <1>8, <1>9, <1>13, <1>14 DEF Next

-----------------------------------------------------------------------------
(* A successful pairing that waits after a push or a pull waited before.   *)
LEMMA PairedPushed ==
  ASSUME TypeInv, NEW m \in Messages, events' = Append(events, m), m.type # "AUTH_STATUS" \/ ~m.success
  PROVE  \A i \in 1 .. Len(events') : HasPaired(i)' => i + 0 \in 1 .. Len(events) /\ HasPaired(i + 0)
<1>1. /\ Len(events) \in Nat /\ Len(events') = Len(events) + 1
      /\ \A i \in 1 .. Len(events) : events'[i] = events[i]
      /\ events'[Len(events) + 1] = m
  BY Longer DEF TypeInv
<1> TAKE i \in 1 .. Len(events')
<1>2. i + 0 = i /\ (i \in 1 .. Len(events) \/ i = Len(events) + 1)
  BY <1>1
<1> QED
  BY <1>1, <1>2 DEF HasPaired

LEMMA PairedPulled ==
  ASSUME TypeInv, events # <<>>, Pull
  PROVE  \A i \in 1 .. Len(events') : HasPaired(i)' => i + 1 \in 1 .. Len(events) /\ HasPaired(i + 1)
BY Shorter DEF TypeInv, Pull, HasPaired

(* While no key is made or written, the bond stays what it was.            *)
LEMMA BondStays ==
  ASSUME TypeInv, BondInv, NEW d \in {0, 1},
         \A i \in 1 .. Len(events') : HasPaired(i)' => i + d \in 1 .. Len(events) /\ HasPaired(i + d),
         UNCHANGED <<ram_key, flash_key, writing>>,
         security' = "pairing" => ram_key = 0,
         security' = "encrypted" => host_key'[peer'] = ram_key
  PROVE  BondInv'
<1>1. \A i, j \in 1 .. Len(events') : HasPaired(i)' /\ HasPaired(j)' => i = j
  <2> TAKE i, j \in 1 .. Len(events')
  <2> HAVE HasPaired(i)' /\ HasPaired(j)'
  <2>1. i + d = j + d
    BY DEF BondInv
  <2> QED
    BY <2>1
<1>2. \A i \in 1 .. Len(events') : HasPaired(i)' => ram_key # 0 /\ flash_key = 0 /\ writing = 0
  BY DEF BondInv
<1> QED
  BY <1>1, <1>2 DEF BondInv

LEMMA BondStarts ==
  ASSUME TypeInv, BondInv, Reset \/ FactoryReset PROVE BondInv'
<1>1. PICK key \in Keys : StartWith(key)
  BY Numbers DEF Reset, FactoryReset, TypeInv, Keys, Torn
<1>2. Len(events') = 0
  BY <1>1 DEF StartWith
<1> QED
  BY <1>1, <1>2, Numbers DEF StartWith, BondInv, HasPaired

LEMMA InitBond == Init => BondInv
<1> SUFFICES ASSUME Init PROVE BondInv
  OBVIOUS
<1>1. Len(events) = 0
  BY DEF Init
<1> QED
  BY <1>1, Numbers DEF Init, BondInv, HasPaired, Torn

(* The events of the handler.  Only the status of a pairing touches the    *)
(* bond, and only if the flash holds none.                                 *)
LEMMA HandlerBond ==
  ASSUME TypeInv, QueueInv, BondInv, Handler PROVE BondInv'
<1> USE DEF NextIs, IsUp, ether, bond, sender
<1> SUFFICES ASSUME ~Reset PROVE BondInv'
  BY BondStarts
<1>1. events # <<>> /\ Pull
  BY DEF Handler, Connected, Disconnected, ExchangeMtuRequest, SecParamsRequest, SecInfoRequest,
         AuthStatus, Request, SysAttrMissing, GattsTimeout
<1>2. \A i \in 1 .. Len(events') : HasPaired(i)' => i + 1 \in 1 .. Len(events) /\ HasPaired(i + 1)
  BY <1>1, PairedPulled
<1>3. CASE Connected \/ Disconnected \/ ExchangeMtuRequest \/ Request \/ SysAttrMissing \/ GattsTimeout
  <2>1. UNCHANGED <<ram_key, flash_key, writing, security, host_key, peer>>
    BY <1>3 DEF Connected, Disconnected, ExchangeMtuRequest, Request, SysAttrMissing, GattsTimeout
  <2> QED
    BY <1>2, <2>1, BondStays DEF BondInv
<1>4. CASE SecParamsRequest
  <2>1. /\ UNCHANGED <<ram_key, flash_key, writing, host_key, peer>>
        /\ (security' = "pairing" /\ ram_key = 0) \/ security' = "none"
    BY <1>4 DEF SecParamsRequest, MayPair
  <2> QED
    BY <1>2, <2>1, BondStays
<1>5. CASE SecInfoRequest
  <2>1. /\ UNCHANGED <<ram_key, flash_key, writing, host_key, peer>>
        /\ (security' = "encrypted" /\ host_key[peer] = ram_key) \/ security' = "none"
    BY <1>5 DEF SecInfoRequest
  <2> QED
    BY <1>2, <2>1, BondStays
<1>6. CASE AuthStatus /\ ~Head(events).success
  <2>1. UNCHANGED <<ram_key, flash_key, writing, security, host_key, peer>>
    BY <1>6 DEF AuthStatus
  <2> QED
    BY <1>2, <2>1, BondStays DEF BondInv
<1>7. CASE AuthStatus /\ Head(events).success
  <2>1. writing = 0 /\ writing' = ram_key /\ UNCHANGED <<ram_key, flash_key, security, host_key, peer>>
    BY <1>7 DEF AuthStatus
  <2>2. 1 \in 1 .. Len(events) /\ HasPaired(1)
    BY <1>1, <1>7, Shorter DEF TypeInv, HasPaired, AuthStatus
  <2>3. \A i \in 1 .. Len(events') : ~HasPaired(i)'
    <3> TAKE i \in 1 .. Len(events')
    <3>1. i + 1 # 1
      OBVIOUS
    <3> QED
      BY <1>2, <2>2, <3>1 DEF BondInv
  <2>4. ram_key # 0 /\ flash_key = 0
    BY <2>2 DEF BondInv
  <2> QED
    BY <2>1, <2>3, <2>4 DEF BondInv
<1> QED
  BY <1>3, <1>4, <1>5, <1>6, <1>7 DEF Handler

(* A pairing is only under way while there is no key at all, so that the   *)
(* key it makes meets no other one on its way to the flash.                *)
LEMMA NextBond ==
  ASSUME TypeInv, QueueInv, BondInv, [Next]_vars PROVE BondInv'
<1> USE DEF IsUp, Event, ether, bond, sender
<1>1. ASSUME UNCHANGED <<events, ram_key, flash_key, writing, host_key, peer, security>> PROVE BondInv'
  BY <1>1 DEF BondInv, HasPaired
<1>2. ASSUME NEW h \in Hosts, Connect(h) PROVE BondInv'
  <2>1. [type |-> "CONNECTED"] \in Messages
    BY Plain DEF Types
  <2>2. \A i \in 1 .. Len(events') : HasPaired(i)' => i + 0 \in 1 .. Len(events) /\ HasPaired(i + 0)
    BY <1>2, <2>1, PairedPushed DEF Connect
  <2> QED
    BY <1>2, <2>2, BondStays DEF Connect
<1>3. CASE Disconnect
  <2>1. [type |-> "DISCONNECTED"] \in Messages
    BY Plain DEF Types
  <2>2. \A i \in 1 .. Len(events') : HasPaired(i)' => i + 0 \in 1 .. Len(events) /\ HasPaired(i + 0)
    BY <1>3, <2>1, PairedPushed DEF Disconnect
  <2> QED
    BY <1>3, <2>2, BondStays DEF Disconnect
<1>4. ASSUME NEW m \in ClientMtus, ExchangeMtu(m) PROVE BondInv'
  <2>1. [type |-> "EXCHANGE_MTU_REQUEST", mtu |-> m] \in Messages
    BY DEF Messages
  <2>2. \A i \in 1 .. Len(events') : HasPaired(i)' => i + 0 \in 1 .. Len(events) /\ HasPaired(i + 0)
    BY <1>4, <2>1, PairedPushed DEF ExchangeMtu
  <2> QED
    BY <1>4, <2>2, BondStays DEF ExchangeMtu, BondInv
<1>5. ASSUME NEW t \in {"REQUEST", "SYS_ATTR_MISSING", "GATTS_TIMEOUT"}, Ask(t) PROVE BondInv'
  <2>1. [type |-> t] \in Messages
    BY Plain DEF Types
  <2>2. \A i \in 1 .. Len(events') : HasPaired(i)' => i + 0 \in 1 .. Len(events) /\ HasPaired(i + 0)
    BY <1>5, <2>1, PairedPushed DEF Ask
  <2> QED
    BY <1>5, <2>2, BondStays DEF Ask, BondInv
<1>6. CASE StartSecurity
  <2> DEFINE t == IF host_key[peer] = 0 THEN "SEC_PARAMS_REQUEST" ELSE "SEC_INFO_REQUEST"
  <2>1. t \in {"SEC_PARAMS_REQUEST", "SEC_INFO_REQUEST"} /\ events' = Append(events, [type |-> t])
    BY <1>6 DEF StartSecurity
  <2> HIDE DEF t
  <2>2. [type |-> t] \in Messages /\ [type |-> t].type # "AUTH_STATUS"
    BY <2>1, Plain DEF Types
  <2>3. \A i \in 1 .. Len(events') : HasPaired(i)' => i + 0 \in 1 .. Len(events) /\ HasPaired(i + 0)
    BY <2>1, <2>2, PairedPushed
  <2> QED
    BY <1>6, <2>3, BondStays DEF StartSecurity
<1>7. ASSUME NEW h \in Hosts, Forget(h) PROVE BondInv'
  <2>1. security = "encrypted" => host_key'[peer] = host_key[peer]
    BY <1>7 DEF Forget, TypeInv
  <2> QED
    BY <1>7, <2>1 DEF Forget, BondInv, HasPaired
<1>8. security = "pairing" => /\ ram_key = 0 /\ flash_key = 0 /\ writing = 0
                              /\ \A i \in 1 .. Len(events) : ~HasPaired(i)
  BY DEF BondInv
<1>9. pairings + 1 # 0 /\ (pairings < MaxPairings => pairings + 1 # Torn)
  BY Numbers DEF TypeInv, Torn
<1>10. CASE PairingSucceeds
  <2> DEFINE m == [type |-> "AUTH_STATUS", success |-> TRUE]
  <2>1. m \in Messages
    BY DEF Messages
  <2>2. /\ Len(events) \in Nat /\ Len(events') = Len(events) + 1
        /\ \A i \in 1 .. Len(events) : events'[i] = events[i]
    BY <1>10, <2>1, Longer DEF PairingSucceeds, TypeInv
  <2>3. \A i \in 1 .. Len(events') : HasPaired(i)' => i = Len(events')
    <3> TAKE i \in 1 .. Len(events')
    <3>1. i \in 1 .. Len(events) \/ i = Len(events')
      BY <2>2
    <3> QED
      BY <1>8, <1>10, <2>2, <3>1 DEF PairingSucceeds, HasPaired
  <2>4. host_key'[peer] = ram_key' /\ ram_key' = pairings + 1 /\ peer' = peer
    BY <1>10 DEF PairingSucceeds, TypeInv
  <2> QED
    BY <1>8, <1>9, <1>10, <2>3, <2>4 DEF PairingSucceeds, BondInv
<1>11. CASE PairingFails
  <2>1. [type |-> "AUTH_STATUS", success |-> FALSE] \in Messages
    BY DEF Messages
  <2>2. \A i \in 1 .. Len(events') : ~HasPaired(i)'
    BY <1>8, <1>11, <2>1, PairedPushed DEF PairingFails
  <2> QED
    BY <1>8, <1>9, <1>11, <2>2 DEF PairingFails, BondInv
<1>12. CASE FlashWriteEnds
  <2>1. writing # 0 /\ writing = ram_key /\ flash_key = 0
    BY <1>12 DEF FlashWriteEnds, BondInv
  <2>2. \A i \in 1 .. Len(events) : ~HasPaired(i)
    BY <2>1 DEF BondInv
  <2>3. flash_key' \in {0, ram_key} /\ writing' = 0
    BY <1>12, <2>1 DEF FlashWriteEnds
  <2>4. ram_key # Torn
    BY <2>1, Numbers DEF TypeInv, Torn
  <2> QED
    BY <1>12, <2>2, <2>3, <2>4 DEF FlashWriteEnds, BondInv, HasPaired
<1>13. WriteCccd \/ NotificationSent \/ LuaBluetoothMaxLength \/ LuaBluetoothSend \/ UNCHANGED vars
         => UNCHANGED <<events, ram_key, flash_key, writing, host_key, peer, security>>
  BY DEF WriteCccd, NotificationSent, LuaBluetoothMaxLength, LuaBluetoothSend, vars
<1> QED
  BY <1>1, <1>2, <1>3, <1>4, <1>5, <1>6, <1>7, <1>10, <1>11, <1>12, <1>13, HandlerBond, BondStarts
     DEF Next

-----------------------------------------------------------------------------
LEMMA Inductive == Spec => []IInv
<1>1. Init => IInv
  BY InitTyped, InitQueue, InitBond DEF IInv
<1>2. IInv /\ [Next]_vars => IInv'
  BY NextTyped, NextQueue, NextBond DEF IInv
<1> QED
  BY <1>1, <1>2, PTL DEF Spec

(* The link, the keys and both lengths keep their types, whatever the      *)
(* hosts ask for.                                                          *)
THEOREM TypeCorrect == Spec => []TypeOK
<1>1. IInv => TypeOK
  BY DEF IInv, TypeInv, TypeOK, Links
<1> QED
  BY <1>1, Inductive, PTL

(* No pairing, failed attempt, reset or cut off write makes the bond in    *)
(* the flash differ from the one in RAM.                                   *)
THEOREM BondStaysKept == Spec => []BondIsKept
<1>1. IInv => BondIsKept
  BY Numbers DEF IInv, BondInv, BondIsKept
<1> QED
  BY <1>1, Inductive, PTL

(* Only the host whose key the flash holds gets an encrypted link, however *)
(* many hosts try.                                                         *)
THEOREM NoOtherHost == Spec => []OnlyTheBondedHost
<1>1. IInv => OnlyTheBondedHost
  BY DEF IInv, BondInv, OnlyTheBondedHost
<1> QED
  BY <1>1, Inductive, PTL

(* With no event waiting the device knows whether it is connected.         *)
THEOREM ConnectionKnown == Spec => []ConnectionIsCurrent
<1>1. ASSUME IInv PROVE ConnectionIsCurrent
  <2> SUFFICES ASSUME events = <<>> PROVE connection <=> link \in {"connected", "closing"}
    BY DEF ConnectionIsCurrent
  <2>1. Len(events) = 0
    OBVIOUS
  <2> QED
    BY <1>1, <2>1 DEF IInv, TypeInv, QueueInv, Links
<1> QED
  BY <1>1, Inductive, PTL
===============================================================================
