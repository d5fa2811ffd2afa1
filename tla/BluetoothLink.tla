----------------------------- MODULE BluetoothLink -----------------------------
(***************************************************************************)
(* The Bluetooth link and its bond: the event handler and the send path of *)
(* bluetooth.c, the frame.bluetooth.send() of lua_libraries/bluetooth.c,   *)
(* and the SoftDevice and the hosts as bluetooth.c uses them.  Events of   *)
(* the SoftDevice wait in a queue, and the link goes on meanwhile: it may  *)
(* be gone when its events are handled, and then a call about it fails,    *)
(* which resets the chip.                                                  *)
(*                                                                         *)
(* A key is a number: 0 is erased flash, and each pairing makes the next.  *)
(***************************************************************************)
EXTENDS Naturals, Sequences

CONSTANTS
  Hosts,          \* the phones and computers around
  ClientMtus,     \* the MTUs that hosts ask for
  PreferredMtu,   \* BLE_PREFERRED_MAX_MTU
  DefaultMtu,     \* of a link without an exchange, 23 in the standard
  MaxPairings,    \* bound on the number of keys made
  MaxEvents       \* bound on the queue of events

NoHost == "none"
Torn   == MaxPairings + 1      \* a key in flash that is no host's
Keys   == 0 .. Torn

ASSUME LinkAssumption ==
  /\ NoHost \notin Hosts /\ MaxPairings \in Nat /\ MaxEvents \in Nat
  /\ {PreferredMtu, DefaultMtu} \cup ClientMtus \subseteq Nat \ (0 .. 3)
  /\ DefaultMtu <= PreferredMtu /\ \A m \in ClientMtus : m >= DefaultMtu

VARIABLES
  link,       \* of the SoftDevice: "advertising", "connected", "closing" or "down"
  peer,       \* the host at the other end
  security,   \* of the link: "none", "asked", "pairing" or "encrypted"
  link_mtu,   \* the MTU of the link
  events,     \* the events that the handler has not pulled
  connection, \* ble_handles.connection is a valid handle
  ble_negotiated_mtu,
  ram_key,    \* bond.own_key
  flash_key,  \* the bond storage
  writing,    \* the key that the SoftDevice is writing there, or 0
  pairings,   \* keys made so far
  host_key,   \* what each host keeps
  notification,  \* the one place of the hvn queue is taken
  subscribed,    \* the host has enabled notifications, in the CCCD
  sending     \* a script that tries to send: Idle, or the length of its string

Idle == 999

vars == <<link, peer, security, link_mtu, events, connection, ble_negotiated_mtu, ram_key,
          flash_key, writing, pairings, host_key, notification, subscribed, sending>>
ether  == <<link, peer, security, link_mtu>>
bond   == <<ram_key, flash_key, writing, pairings, host_key>>
sender == <<notification, subscribed, sending>>

IsUp == link = "connected"
Waits(type) == \E i \in DOMAIN events : events[i].type = type
Event(e) == Len(events) < MaxEvents /\ events' = Append(events, e)  \* bounded

Init ==
  /\ link = "advertising" /\ peer = NoHost /\ security = "none" /\ link_mtu = DefaultMtu
  /\ events = <<>> /\ connection = FALSE /\ ble_negotiated_mtu = 0
  /\ ram_key = 0 /\ flash_key = 0 /\ writing = 0 /\ pairings = 0
  /\ host_key = [h \in Hosts |-> 0] /\ notification = FALSE /\ subscribed = FALSE
  /\ sending = Idle

-----------------------------------------------------------------------------
(* The hosts and the SoftDevice.                                           *)

Connect(h) ==
  /\ link = "advertising" /\ Event([type |-> "CONNECTED"])
  /\ link' = "connected" /\ peer' = h /\ security' = "none" /\ link_mtu' = DefaultMtu
  /\ subscribed' = FALSE
  /\ UNCHANGED <<connection, ble_negotiated_mtu, bond, notification, sending>>

(* The host leaves, the link is lost, or a disconnection ends.             *)
Disconnect ==
  /\ link \in {"connected", "closing"} /\ events' = Append(events, [type |-> "DISCONNECTED"])
  /\ link' = "down" /\ peer' = NoHost /\ security' = "none"
  /\ notification' = FALSE /\ subscribed' = FALSE
  /\ UNCHANGED <<link_mtu, connection, ble_negotiated_mtu, bond, sending>>

(* A host does so at most once for each link.                              *)
ExchangeMtu(m) ==
  /\ IsUp /\ link_mtu = DefaultMtu /\ ~Waits("EXCHANGE_MTU_REQUEST")
  /\ Event([type |-> "EXCHANGE_MTU_REQUEST", mtu |-> m])
  /\ UNCHANGED <<ether, connection, ble_negotiated_mtu, bond, sender>>

(* A host without a key asks to pair, one with a key to encrypt.           *)
StartSecurity ==
  /\ IsUp /\ security = "none"
  /\ Event([type |-> IF host_key[peer] = 0 THEN "SEC_PARAMS_REQUEST" ELSE "SEC_INFO_REQUEST"])
  /\ security' = "asked"
  /\ UNCHANGED <<link, peer, link_mtu, connection, ble_negotiated_mtu, bond, sender>>

(* A user may delete the bond on a host.                                   *)
Forget(h) ==
  /\ host_key[h] # 0 /\ peer # h
  /\ host_key' = [host_key EXCEPT ![h] = 0]
  /\ UNCHANGED <<ether, events, connection, ble_negotiated_mtu, ram_key, flash_key, writing, pairings,
                 sender>>

PairingSucceeds ==
  /\ IsUp /\ security = "pairing" /\ pairings < MaxPairings
  /\ Event([type |-> "AUTH_STATUS", success |-> TRUE])
  /\ security' = "encrypted" /\ pairings' = pairings + 1
  /\ ram_key' = pairings' /\ host_key' = [host_key EXCEPT ![peer] = pairings']
  /\ UNCHANGED <<link, peer, link_mtu, connection, ble_negotiated_mtu, flash_key, writing, sender>>

(* The key that was made may be left in the key set.                       *)
PairingFails ==
  /\ security = "pairing" /\ Event([type |-> "AUTH_STATUS", success |-> FALSE])
  /\ security' = "none"
  /\ \/ UNCHANGED <<pairings, ram_key>>
     \/ pairings < MaxPairings /\ pairings' = pairings + 1 /\ ram_key' = pairings'
  /\ UNCHANGED <<link, peer, link_mtu, connection, ble_negotiated_mtu, flash_key, writing, host_key, sender>>

(* Requests that the handler answers with one checked call: data length,   *)
(* PHY and passkey; the time out of GATT; and system attributes, which     *)
(* are missing until the connection was handled.                           *)
Ask(type) ==
  /\ IsUp /\ Event([type |-> type])
  /\ type = "SYS_ATTR_MISSING" => Waits("CONNECTED")
  /\ UNCHANGED <<ether, connection, ble_negotiated_mtu, bond, sender>>

(* The permissions of the CCCD are those of its characteristic.            *)
WriteCccd ==
  /\ IsUp /\ security = "encrypted" /\ subscribed' = ~subscribed
  /\ UNCHANGED <<ether, events, connection, ble_negotiated_mtu, bond, notification, sending>>

NotificationSent ==
  /\ notification /\ notification' = FALSE
  /\ UNCHANGED <<ether, events, connection, ble_negotiated_mtu, bond, subscribed, sending>>

(* A key that is written over another one leaves neither; an error event   *)
(* is taken for a success.                                                 *)
FlashWriteEnds ==
  /\ writing # 0 /\ writing' = 0
  /\ flash_key' \in {flash_key, IF flash_key = 0 THEN writing ELSE Torn}
  /\ UNCHANGED <<ether, events, connection, ble_negotiated_mtu, ram_key, pairings, host_key, sender>>

-----------------------------------------------------------------------------
(* Mutant: the stored key is not read at the start.                        *)
StartUnbonded(key) ==
  /\ link' = "advertising" /\ peer' = NoHost /\ security' = "none" /\ link_mtu' = DefaultMtu
  /\ events' = <<>> /\ connection' = FALSE /\ ble_negotiated_mtu' = 0
  /\ flash_key' = key /\ ram_key' = 0 /\ writing' = 0
  /\ notification' = FALSE /\ subscribed' = FALSE /\ sending' = Idle
  /\ UNCHANGED <<pairings, host_key>>

(* A reset starts again with what the flash holds.                         *)
StartWith(key) ==
  /\ link' = "advertising" /\ peer' = NoHost /\ security' = "none" /\ link_mtu' = DefaultMtu
  /\ events' = <<>> /\ connection' = FALSE /\ ble_negotiated_mtu' = 0
  /\ flash_key' = key /\ ram_key' = key /\ writing' = 0
  /\ notification' = FALSE /\ subscribed' = FALSE /\ sending' = Idle
  /\ UNCHANGED <<pairings, host_key>>

Reset == \E key \in {flash_key} \cup (IF writing = 0 THEN {} ELSE {Torn}) : StartWith(key)

(* bluetooth_unpair(), with the button in the cradle.                      *)
FactoryReset == StartWith(0)

-----------------------------------------------------------------------------
(* SD_EVT_IRQHandler, one action for each kind of event.  Each call about  *)
(* the link is checked: one that fails resets the chip.                    *)
NextIs(type) == events # <<>> /\ Head(events).type = type
Pull == events' = Tail(events)

(* The system attributes, the CCCD among them, start from nothing.         *)
(* sd_ble_gap_authenticate() may find an encryption under way.             *)
Connected ==
  /\ NextIs("CONNECTED")
  /\ \/ /\ IsUp /\ Pull /\ connection' = TRUE /\ subscribed' = FALSE
        /\ UNCHANGED <<ether, ble_negotiated_mtu, bond, notification, sending>>
     \/ ~(IsUp /\ security = "none") /\ Reset

(* Mutant: advertising is left to the SoftDevice.                          *)
DisconnectedSilently ==
  /\ NextIs("DISCONNECTED") /\ Pull /\ connection' = FALSE
  /\ UNCHANGED <<ether, ble_negotiated_mtu, bond, sender>>

(* Mutant: the handle of the connection is kept.                           *)
DisconnectedKeepsHandle ==
  /\ NextIs("DISCONNECTED") /\ Pull /\ link' = "advertising"
  /\ UNCHANGED <<peer, security, link_mtu, connection, ble_negotiated_mtu, bond, sender>>

Disconnected ==
  /\ NextIs("DISCONNECTED") /\ Pull
  /\ connection' = FALSE /\ link' = "advertising"
  /\ UNCHANGED <<peer, security, link_mtu, ble_negotiated_mtu, bond, sender>>

(* Mutant: the three bytes of the header are not taken off.                *)
NegotiatedWithHeader(client_mtu) == IF PreferredMtu < client_mtu THEN PreferredMtu ELSE client_mtu

Negotiated(client_mtu) == IF PreferredMtu < client_mtu THEN PreferredMtu - 3 ELSE client_mtu - 3

(* The reply is not checked: without a link it has no effect.              *)
ExchangeMtuRequest ==
  /\ NextIs("EXCHANGE_MTU_REQUEST") /\ Pull
  /\ LET client_mtu == Head(events).mtu
     IN  /\ ble_negotiated_mtu' = Negotiated(client_mtu)
         /\ link_mtu' = IF ~IsUp THEN link_mtu ELSE IF PreferredMtu < client_mtu THEN PreferredMtu ELSE client_mtu
  /\ UNCHANGED <<link, peer, security, connection, bond, sender>>

(* Mutant: a bond in the flash does not stop the next pairing.             *)
MayPairAlways == TRUE

(* All bytes of the key in RAM are 0xff.                                   *)
MayPair == ram_key = 0

SecParamsRequest ==
  /\ NextIs("SEC_PARAMS_REQUEST")
  /\ \/ /\ link # "down" /\ MayPair /\ Pull /\ security' = "pairing"
        /\ UNCHANGED <<link, peer, link_mtu, connection, ble_negotiated_mtu, bond, sender>>
     \/ /\ IsUp /\ ~MayPair /\ Pull /\ link' = "closing" /\ security' = "none"
        /\ UNCHANGED <<peer, link_mtu, connection, ble_negotiated_mtu, bond, sender>>
     \/ ~IsUp /\ Reset

(* The key in RAM is the answer, whether there is a bond or not.           *)
SecInfoRequest ==
  /\ NextIs("SEC_INFO_REQUEST")
  /\ \/ /\ link # "down" /\ Pull
        /\ security' = IF host_key[peer] = ram_key THEN "encrypted" ELSE "none"
        /\ UNCHANGED <<link, peer, link_mtu, connection, ble_negotiated_mtu, bond, sender>>
     \/ ~IsUp /\ Reset

(* flash_write() is refused while the file system writes, and Lua draws    *)
(* the screen in the interrupt: both may end in a reset.                   *)
AuthStatus ==
  /\ NextIs("AUTH_STATUS")
  /\ \/ /\ Head(events).success /\ writing = 0 /\ Pull /\ writing' = ram_key
        /\ UNCHANGED <<ether, connection, ble_negotiated_mtu, ram_key, flash_key, pairings, host_key, sender>>
     \/ Head(events).success /\ Reset
     \/ /\ ~Head(events).success /\ Pull
        /\ UNCHANGED <<ether, connection, ble_negotiated_mtu, bond, sender>>

Request ==
  /\ NextIs("REQUEST")
  /\ \/ link # "down" /\ Pull /\ UNCHANGED <<ether, connection, ble_negotiated_mtu, bond, sender>>
     \/ ~IsUp /\ Reset

(* They start from nothing once more, even if the host has written the     *)
(* CCCD since Connected.                                                   *)
SysAttrMissing ==
  /\ NextIs("SYS_ATTR_MISSING")
  /\ \/ /\ link # "down" /\ Pull /\ subscribed' = FALSE
        /\ UNCHANGED <<ether, connection, ble_negotiated_mtu, bond, notification, sending>>
     \/ ~IsUp /\ Reset

GattsTimeout ==
  /\ NextIs("GATTS_TIMEOUT")
  /\ IF IsUp
       THEN /\ Pull /\ link' = "closing"
            /\ UNCHANGED <<peer, security, link_mtu, connection, ble_negotiated_mtu, bond, sender>>
       ELSE Reset

Handler ==
  \/ Connected \/ Disconnected \/ ExchangeMtuRequest \/ SecParamsRequest \/ SecInfoRequest
  \/ AuthStatus \/ Request \/ SysAttrMissing \/ GattsTimeout

-----------------------------------------------------------------------------
(* A script takes a string that max_length() allows, and calls send()      *)
(* until it no longer raises an error.                                     *)
LuaBluetoothMaxLength ==
  /\ sending = Idle /\ sending' \in 1 .. ble_negotiated_mtu - 1
  /\ UNCHANGED <<ether, events, connection, ble_negotiated_mtu, bond, notification, subscribed>>

(* sd_ble_gatts_hvx() takes a notification if the host has enabled them,   *)
(* the link is encrypted, no exchange of the MTU is under way, the queue   *)
(* has room, and the data fits into the MTU.                               *)
HvxTakes(length) ==
  /\ IsUp /\ security = "encrypted" /\ subscribed /\ ~Waits("EXCHANGE_MTU_REQUEST")
  /\ ~notification /\ length <= link_mtu - 3

LuaBluetoothSend ==
  /\ sending # Idle /\ sending + 1 <= ble_negotiated_mtu
  /\ connection /\ HvxTakes(sending + 1)
  /\ notification' = TRUE /\ sending' = Idle
  /\ UNCHANGED <<ether, events, connection, ble_negotiated_mtu, bond, subscribed>>

-----------------------------------------------------------------------------
Next ==
  \/ \E h \in Hosts : Connect(h) \/ Forget(h)
  \/ \E m \in ClientMtus : ExchangeMtu(m)
  \/ \E type \in {"REQUEST", "SYS_ATTR_MISSING", "GATTS_TIMEOUT"} : Ask(type)
  \/ Disconnect \/ StartSecurity \/ PairingSucceeds \/ PairingFails
  \/ WriteCccd \/ NotificationSent \/ FlashWriteEnds
  \/ Handler \/ LuaBluetoothMaxLength \/ LuaBluetoothSend
  \/ Reset \/ FactoryReset

Spec == Init /\ [][Next]_vars

(* The interrupt is served, a disconnection ends, a notification is sent   *)
(* while the link lasts, and the script goes on trying.                    *)
FairSpec ==
  /\ Spec /\ WF_vars(Handler) /\ WF_vars(link = "closing" /\ Disconnect)
  /\ WF_vars(NotificationSent) /\ WF_vars(LuaBluetoothSend)

-----------------------------------------------------------------------------
TypeOK ==
  /\ link \in {"advertising", "connected", "closing", "down"}
  /\ peer \in Hosts \cup {NoHost} /\ (peer = NoHost <=> link \in {"advertising", "down"})
  /\ security \in {"none", "asked", "pairing", "encrypted"}
  /\ link_mtu \in 0 .. PreferredMtu /\ ble_negotiated_mtu \in 0 .. PreferredMtu - 3
  /\ connection \in BOOLEAN /\ notification \in BOOLEAN /\ subscribed \in BOOLEAN
  /\ ram_key \in Keys /\ flash_key \in Keys /\ writing \in 0 .. MaxPairings
  /\ pairings \in 0 .. MaxPairings /\ host_key \in [Hosts -> 0 .. MaxPairings]
  /\ sending \in {Idle} \cup 1 .. PreferredMtu

(* When its events are handled, the device knows whether there is a link:  *)
(* is_connected(), and the guard of send(), are never wrong for longer.    *)
ConnectionIsCurrent ==
  events = <<>> => (connection <=> link \in {"connected", "closing"})

(* A bond in the flash is the one in RAM: no later pairing, failed or not, *)
(* replaces one of them, so that a host that got in gets in after a reset. *)
BondIsKept == flash_key \in 1 .. MaxPairings => ram_key = flash_key

(* As long as the flash holds a bond, no other host has an encrypted link, *)
(* which is what it takes to write to the REPL.                            *)
OnlyTheBondedHost ==
  security = "encrypted" /\ flash_key # 0 => host_key[peer] = flash_key

(* The device can be reached again after every connection, whatever events *)
(* are pending when it ends.                                               *)
DeviceIsReachable == link \in {"closing", "down"} ~> link = "advertising"

(* The host of the bond gets an encrypted link when it asks for one.       *)
BondedHostGetsIn ==
  (IsUp /\ security = "asked" /\ flash_key # 0 /\ host_key[peer] = flash_key)
    ~> (security = "encrypted" \/ ~IsUp)

(* A string that max_length() allows is sent in the end, if the host keeps *)
(* the link and the notifications it enabled, and the MTU of this link was *)
(* exchanged: until then max_length() is that of an earlier link.          *)
SendGetsThrough ==
  (sending + 1 <= ble_negotiated_mtu /\ security = "encrypted" /\ subscribed /\ link_mtu # DefaultMtu)
    ~> (sending = Idle \/ security # "encrypted" \/ ~subscribed \/ ~IsUp)

(* max_length() is what the host can take in one notification, which the   *)
(* test of the API compares it with.                                       *)
MaxLengthIsTheLinks ==
  (IsUp /\ security = "encrypted" /\ events = <<>> /\ ble_negotiated_mtu # 0)
    => ble_negotiated_mtu = link_mtu - 3
=============================================================================
