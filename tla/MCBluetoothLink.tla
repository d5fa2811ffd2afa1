---- MODULE MCBluetoothLink ----
EXTENDS BluetoothLink, TLC
====
