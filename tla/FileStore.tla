------------------------------- MODULE FileStore -------------------------------
(***************************************************************************)
(* What the file library promises a script: a store of named files, and    *)
(* open files that belong to the file of a name until it is removed or     *)
(* renamed.  A file changes when a handle that wrote it is closed, all at  *)
(* once; a handle whose last write failed, and one that a reset cuts off,  *)
(* leave the file as it was.                                               *)
(***************************************************************************)
EXTENDS Naturals, Sequences, Functions

CONSTANTS Names, Handles, Strings, MaxFile

VARIABLES store, handles

Nowhere == 0          \* the name of no file
Closed  == [mode |-> "closed"]
Modes   == {"r", "w", "a"}

IsOpen(h) == handles[h] # Closed

Init == store = <<>> /\ handles = [h \in Handles |-> Closed]

Open(h, n, mode) ==
  /\ ~IsOpen(h) /\ (mode = "r" => n \in DOMAIN store)
  /\ LET known == n \in DOMAIN store
         data  == IF known /\ mode # "w" THEN store[n] ELSE <<>>
     IN  /\ handles' = [handles EXCEPT ![h] =
              [name |-> n, mode |-> mode, data |-> data, publish |-> known /\ mode = "w"]]
         /\ store' = IF known THEN store ELSE [m \in DOMAIN store \cup {n} |-> IF m = n THEN <<>> ELSE store[m]]

Write(h, s) ==
  /\ IsOpen(h) /\ handles[h].mode # "r" /\ Len(handles[h].data) + Len(s) <= MaxFile
  /\ handles' = [handles EXCEPT ![h].data = @ \o s, ![h].publish = TRUE]
  /\ UNCHANGED store

WriteFails(h, s) ==
  /\ IsOpen(h) /\ handles[h].mode # "r" /\ Len(handles[h].data) + Len(s) <= MaxFile
  /\ \E n \in 0 .. Len(s) - 1 :
       handles' = [handles EXCEPT ![h].data = @ \o SubSeq(s, 1, n), ![h].publish = FALSE]
  /\ UNCHANGED store

Close(h) ==
  /\ IsOpen(h)
  /\ LET f == handles[h]
     IN  store' = IF f.publish /\ f.name # Nowhere THEN [store EXCEPT ![f.name] = f.data] ELSE store
  /\ handles' = [handles EXCEPT ![h] = Closed]

CutOff(names) ==
  handles' = [h \in Handles |->
    IF IsOpen(h) /\ handles[h].name \in names
      THEN [handles[h] EXCEPT !.name = Nowhere] ELSE handles[h]]

Remove(n) ==
  /\ n \in DOMAIN store
  /\ store' = Restrict(store, DOMAIN store \ {n})
  /\ CutOff({n})

(* The new name gets a file of its own, with what the old one held.        *)
Rename(from, to) ==
  /\ from \in DOMAIN store /\ from # to
  /\ store' = [n \in (DOMAIN store \ {from}) \cup {to} |->
                 IF n = to THEN store[from] ELSE store[n]]
  /\ CutOff({from, to})

(* A restart of Lua, a reset of the chip, or a loss of power.              *)
Restart == handles' = [h \in Handles |-> Closed] /\ UNCHANGED store

Next ==
  \/ \E h \in Handles, n \in Names, mode \in Modes : Open(h, n, mode)
  \/ \E h \in Handles, s \in Strings : Write(h, s) \/ WriteFails(h, s)
  \/ \E h \in Handles : Close(h)
  \/ \E n \in Names : Remove(n)
  \/ \E from, to \in Names : Rename(from, to)
  \/ Restart

Spec == Init /\ [][Next]_<<store, handles>>
=============================================================================
