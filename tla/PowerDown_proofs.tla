--------------------------- MODULE PowerDown_proofs ----------------------------
(* Theorems about PowerDown, for any number of resets.                     *)
EXTENDS PowerDown, SequenceTheorems, TLAPS

(* The steps of set-up and shutdown().                                     *)
Rails == {"SBB0", "LDO0", "LDO1", "SBB2"}
Steps ==
  [do : {"pin", "check", "arm", "softdevice", "imu", "lua", "standby", "disable", "system_off"}]
    \cup [do : {"on", "off"}, rail : Rails]

(* Two sequences, one after the other.                                     *)
LEMMA Joined ==
  ASSUME NEW S, NEW s \in Seq(S), NEW t \in Seq(S)
  PROVE  /\ s \o t \in Seq(S) /\ Len(s \o t) = Len(s) + Len(t)
         /\ \A i \in 1 .. Len(s) : (s \o t)[i] = s[i]
         /\ \A i \in 1 .. Len(t) : (s \o t)[Len(s) + i] = t[i]
OBVIOUS

LEMMA OrderIs == Order[1] = "SBB0" /\ Order[2] = "LDO0" /\ Order[3] = "LDO1" /\ Order[4] = "SBB2"
BY DEF Order

LEMMA SetPowerRailsIs ==
  ASSUME NEW enable \in BOOLEAN
  PROVE  /\ SetPowerRails(enable) \in Seq(Steps) /\ Len(SetPowerRails(enable)) = 4
         /\ \A i \in 1 .. 4 : SetPowerRails(enable)[i] =
              IF enable THEN [do |-> "on", rail |-> Order[i]] ELSE [do |-> "off", rail |-> Order[5 - i]]
<1> DEFINE f(i) == IF enable THEN [do |-> "on", rail |-> Order[i]] ELSE [do |-> "off", rail |-> Order[5 - i]]
<1>1. \A i \in 1 .. 4 : Order[i] \in Rails /\ Order[5 - i] \in Rails
  BY OrderIs DEF Rails
<1>2. \A i \in 1 .. 4 : f(i) \in Steps
  BY <1>1 DEF Steps
<1>3. SetPowerRails(enable) = [i \in 1 .. 4 |-> f(i)]
  BY DEF SetPowerRails
<1> HIDE DEF f
<1>4. [i \in 1 .. 4 |-> f(i)] \in Seq(Steps) /\ Len([i \in 1 .. 4 |-> f(i)]) = 4
  BY <1>2, IsASeq
<1> QED
  BY <1>3, <1>4 DEF f

(* The step that comes when n are left.                                    *)
SetUpStep(n) ==
  CASE n \in 11 .. 14 -> [do |-> "off", rail |-> Order[n - 10]]
    [] n = 10 -> Do("pin")
    [] n = 9  -> Do("check")
    [] n = 8  -> Do("arm")
    [] n \in 4 .. 7 -> [do |-> "on", rail |-> Order[8 - n]]
    [] n = 3  -> Do("softdevice")
    [] n = 2  -> Do("imu")
    [] n = 1  -> Do("lua")

ShutdownStepAt(n) ==
  CASE n = 7 -> Do("standby")
    [] n = 6 -> Do("disable")
    [] n \in 2 .. 5 -> [do |-> "off", rail |-> Order[n - 1]]
    [] n = 1 -> Do("system_off")

LEMMA SetUpStepIs ==
  /\ \A n \in 11 .. 14 : SetUpStep(n) = [do |-> "off", rail |-> Order[n - 10]]
  /\ SetUpStep(10) = Do("pin") /\ SetUpStep(9) = Do("check") /\ SetUpStep(8) = Do("arm")
  /\ \A n \in 4 .. 7 : SetUpStep(n) = [do |-> "on", rail |-> Order[8 - n]]
  /\ SetUpStep(3) = Do("softdevice") /\ SetUpStep(2) = Do("imu") /\ SetUpStep(1) = Do("lua")
BY DEF SetUpStep

LEMMA ShutdownStepIs ==
  /\ ShutdownStepAt(7) = Do("standby") /\ ShutdownStepAt(6) = Do("disable")
  /\ \A n \in 2 .. 5 : ShutdownStepAt(n) = [do |-> "off", rail |-> Order[n - 1]]
  /\ ShutdownStepAt(1) = Do("system_off")
BY DEF ShutdownStepAt


LEMMA HardwareSetupIs ==
  /\ HardwareSetup \in Seq(Steps) /\ Len(HardwareSetup) = 14
  /\ \A i \in 1 .. 14 : HardwareSetup[i] = SetUpStep(15 - i)
<1> DEFINE off == SetPowerRails(FALSE)
           a   == <<Do("pin"), Do("check"), Do("arm")>>
           on  == SetPowerRails(TRUE)
           b   == <<Do("softdevice"), Do("imu"), Do("lua")>>
           four == 4  three == 3  seven == 7  eleven == 11
<1>1. off \in Seq(Steps) /\ Len(off) = four
  BY SetPowerRailsIs
<1>off. \A i \in 1 .. 4 : off[i] = [do |-> "off", rail |-> Order[5 - i]]
  BY SetPowerRailsIs
<1>2. on \in Seq(Steps) /\ Len(on) = four
  BY SetPowerRailsIs
<1>on. \A i \in 1 .. 4 : on[i] = [do |-> "on", rail |-> Order[i]]
  BY SetPowerRailsIs
<1>3. a \in Seq(Steps) /\ Len(a) = three
  BY DEF Steps, Do
<1>a. a[1] = Do("pin") /\ a[2] = Do("check") /\ a[3] = Do("arm")
  OBVIOUS
<1>4. b \in Seq(Steps) /\ Len(b) = three
  BY DEF Steps, Do
<1>b. b[1] = Do("softdevice") /\ b[2] = Do("imu") /\ b[3] = Do("lua")
  OBVIOUS
<1>5. HardwareSetup = off \o a \o on \o b
  BY DEF HardwareSetup
<1>m. four \in Nat /\ three \in Nat /\ seven \in Nat /\ eleven \in Nat
  OBVIOUS
<1>n. four + three = seven /\ seven + four = eleven /\ eleven + three = 14
  OBVIOUS
<1> HIDE DEF off, a, on, b, four, three, seven, eleven
<1>6. /\ off \o a \in Seq(Steps) /\ Len(off \o a) = four + three
      /\ \A i \in 1 .. four : (off \o a)[i] = off[i]
      /\ \A i \in 1 .. three : (off \o a)[four + i] = a[i]
  <2>1. off \in Seq(Steps) /\ a \in Seq(Steps)
    BY <1>1, <1>3
  <2>2. /\ off \o a \in Seq(Steps) /\ Len(off \o a) = Len(off) + Len(a)
        /\ \A i \in 1 .. Len(off) : (off \o a)[i] = (off)[i]
        /\ \A i \in 1 .. Len(a) : (off \o a)[Len(off) + i] = a[i]
    BY ONLY <2>1, Joined
  <2> QED
    BY ONLY <2>2, <1>1, <1>3, Zenon
<1>c. off \o a \in Seq(Steps) /\ Len(off \o a) = seven
  BY <1>6, <1>n
<1>7. /\ off \o a \o on \in Seq(Steps) /\ Len(off \o a \o on) = seven + four
      /\ \A i \in 1 .. seven : (off \o a \o on)[i] = (off \o a)[i]
      /\ \A i \in 1 .. four : (off \o a \o on)[seven + i] = on[i]
  <2>1. off \o a \in Seq(Steps) /\ on \in Seq(Steps)
    BY <1>c, <1>2
  <2>2. /\ off \o a \o on \in Seq(Steps) /\ Len(off \o a \o on) = Len(off \o a) + Len(on)
        /\ \A i \in 1 .. Len(off \o a) : (off \o a \o on)[i] = (off \o a)[i]
        /\ \A i \in 1 .. Len(on) : (off \o a \o on)[Len(off \o a) + i] = on[i]
    BY ONLY <2>1, Joined
  <2> QED
    BY ONLY <2>2, <1>c, <1>2, Zenon
<1>d. off \o a \o on \in Seq(Steps) /\ Len(off \o a \o on) = eleven
  BY <1>7, <1>n
<1>8. /\ off \o a \o on \o b \in Seq(Steps) /\ Len(off \o a \o on \o b) = eleven + three
      /\ \A i \in 1 .. eleven : (off \o a \o on \o b)[i] = (off \o a \o on)[i]
      /\ \A i \in 1 .. three : (off \o a \o on \o b)[eleven + i] = b[i]
  <2>1. off \o a \o on \in Seq(Steps) /\ b \in Seq(Steps)
    BY <1>d, <1>4
  <2>2. /\ off \o a \o on \o b \in Seq(Steps) /\ Len(off \o a \o on \o b) = Len(off \o a \o on) + Len(b)
        /\ \A i \in 1 .. Len(off \o a \o on) : (off \o a \o on \o b)[i] = (off \o a \o on)[i]
        /\ \A i \in 1 .. Len(b) : (off \o a \o on \o b)[Len(off \o a \o on) + i] = b[i]
    BY ONLY <2>1, Joined
  <2> QED
    BY ONLY <2>2, <1>d, <1>4, Zenon
<1>9. /\ \A i \in 1 .. 4 : HardwareSetup[i] = off[i]
      /\ \A i \in 1 .. 3 : HardwareSetup[4 + i] = a[i]
      /\ \A i \in 1 .. 4 : HardwareSetup[7 + i] = on[i]
      /\ \A i \in 1 .. 3 : HardwareSetup[11 + i] = b[i]
  <2>1. ASSUME NEW i \in 1 .. 4 PROVE HardwareSetup[i] = off[i]
    <3>1. i \in 1 .. four /\ i \in 1 .. seven /\ i \in 1 .. eleven
      BY DEF four, seven, eleven
    <3> QED
      BY ONLY <1>5, <1>6, <1>7, <1>8, <3>1
  <2>2. ASSUME NEW i \in 1 .. 3 PROVE HardwareSetup[4 + i] = a[i]
    <3>1. i \in 1 .. three /\ four + i \in 1 .. seven /\ four + i \in 1 .. eleven
      BY DEF four, three, seven, eleven
    <3>2. HardwareSetup[four + i] = a[i]
      BY ONLY <1>5, <1>6, <1>7, <1>8, <3>1
    <3> QED
      BY <3>2 DEF four
  <2>3. ASSUME NEW i \in 1 .. 4 PROVE HardwareSetup[7 + i] = on[i]
    <3>1. i \in 1 .. four /\ seven + i \in 1 .. eleven
      BY DEF four, seven, eleven
    <3>2. HardwareSetup[seven + i] = on[i]
      BY ONLY <1>5, <1>7, <1>8, <3>1
    <3> QED
      BY <3>2 DEF seven
  <2>4. ASSUME NEW i \in 1 .. 3 PROVE HardwareSetup[11 + i] = b[i]
    <3>1. i \in 1 .. three
      BY DEF three
    <3>2. HardwareSetup[eleven + i] = b[i]
      BY ONLY <1>5, <1>8, <3>1
    <3> QED
      BY <3>2 DEF eleven
  <2> QED
    BY <2>1, <2>2, <2>3, <2>4
<1>10. \A i \in 1 .. 4 : HardwareSetup[i] = SetUpStep(15 - i)
  BY <1>off, <1>9 DEF SetUpStep
<1>11. \A i \in 1 .. 3 : HardwareSetup[4 + i] = SetUpStep(15 - (4 + i))
  BY <1>a, <1>9 DEF SetUpStep
<1>12. \A i \in 1 .. 4 : HardwareSetup[7 + i] = SetUpStep(15 - (7 + i))
  <2> TAKE i \in 1 .. 4
  <2>1. 15 - (7 + i) \in 4 .. 7 /\ 8 - (15 - (7 + i)) = i
    OBVIOUS
  <2> QED
    BY <1>on, <1>9, <2>1 DEF SetUpStep
<1>13. \A i \in 1 .. 3 : HardwareSetup[11 + i] = SetUpStep(15 - (11 + i))
  BY <1>b, <1>9 DEF SetUpStep
<1>14. \A i \in 1 .. 14 : HardwareSetup[i] = SetUpStep(15 - i)
  <2> TAKE i \in 1 .. 14
  <2>1. CASE i \in 1 .. 4
    BY <1>10, <2>1
  <2>2. CASE i \in 5 .. 7
    <3>1. i - 4 \in 1 .. 3 /\ 4 + (i - 4) = i
      BY <2>2
    <3> QED
      BY <1>11, <3>1
  <2>3. CASE i \in 8 .. 11
    <3>1. i - 7 \in 1 .. 4 /\ 7 + (i - 7) = i
      BY <2>3
    <3> QED
      BY <1>12, <3>1
  <2>4. CASE i \in 12 .. 14
    <3>1. i - 11 \in 1 .. 3 /\ 11 + (i - 11) = i
      BY <2>4
    <3> QED
      BY <1>13, <3>1
  <2> QED
    BY <2>1, <2>2, <2>3, <2>4
<1> QED
  BY <1>5, <1>8, <1>n, <1>14

LEMMA ShutdownIs ==
  ASSUME NEW wakeup \in BOOLEAN, NEW n, n = IF wakeup THEN 6 ELSE 7
  PROVE  /\ Shutdown(wakeup) \in Seq(Steps) /\ Len(Shutdown(wakeup)) = n
         /\ \A i \in 1 .. n : Shutdown(wakeup)[i] = ShutdownStepAt(n + 1 - i)
<1> DEFINE s   == IF wakeup THEN <<>> ELSE <<Do("standby")>>
           d   == <<Do("disable")>>
           off == SetPowerRails(FALSE)
           e   == <<Do("system_off")>>
           m   == IF wakeup THEN 0 ELSE 1
           one == 1  four == 4
<1>1. off \in Seq(Steps) /\ Len(off) = four
  BY SetPowerRailsIs
<1>off. \A i \in 1 .. 4 : off[i] = [do |-> "off", rail |-> Order[5 - i]]
  BY SetPowerRailsIs
<1>2. Do("standby") \in Steps /\ Do("disable") \in Steps /\ Do("system_off") \in Steps
  BY DEF Steps, Do
<1>x. ASSUME NEW x \in Steps PROVE <<x>> \in Seq(Steps) /\ Len(<<x>>) = 1 /\ <<x>>[1] = x
  OBVIOUS
<1>3. s \in Seq(Steps) /\ Len(s) = m
  <2>1. CASE wakeup
    BY <2>1
  <2>2. CASE ~wakeup
    BY ONLY <1>2, <1>x, <2>2
  <2> QED
    BY <2>1, <2>2
<1>s. \A i \in 1 .. m : s[i] = Do("standby")
  <2>1. CASE wakeup
    BY <2>1
  <2>2. CASE ~wakeup
    <3>1. m = 1 /\ s = <<Do("standby")>>
      BY <2>2
    <3>2. s[1] = Do("standby")
      BY ONLY <3>1, <1>2, <1>x
    <3>3. \A i \in 1 .. m : i = 1
      BY <3>1
    <3> QED
      BY ONLY <3>2, <3>3
  <2> QED
    BY <2>1, <2>2
<1>4. d \in Seq(Steps) /\ Len(d) = one
  BY ONLY <1>2, <1>x
<1>d. d[1] = Do("disable")
  BY ONLY <1>2, <1>x
<1>5. e \in Seq(Steps) /\ Len(e) = one
  BY ONLY <1>2, <1>x
<1>e. e[1] = Do("system_off")
  BY ONLY <1>2, <1>x
<1>6. Shutdown(wakeup) = s \o d \o off \o e
  BY DEF Shutdown
<1>7. m \in {0, 1} /\ n = m + 6
  OBVIOUS
<1>m. one \in Nat /\ four \in Nat /\ m \in Nat
  OBVIOUS
<1> HIDE DEF s, d, off, e, m, one, four
<1>8. /\ s \o d \in Seq(Steps) /\ Len(s \o d) = m + one
      /\ \A i \in 1 .. m : (s \o d)[i] = s[i]
      /\ \A i \in 1 .. one : (s \o d)[m + i] = d[i]
  <2>1. s \in Seq(Steps) /\ d \in Seq(Steps)
    BY <1>3, <1>4
  <2>2. /\ s \o d \in Seq(Steps) /\ Len(s \o d) = Len(s) + Len(d)
        /\ \A i \in 1 .. Len(s) : (s \o d)[i] = (s)[i]
        /\ \A i \in 1 .. Len(d) : (s \o d)[Len(s) + i] = d[i]
    BY ONLY <2>1, Joined
  <2> QED
    BY ONLY <2>2, <1>3, <1>4, Zenon
<1> DEFINE m1 == m + one  m5 == m1 + four
<1>a. m1 \in Nat /\ m5 \in Nat
  BY <1>7 DEF one, four
<1>b. m1 = m + 1 /\ m5 = m + 5 /\ m5 + one = m + 6
  BY <1>7 DEF one, four
<1> HIDE DEF m1, m5
<1>9. /\ s \o d \o off \in Seq(Steps) /\ Len(s \o d \o off) = m5
      /\ \A i \in 1 .. m1 : (s \o d \o off)[i] = (s \o d)[i]
      /\ \A i \in 1 .. four : (s \o d \o off)[m1 + i] = off[i]
  <2>1. s \o d \in Seq(Steps) /\ Len(s \o d) = m1
    BY <1>8 DEF m1
  <2>2. /\ s \o d \o off \in Seq(Steps) /\ Len(s \o d \o off) = m1 + four
        /\ \A i \in 1 .. m1 : (s \o d \o off)[i] = (s \o d)[i]
        /\ \A i \in 1 .. four : (s \o d \o off)[m1 + i] = off[i]
    <3>1. s \o d \in Seq(Steps) /\ off \in Seq(Steps)
      BY <2>1, <1>1
    <3>2. /\ s \o d \o off \in Seq(Steps) /\ Len(s \o d \o off) = Len(s \o d) + Len(off)
          /\ \A i \in 1 .. Len(s \o d) : (s \o d \o off)[i] = (s \o d)[i]
          /\ \A i \in 1 .. Len(off) : (s \o d \o off)[Len(s \o d) + i] = off[i]
      BY ONLY <3>1, Joined
    <3> QED
      BY ONLY <3>2, <2>1, <1>1, Zenon
  <2> QED
    BY <2>2 DEF m5
<1>f. s \o d \o off \in Seq(Steps) /\ Len(s \o d \o off) = m5
  BY <1>9
<1>10. /\ s \o d \o off \o e \in Seq(Steps) /\ Len(s \o d \o off \o e) = m5 + one
       /\ \A i \in 1 .. m5 : (s \o d \o off \o e)[i] = (s \o d \o off)[i]
       /\ \A i \in 1 .. one : (s \o d \o off \o e)[m5 + i] = e[i]
  <2>1. s \o d \o off \in Seq(Steps) /\ e \in Seq(Steps)
    BY <1>f, <1>5
  <2>2. /\ s \o d \o off \o e \in Seq(Steps) /\ Len(s \o d \o off \o e) = Len(s \o d \o off) + Len(e)
        /\ \A i \in 1 .. Len(s \o d \o off) : (s \o d \o off \o e)[i] = (s \o d \o off)[i]
        /\ \A i \in 1 .. Len(e) : (s \o d \o off \o e)[Len(s \o d \o off) + i] = e[i]
    BY ONLY <2>1, Joined
  <2> QED
    BY ONLY <2>2, <1>f, <1>5, Zenon
<1>11. \A i \in 1 .. n : Shutdown(wakeup)[i] = ShutdownStepAt(n + 1 - i)
  <2> TAKE i \in 1 .. n
  <2>1. CASE i <= m
    <3>1. m = 1 /\ i = 1 /\ n + 1 - i = 7 /\ i \in 1 .. m /\ i \in 1 .. m1 /\ i \in 1 .. m5
      BY <1>7, <1>b, <2>1
    <3>2. (s \o d)[i] = s[i]
      BY ONLY <1>8, <3>1
    <3>3. (s \o d \o off)[i] = (s \o d)[i]
      BY ONLY <1>9, <3>1
    <3>4. Shutdown(wakeup)[i] = Do("standby")
      BY ONLY <1>s, <1>6, <1>10, <3>1, <3>2, <3>3
    <3> QED
      BY ONLY <3>1, <3>4, ShutdownStepIs
  <2>2. CASE i = m + 1
    <3>1. n + 1 - i = 6 /\ i \in 1 .. m1 /\ i \in 1 .. m5 /\ 1 \in 1 .. one
      BY <1>7, <1>b, <2>2 DEF one
    <3>2. (s \o d)[i] = d[1]
      BY ONLY <1>8, <2>2, <3>1
    <3>3. (s \o d \o off)[i] = (s \o d)[i]
      BY ONLY <1>9, <3>1
    <3>4. Shutdown(wakeup)[i] = Do("disable")
      BY ONLY <1>d, <1>6, <1>10, <3>1, <3>2, <3>3
    <3> QED
      BY ONLY <3>1, <3>4, ShutdownStepIs
  <2>3. CASE i \in m + 2 .. m + 5
    <3> DEFINE k == i - m1
    <3>1. k \in 1 .. 4 /\ k \in 1 .. four /\ i = m1 + k /\ i \in 1 .. m5 /\ n + 1 - i = 6 - k /\ 6 - k - 1 = 5 - k
      BY <1>7, <1>b, <2>3 DEF four
    <3> HIDE DEF k
    <3>2. Shutdown(wakeup)[i] = off[k]
      BY ONLY <1>6, <1>9, <1>10, <3>1
    <3>a. 6 - k \in 2 .. 5
      BY <3>1
    <3>3. ShutdownStepAt(6 - k) = [do |-> "off", rail |-> Order[6 - k - 1]]
      BY ONLY <3>a, ShutdownStepIs
    <3> QED
      BY ONLY <1>off, <3>1, <3>2, <3>3
  <2>4. CASE i = m + 6
    <3>1. n + 1 - i = 1 /\ i = m5 + 1 /\ 1 \in 1 .. one
      BY <1>7, <1>b, <2>4 DEF one
    <3>2. Shutdown(wakeup)[i] = Do("system_off")
      BY ONLY <1>e, <1>6, <1>10, <3>1
    <3> QED
      BY ONLY <3>1, <3>2, ShutdownStepIs
  <2> QED
    BY <1>7, <2>1, <2>2, <2>3, <2>4
<1> QED
  BY <1>6, <1>7, <1>10, <1>11, <1>b

-----------------------------------------------------------------------------
(* The first n rails of the order.                                         *)
First(n) == {Order[i] : i \in 1 .. n}

SetUpTail ==
  /\ main \in Seq(Steps) /\ Len(main) \in 0 .. 14
  /\ \A i \in 1 .. Len(main) : main[i] = SetUpStep(Len(main) + 1 - i)

ShutdownTail ==
  /\ shutting \in Seq(Steps) /\ Len(shutting) \in 0 .. 7
  /\ enable_imu_wakeup => Len(shutting) <= 6
  /\ \A i \in 1 .. Len(shutting) : shutting[i] = ShutdownStepAt(Len(shutting) + 1 - i)

(* What of the two threads and the pin may go on at once.                  *)
Exclusive ==
  /\ debounce => awake /\ ~armed /\ Len(shutting) = 0 /\ Len(main) <= 7
  /\ Len(shutting) # 0 => awake /\ ~armed /\ ~transfer
  /\ armed => awake /\ Len(main) <= 7
  /\ awake /\ ~debounce /\ Len(shutting) = 0 /\ Len(main) <= 7 => armed
  /\ Len(main) >= 9 => ~stay_awake

(* How many rails are on, at each step of set-up and shutdown.             *)
Level(n) ==
  /\ rails = First(n)
  /\ awake /\ Len(shutting) = 0 /\ Len(main) >= 10 => n <= Len(main) - 10
  /\ awake /\ Len(shutting) = 0 /\ Len(main) \in 7 .. 10 => n = 0
  /\ awake /\ Len(shutting) = 0 /\ Len(main) \in 3 .. 7 => n = 7 - Len(main)
  /\ awake /\ Len(shutting) = 0 /\ Len(main) <= 3 => n = 4
  /\ Len(shutting) \in 1 .. 5 => n <= Len(shutting) - 1
  /\ ~awake => n = 0

RailsAreALevel == \E n \in 0 .. 4 : Level(n)

RadioIs ==
  /\ awake /\ Len(shutting) = 0 /\ Len(main) <= 2 => softdevice
  /\ Len(shutting) \in 1 .. 5 => ~softdevice
  /\ ~awake => ~softdevice

ImuIs ==
  /\ awake /\ Len(shutting) = 0 /\ Len(main) <= 1 => accelerometer
  /\ Len(shutting) \in 1 .. 6 /\ ~enable_imu_wakeup => ~accelerometer
  /\ ~awake /\ ~enable_imu_wakeup => ~accelerometer

Flags ==
  /\ pin \in BOOLEAN /\ charging \in BOOLEAN /\ pressed \in BOOLEAN /\ awake \in BOOLEAN
  /\ case_detect_pin \in BOOLEAN /\ transfer \in BOOLEAN /\ armed \in BOOLEAN /\ debounce \in BOOLEAN
  /\ enable_imu_wakeup \in BOOLEAN /\ stay_awake \in BOOLEAN /\ softdevice \in BOOLEAN
  /\ accelerometer \in BOOLEAN /\ resets \in 0 .. MaxResets

(* The inductive invariant.                                                *)
Rest == SetUpTail /\ ShutdownTail /\ Exclusive /\ RailsAreALevel /\ RadioIs /\ ImuIs

IInv == Flags /\ Rest

-----------------------------------------------------------------------------
(* The steps of set-up and shutdown, told by their number.                 *)
LEMMA SetUpStepDoes ==
  ASSUME NEW n \in 1 .. 14
  PROVE  /\ SetUpStep(n).do = "off" <=> n >= 11
         /\ SetUpStep(n).do = "pin" <=> n = 10
         /\ SetUpStep(n).do = "check" <=> n = 9
         /\ SetUpStep(n).do = "arm" <=> n = 8
         /\ SetUpStep(n).do = "on" <=> n \in 4 .. 7
         /\ SetUpStep(n).do = "softdevice" <=> n = 3
         /\ SetUpStep(n).do = "imu" <=> n = 2
         /\ SetUpStep(n).do = "lua" <=> n = 1
         /\ SetUpStep(n).do # "standby"
<1>1. CASE n \in 11 .. 14
  <2>1. SetUpStep(n).do = "off"
    BY <1>1, SetUpStepIs
  <2> QED
    BY <1>1, <2>1
<1>2. CASE n \in 4 .. 7
  <2>1. SetUpStep(n).do = "on"
    BY <1>2, SetUpStepIs
  <2> QED
    BY <1>2, <2>1
<1>3. CASE n \in {1, 2, 3, 8, 9, 10}
  BY <1>3, SetUpStepIs DEF Do
<1> QED
  BY <1>1, <1>2, <1>3

LEMMA ShutdownStepDoes ==
  ASSUME NEW n \in 1 .. 7
  PROVE  /\ ShutdownStepAt(n).do = "standby" <=> n = 7
         /\ ShutdownStepAt(n).do = "disable" <=> n = 6
         /\ ShutdownStepAt(n).do = "off" <=> n \in 2 .. 5
         /\ ShutdownStepAt(n).do = "system_off" <=> n = 1
         /\ ShutdownStepAt(n).do # "on" /\ ShutdownStepAt(n).do # "imu"
<1>1. CASE n \in 2 .. 5
  <2>1. ShutdownStepAt(n).do = "off"
    BY <1>1, ShutdownStepIs
  <2> QED
    BY <1>1, <2>1
<1>2. CASE n \in {1, 6, 7}
  BY <1>2, ShutdownStepIs DEF Do
<1> QED
  BY <1>1, <1>2

LEMMA SetUpGoesOn ==
  ASSUME SetUpTail, main # <<>>
  PROVE  /\ Len(main) \in 1 .. 14 /\ Head(main) = SetUpStep(Len(main))
         /\ Tail(main) \in Seq(Steps) /\ Len(Tail(main)) = Len(main) - 1
         /\ \A i \in 1 .. Len(main) - 1 : Tail(main)[i] = SetUpStep(Len(main) - i)
<1>1. main \in Seq(Steps) /\ Len(main) \in 0 .. 14
  BY DEF SetUpTail
<1>2. \A i \in 1 .. Len(main) : main[i] = SetUpStep(Len(main) + 1 - i)
  BY DEF SetUpTail
<1>3. Len(main) \in 1 .. 14
  BY <1>1
<1>4. Head(main) = main[1] /\ Tail(main) \in Seq(Steps) /\ Len(Tail(main)) = Len(main) - 1
  BY <1>1
<1>5. \A i \in 1 .. Len(main) - 1 : Tail(main)[i] = main[i + 1]
  BY <1>1
<1>6. Head(main) = SetUpStep(Len(main))
  <2>1. main[1] = SetUpStep(Len(main) + 1 - 1) /\ Len(main) + 1 - 1 = Len(main)
    BY <1>2, <1>3
  <2> QED
    BY <1>4, <2>1
<1>7. ASSUME NEW i \in 1 .. Len(main) - 1
      PROVE  Tail(main)[i] = SetUpStep(Len(main) - i)
  <2>1. i + 1 \in 1 .. Len(main) /\ Len(main) + 1 - (i + 1) = Len(main) - i
    BY <1>3
  <2>2. main[i + 1] = SetUpStep(Len(main) + 1 - (i + 1))
    BY <1>2, <2>1
  <2> QED
    BY <1>5, <2>1, <2>2
<1> QED
  BY <1>3, <1>4, <1>6, <1>7

LEMMA ShutdownGoesOn ==
  ASSUME ShutdownTail, shutting # <<>>
  PROVE  /\ Len(shutting) \in 1 .. 7 /\ Head(shutting) = ShutdownStepAt(Len(shutting))
         /\ Tail(shutting) \in Seq(Steps) /\ Len(Tail(shutting)) = Len(shutting) - 1
         /\ \A i \in 1 .. Len(shutting) - 1 : Tail(shutting)[i] = ShutdownStepAt(Len(shutting) - i)
<1>1. shutting \in Seq(Steps) /\ Len(shutting) \in 0 .. 7
  BY DEF ShutdownTail
<1>2. \A i \in 1 .. Len(shutting) : shutting[i] = ShutdownStepAt(Len(shutting) + 1 - i)
  BY DEF ShutdownTail
<1>3. Len(shutting) \in 1 .. 7
  BY <1>1
<1>4. Head(shutting) = shutting[1] /\ Tail(shutting) \in Seq(Steps) /\ Len(Tail(shutting)) = Len(shutting) - 1
  BY <1>1
<1>5. \A i \in 1 .. Len(shutting) - 1 : Tail(shutting)[i] = shutting[i + 1]
  BY <1>1
<1>6. Head(shutting) = ShutdownStepAt(Len(shutting))
  <2>1. shutting[1] = ShutdownStepAt(Len(shutting) + 1 - 1) /\ Len(shutting) + 1 - 1 = Len(shutting)
    BY <1>2, <1>3
  <2> QED
    BY <1>4, <2>1
<1>7. ASSUME NEW i \in 1 .. Len(shutting) - 1
      PROVE  Tail(shutting)[i] = ShutdownStepAt(Len(shutting) - i)
  <2>1. i + 1 \in 1 .. Len(shutting) /\ Len(shutting) + 1 - (i + 1) = Len(shutting) - i
    BY <1>3
  <2>2. shutting[i + 1] = ShutdownStepAt(Len(shutting) + 1 - (i + 1))
    BY <1>2, <2>1
  <2> QED
    BY <1>5, <2>1, <2>2
<1> QED
  BY <1>3, <1>4, <1>6, <1>7

-----------------------------------------------------------------------------
(* The levels of the rails.                                                *)
LEMMA FirstIs ==
  /\ First(0) = {} /\ First(1) = {"SBB0"} /\ First(2) = {"SBB0", "LDO0"}
  /\ First(3) = {"SBB0", "LDO0", "LDO1"} /\ First(4) = Rails
<1>1. /\ 1 .. 0 = {} /\ 1 .. 1 = {1} /\ 1 .. 2 = {1, 2} /\ 1 .. 3 = {1, 2, 3}
      /\ 1 .. 4 = {1, 2, 3, 4}
  OBVIOUS
<1> QED
  BY <1>1, OrderIs DEF First, Rails

LEMMA OneMore ==
  ASSUME NEW n \in 0 .. 3
  PROVE  First(n) \cup {Order[n + 1]} = First(n + 1)
<1>1. n \in {0, 1, 2, 3}
  OBVIOUS
<1> QED
  BY <1>1, FirstIs, OrderIs DEF Rails

LEMMA OneLess ==
  ASSUME NEW n \in 0 .. 4, NEW j \in 1 .. 4, n <= j
  PROVE  \E m \in 0 .. 4 : m <= j - 1 /\ First(n) \ {Order[j]} = First(m)
<1>1. CASE n < j
  <2>1. n <= j - 1 /\ n \in {0, 1, 2, 3}
    BY <1>1
  <2>2. Order[j] \notin First(n)
    <3>1. j \in {1, 2, 3, 4}
      OBVIOUS
    <3> QED
      BY <1>1, <2>1, <3>1, FirstIs, OrderIs
  <2> QED
    BY <2>1, <2>2
<1>2. CASE n = j
  <2>1. j - 1 \in 0 .. 3 /\ j - 1 <= j - 1 /\ j \in {1, 2, 3, 4}
    OBVIOUS
  <2>2. First(j) \ {Order[j]} = First(j - 1)
    BY <2>1, FirstIs, OrderIs DEF Rails
  <2> QED
    BY <1>2, <2>1, <2>2
<1> QED
  BY <1>1, <1>2

-----------------------------------------------------------------------------
(* A start, whatever came before.                                          *)
LEMMA StartNext ==
  ASSUME Start, NEW n \in 0 .. 4, rails' = First(n)
  PROVE  /\ SetUpTail' /\ ShutdownTail' /\ Exclusive' /\ RailsAreALevel' /\ RadioIs' /\ ImuIs'
<1>1. main' \in Seq(Steps) /\ Len(main') = 14
  BY HardwareSetupIs DEF Start
<1>2. SetUpTail'
  <2>1. \A i \in 1 .. 14 : main'[i] = SetUpStep(15 - i)
    BY HardwareSetupIs DEF Start
  <2>2. ASSUME NEW i \in 1 .. Len(main') PROVE main'[i] = SetUpStep(Len(main') + 1 - i)
    <3>1. i \in 1 .. 14 /\ Len(main') + 1 - i = 15 - i
      BY <1>1
    <3> QED
      BY <2>1, <3>1
  <2>3. Len(main') \in 0 .. 14
    BY <1>1
  <2> QED
    BY <1>1, <2>2, <2>3 DEF SetUpTail
<1>3. /\ shutting' = <<>> /\ enable_imu_wakeup' = FALSE /\ awake' = TRUE /\ armed' = FALSE
      /\ debounce' = FALSE /\ stay_awake' = FALSE
  BY DEF Start
<1>4. shutting' \in Seq(Steps) /\ Len(shutting') = 0
  BY <1>3
<1>5. ShutdownTail'
  <2>1. \A i \in 1 .. Len(shutting') : shutting'[i] = ShutdownStepAt(Len(shutting') + 1 - i)
    BY <1>4
  <2> QED
    BY <1>4, <2>1 DEF ShutdownTail
<1>6. Exclusive'
  BY <1>1, <1>3, <1>4 DEF Exclusive
<1>7. RailsAreALevel'
  BY <1>1, <1>3, <1>4, rails' = First(n) DEF RailsAreALevel, Level
<1>8. RadioIs' /\ ImuIs'
  BY <1>1, <1>3, <1>4 DEF RadioIs, ImuIs
<1> QED
  BY <1>2, <1>5, <1>6, <1>7, <1>8

(* The next step of the set-up.                                            *)
LEMMA MainMoves ==
  ASSUME SetUpTail, ShutdownTail, NEW what, NextStep(what)
  PROVE  /\ awake /\ ~debounce /\ Len(shutting) = 0
         /\ Len(main) \in 1 .. 14 /\ Head(main) = SetUpStep(Len(main))
         /\ SetUpStep(Len(main)).do = what
         /\ Len(main') = Len(main) - 1 /\ SetUpTail'
<1>1. awake /\ ~debounce /\ shutting = <<>> /\ main # <<>> /\ Head(main).do = what /\ main' = Tail(main)
  BY DEF NextStep, MainRuns, Busy
<1>2. Len(shutting) = 0
  BY <1>1
<1>3. /\ Len(main) \in 1 .. 14 /\ Head(main) = SetUpStep(Len(main))
      /\ Tail(main) \in Seq(Steps) /\ Len(Tail(main)) = Len(main) - 1
      /\ \A i \in 1 .. Len(main) - 1 : Tail(main)[i] = SetUpStep(Len(main) - i)
  BY <1>1, SetUpGoesOn
<1>4. SetUpTail'
  <2>a. main' = Tail(main)
    BY <1>1
  <2>b. Tail(main) \in Seq(Steps) /\ Len(Tail(main)) = Len(main) - 1
    BY <1>3
  <2>c. main' \in Seq(Steps) /\ Len(main') = Len(main) - 1
    BY ONLY <2>a, <2>b, Zenon
  <2>d. PICK l \in 1 .. 14 : l = Len(main)
    BY <1>3
  <2>e. Len(main') = l - 1
    BY ONLY <2>c, <2>d
  <2>f. l - 1 \in 0 .. 14
    BY ONLY l \in 1 .. 14
  <2>g. Len(main') \in 0 .. 14
    BY ONLY <2>e, <2>f, Zenon
  <2>1. Len(main') \in 0 .. 14 /\ Len(main') = Len(main) - 1 /\ main' \in Seq(Steps)
    BY ONLY <2>c, <2>g, Zenon
  <2>2. ASSUME NEW i \in 1 .. Len(main') PROVE main'[i] = SetUpStep(Len(main') + 1 - i)
    <3>1. i \in 1 .. Len(main) - 1 /\ Len(main') + 1 - i = Len(main) - i
      BY <2>1, <1>3
    <3> QED
      BY <1>1, <1>3, <3>1
  <2> QED
    BY <2>1, <2>2 DEF SetUpTail
<1> QED
  BY <1>1, <1>2, <1>3, <1>4

(* The beginning of shutdown().                                            *)
LEMMA Enters ==
  ASSUME ShutdownTail, NEW wakeup \in BOOLEAN, EnterShutdown(wakeup)
  PROVE  /\ ShutdownTail' /\ armed' = FALSE
         /\ stay_awake => /\ debounce' = TRUE /\ shutting' = shutting
                          /\ enable_imu_wakeup' = enable_imu_wakeup
         /\ ~stay_awake => /\ debounce' = debounce /\ enable_imu_wakeup' = wakeup
                           /\ Len(shutting') = IF wakeup THEN 6 ELSE 7
<1>1. CASE stay_awake
  BY <1>1 DEF EnterShutdown, ShutdownTail
<1>2. CASE ~stay_awake
  <2>1. PICK n : n = IF wakeup THEN 6 ELSE 7
    OBVIOUS
  <2>2. shutting' = Shutdown(wakeup) /\ enable_imu_wakeup' = wakeup /\ debounce' = debounce /\ armed' = FALSE
    BY <1>2 DEF EnterShutdown
  <2>3. /\ shutting' \in Seq(Steps) /\ Len(shutting') = n
        /\ \A i \in 1 .. n : shutting'[i] = ShutdownStepAt(n + 1 - i)
    BY <2>1, <2>2, ShutdownIs
  <2>4. ShutdownTail'
    BY <2>1, <2>2, <2>3 DEF ShutdownTail
  <2> QED
    BY <1>2, <2>1, <2>2, <2>3, <2>4
<1> QED
  BY <1>1, <1>2

-----------------------------------------------------------------------------
(* The flags, action by action.                                            *)
LEMMA AccelerometerIs ==
  ASSUME accelerometer \in BOOLEAN, NEW step
  PROVE  AccelerometerAfter(step) \in BOOLEAN
BY DEF AccelerometerAfter

LEMMA StartFlags ==
  ASSUME Flags, Start
  PROVE  /\ awake' \in BOOLEAN /\ case_detect_pin' \in BOOLEAN /\ transfer' \in BOOLEAN
         /\ armed' \in BOOLEAN /\ debounce' \in BOOLEAN /\ enable_imu_wakeup' \in BOOLEAN
         /\ stay_awake' \in BOOLEAN /\ softdevice' \in BOOLEAN
BY DEF Start

LEMMA EnterFlags ==
  ASSUME Flags, NEW wakeup \in BOOLEAN, EnterShutdown(wakeup)
  PROVE  armed' \in BOOLEAN /\ debounce' \in BOOLEAN /\ enable_imu_wakeup' \in BOOLEAN
<1>1. debounce \in BOOLEAN /\ enable_imu_wakeup \in BOOLEAN
  BY DEF Flags
<1> QED
  BY <1>1 DEF EnterShutdown

LEMMA FlagsInit == Init => Flags
<1> SUFFICES ASSUME Init PROVE Flags
  OBVIOUS
<1>1. pressed \in BOOLEAN
  BY DEF Init
<1>2. resets \in 0 .. MaxResets
  BY ResetsAssumption DEF Init
<1> QED
  BY <1>1, <1>2 DEF Init, Flags

LEMMA FlagsNext ==
  ASSUME Flags, [Next]_vars
  PROVE  Flags'
<1> USE DEF case, thread, irq, chips
<1>1. CASE PinRises
  <2>1. CASE ~(awake /\ armed) /\ UNCHANGED <<awake, thread, irq, stay_awake, chips, resets>>
    BY <1>1, <2>1 DEF PinRises, Flags
  <2>2. CASE EnterShutdown(FALSE) /\ UNCHANGED <<awake, thread, stay_awake, chips, resets>>
    <3>1. armed' \in BOOLEAN /\ debounce' \in BOOLEAN /\ enable_imu_wakeup' \in BOOLEAN
      BY <2>2, EnterFlags
    <3> QED
      BY <1>1, <2>2, <3>1 DEF PinRises, Flags
  <2>3. CASE /\ \/ UNCHANGED <<rails, accelerometer>>
                \/ /\ main # <<>> /\ rails' = RailsAfter(Head(main))
                   /\ accelerometer' = AccelerometerAfter(Head(main))
             /\ Start /\ UNCHANGED resets
    <3>1. accelerometer' \in BOOLEAN
      BY <2>3, AccelerometerIs DEF Flags
    <3> QED
      BY <1>1, <2>3, <3>1, StartFlags DEF PinRises, Flags
  <2> QED
    BY <1>1, <2>1, <2>2, <2>3 DEF PinRises
<1>2. CASE PinFalls
  <2>1. pressed' \in BOOLEAN
    BY <1>2 DEF PinFalls
  <2> QED
    BY <1>2, <2>1 DEF PinFalls, Flags
<1>3. CASE ChargerChanges
  <2>1. pressed' \in BOOLEAN /\ charging' \in BOOLEAN
    BY <1>3 DEF ChargerChanges
  <2> QED
    BY <1>3, <2>1 DEF ChargerChanges, Flags
<1>4. CASE Wake
  <2>1. pressed' \in BOOLEAN
    BY <1>4 DEF Wake
  <2> QED
    BY <1>4, <2>1, StartFlags DEF Wake, Flags
<1>5. CASE Reset
  <2>1. resets' \in 0 .. MaxResets
    BY <1>5, ResetsAssumption DEF Reset, Flags
  <2> QED
    BY <1>5, <2>1, StartFlags DEF Reset, Flags
<1>6. CASE SetUp
  <2>1. CASE Begin
    BY <2>1 DEF Begin, Flags
  <2>2. CASE SetRail
    BY <2>2 DEF SetRail, Flags
  <2>3. CASE ReadPin
    BY <2>3 DEF ReadPin, Flags
  <2>4. CASE CheckCase
    <3>1. /\ armed' \in BOOLEAN /\ debounce' \in BOOLEAN /\ enable_imu_wakeup' \in BOOLEAN
          /\ stay_awake' \in BOOLEAN
      BY <2>4, EnterFlags DEF CheckCase, Flags
    <3> QED
      BY <2>4, <3>1 DEF CheckCase, Flags
  <2>5. CASE Arm
    BY <2>5 DEF Arm, Flags
  <2>6. CASE SetUpSoftDevice
    BY <2>6 DEF SetUpSoftDevice, Flags
  <2>7. CASE OpenImuLibrary
    <3>1. accelerometer' \in BOOLEAN
      BY <2>7, AccelerometerIs DEF OpenImuLibrary, Flags
    <3> QED
      BY <2>7, <3>1 DEF OpenImuLibrary, Flags
  <2>8. CASE StartMainScript
    BY <2>8 DEF StartMainScript, Flags
  <2> QED
    BY <1>6, <2>1, <2>2, <2>3, <2>4, <2>5, <2>6, <2>7, <2>8 DEF SetUp
<1>7. CASE EndTransfer
  BY <1>7 DEF EndTransfer, Flags
<1>8. CASE LuaStayAwake
  BY <1>8 DEF LuaStayAwake, Flags
<1>9. CASE LuaSleep
  <2>1. armed' \in BOOLEAN /\ debounce' \in BOOLEAN /\ enable_imu_wakeup' \in BOOLEAN
    BY <1>9, EnterFlags DEF LuaSleep
  <2> QED
    BY <1>9, <2>1 DEF LuaSleep, Flags
<1>10. CASE Debounced
  BY <1>10 DEF Debounced, Flags
<1>11. CASE ShutdownStep
  <2>1. /\ softdevice' = (softdevice /\ Head(shutting).do # "disable")
        /\ awake' = (Head(shutting).do # "system_off")
        /\ accelerometer' = AccelerometerAfter(Head(shutting))
    BY <1>11 DEF ShutdownStep
  <2>2. softdevice' \in BOOLEAN /\ awake' \in BOOLEAN
    BY <2>1
  <2>3. accelerometer' \in BOOLEAN
    BY <2>1, AccelerometerIs DEF Flags
  <2> QED
    BY <1>11, <2>2, <2>3 DEF ShutdownStep, Flags
<1>12. CASE UNCHANGED vars
  BY <1>12 DEF vars, Flags
<1> QED
  BY <1>1, <1>2, <1>3, <1>4, <1>5, <1>6, <1>7, <1>8, <1>9, <1>10, <1>11, <1>12 DEF Next

-----------------------------------------------------------------------------
(* Steps, rails, radio and accelerometer, action by action.                *)
(* A step that leaves the threads where they were.                         *)
LEMMA RestQuiet ==
  ASSUME Rest,
         UNCHANGED <<awake, main, irq, chips>>,
         transfer' = transfer \/ transfer' = FALSE \/ Len(shutting) = 0,
         stay_awake' = stay_awake \/ Len(main) = 0
  PROVE  Rest'
<1> USE DEF irq, chips
<1>1. SetUpTail' /\ ShutdownTail'
  BY DEF Rest, SetUpTail, ShutdownTail
<1>2. Len(main') = Len(main) /\ Len(shutting') = Len(shutting)
  OBVIOUS
<1>3. Exclusive'
  BY <1>2 DEF Rest, Exclusive
<1>4. RailsAreALevel'
  BY DEF Rest, RailsAreALevel, Level
<1>5. RadioIs' /\ ImuIs'
  BY DEF Rest, RadioIs, ImuIs
<1> QED
  BY <1>1, <1>3, <1>4, <1>5 DEF Rest

(* The beginning of shutdown(), in either thread.                          *)
LEMMA RestEnters ==
  ASSUME Rest, NEW wakeup \in BOOLEAN, EnterShutdown(wakeup),
         awake, ~debounce, Len(shutting) = 0,
         UNCHANGED <<awake, stay_awake, chips>>,
         stay_awake => main' = main /\ Len(main) <= 7,
         ~stay_awake => SetUpTail' /\ ~transfer'
  PROVE  Rest'
<1> USE DEF chips
<1>1. ShutdownTail' /\ armed' = FALSE
  BY Enters DEF Rest
<1>2. CASE stay_awake
  <2>1. /\ debounce' = TRUE /\ shutting' = shutting
        /\ enable_imu_wakeup' = enable_imu_wakeup /\ main' = main /\ Len(main) <= 7
    BY <1>2, Enters DEF Rest
  <2>2. SetUpTail'
    BY <2>1 DEF Rest, SetUpTail
  <2>3. Exclusive'
    BY <1>1, <1>2, <2>1, <2>2 DEF Rest, Exclusive, SetUpTail
  <2>4. RailsAreALevel'
    BY <2>1 DEF Rest, RailsAreALevel, Level
  <2>5. RadioIs' /\ ImuIs'
    BY <2>1 DEF Rest, RadioIs, ImuIs
  <2> QED
    BY <1>1, <2>2, <2>3, <2>4, <2>5 DEF Rest
<1>3. CASE ~stay_awake
  <2>1. /\ Len(shutting') = 6 \/ Len(shutting') = 7
        /\ debounce' = debounce /\ (~enable_imu_wakeup' => Len(shutting') = 7)
    BY <1>3, Enters DEF Rest
  <2>2. Exclusive'
    BY <1>1, <1>3, <2>1 DEF Exclusive
  <2>3. PICK n \in 0 .. 4 : rails = First(n)
    BY DEF Rest, RailsAreALevel, Level
  <2>a. /\ awake' = awake /\ awake /\ rails' = rails
        /\ Len(shutting') # 0 /\ Len(shutting') \notin 1 .. 5
        /\ (~enable_imu_wakeup' => Len(shutting') \notin 1 .. 6)
    <3>1. PICK k : k = Len(shutting')
      OBVIOUS
    <3>2. (k = 6 \/ k = 7) /\ (~enable_imu_wakeup' => k = 7)
      BY ONLY <2>1, <3>1, Zenon
    <3>3. k # 0 /\ k \notin 1 .. 5 /\ (~enable_imu_wakeup' => k \notin 1 .. 6)
      BY ONLY <3>2
    <3> QED
      BY ONLY <3>1, <3>3, UNCHANGED <<awake, chips>>, awake, Zenon DEF chips
  <2>4. Level(n)'
    BY ONLY <2>a, <2>3, Zenon DEF Level
  <2>5. RailsAreALevel'
    BY <2>4 DEF RailsAreALevel
  <2>6. RadioIs' /\ ImuIs'
    BY ONLY <2>a, Zenon DEF RadioIs, ImuIs
  <2> QED
    BY <1>1, <1>3, <2>2, <2>5, <2>6 DEF Rest
<1> QED
  BY <1>2, <1>3

(* A step of the set-up, told by its number l, that leaves the rails.      *)
LEMMA RestMoves ==
  ASSUME Rest, NEW what, NextStep(what), what \in {"pin", "check", "arm", "softdevice", "imu", "lua"},
         UNCHANGED <<awake, debounce, shutting, enable_imu_wakeup, rails>>,
         IF what = "arm" THEN armed' ELSE armed' = armed,
         IF what = "softdevice" THEN softdevice' ELSE softdevice' = softdevice,
         IF what = "imu" THEN accelerometer' ELSE accelerometer' = accelerometer,
         transfer' = transfer \/ transfer' = FALSE,
         stay_awake' = stay_awake \/ what \in {"check", "lua"}
  PROVE  Rest'
<1>1. /\ awake /\ ~debounce /\ Len(shutting) = 0
      /\ Len(main) \in 1 .. 14 /\ SetUpStep(Len(main)).do = what
      /\ Len(main') = Len(main) - 1 /\ SetUpTail'
  BY MainMoves DEF Rest
<1>2. PICK l \in 1 .. 14 : l = Len(main)
  BY <1>1
<1>3. Len(main') = l - 1 /\ SetUpStep(l).do = what
  BY <1>1, <1>2
<1>4. /\ what = "pin" <=> l = 10
      /\ what = "check" <=> l = 9
      /\ what = "arm" <=> l = 8
      /\ what = "softdevice" <=> l = 3
      /\ what = "imu" <=> l = 2
      /\ what = "lua" <=> l = 1
  BY <1>3, SetUpStepDoes
<1>l. l \in {1, 2, 3, 8, 9, 10}
  BY <1>4
<1>5. PICK k : k = l - 1
  OBVIOUS
<1>6. Len(main') = k /\ Len(shutting') = 0 /\ awake' /\ ~debounce'
  BY <1>1, <1>3, <1>5
<1>7. ShutdownTail'
  BY DEF Rest, ShutdownTail
<1>8. Exclusive'
  <2>1. (l <= 7 => armed) /\ (armed => l <= 7) /\ (l >= 9 => ~stay_awake)
    BY <1>1, <1>2 DEF Rest, Exclusive
  <2>2. (k <= 7 => armed') /\ (armed' => k <= 7) /\ (k >= 9 => ~stay_awake')
    BY ONLY <1>4, <1>l, <1>5, <2>1, IF what = "arm" THEN armed' ELSE armed' = armed,
            stay_awake' = stay_awake \/ what \in {"check", "lua"}
  <2> QED
    BY ONLY <1>6, <2>2 DEF Exclusive
<1>9. RailsAreALevel'
  <2>1. PICK n \in 0 .. 4 : Level(n)
    BY DEF Rest, RailsAreALevel
  <2>2. /\ rails = First(n)
        /\ (l >= 10 => n <= l - 10) /\ (l \in 7 .. 10 => n = 0) /\ (l \in 3 .. 7 => n = 7 - l)
        /\ (l <= 3 => n = 4)
    BY <1>1, <1>2, <2>1 DEF Level
  <2>3. /\ (k >= 10 => n <= k - 10) /\ (k \in 7 .. 10 => n = 0) /\ (k \in 3 .. 7 => n = 7 - k)
        /\ (k <= 3 => n = 4)
    BY ONLY <1>l, <1>5, <2>2, n \in 0 .. 4
  <2>4. rails' = First(n)
    BY <2>2
  <2>5. Level(n)'
    BY ONLY <1>6, <2>3, <2>4 DEF Level
  <2> QED
    BY <2>5 DEF RailsAreALevel
<1>10. RadioIs'
  <2>1. l <= 2 => softdevice
    BY <1>1, <1>2 DEF Rest, RadioIs
  <2>2. k <= 2 => softdevice'
    BY ONLY <1>4, <1>l, <1>5, <2>1, IF what = "softdevice" THEN softdevice' ELSE softdevice' = softdevice
  <2> QED
    BY ONLY <1>6, <2>2 DEF RadioIs
<1>11. ImuIs'
  <2>1. l <= 1 => accelerometer
    BY <1>1, <1>2 DEF Rest, ImuIs
  <2>2. k <= 1 => accelerometer'
    BY ONLY <1>4, <1>l, <1>5, <2>1, IF what = "imu" THEN accelerometer' ELSE accelerometer' = accelerometer
  <2> QED
    BY ONLY <1>6, <2>2 DEF ImuIs
<1> QED
  BY <1>1, <1>7, <1>8, <1>9, <1>10, <1>11 DEF Rest

LEMMA RestSetRail ==
  ASSUME Rest, SetRail
  PROVE  Rest'
<1> USE DEF irq
<1>0. PICK what \in {"on", "off"} : NextStep(what)
  BY DEF SetRail
<1>1. /\ awake /\ ~debounce /\ Len(shutting) = 0
      /\ Len(main) \in 1 .. 14 /\ SetUpStep(Len(main)).do = what /\ Head(main) = SetUpStep(Len(main))
      /\ Len(main') = Len(main) - 1 /\ SetUpTail'
  BY <1>0, MainMoves DEF Rest
<1>2. PICK l \in 1 .. 14 : l = Len(main)
  BY <1>1
<1>3. Len(main') = l - 1 /\ SetUpStep(l).do = what /\ Head(main) = SetUpStep(l)
  BY <1>1, <1>2
<1>4. (what = "on" /\ l \in 4 .. 7) \/ (what = "off" /\ l \in 11 .. 14)
  BY <1>3, SetUpStepDoes
<1>5. PICK k : k = l - 1
  OBVIOUS
<1>a. /\ UNCHANGED <<awake, irq, stay_awake, softdevice, accelerometer>>
      /\ transfer' = FALSE /\ rails' = RailsAfter(Head(main))
  BY DEF SetRail
<1>6. Len(main') = k /\ Len(shutting') = 0 /\ awake' /\ ~debounce'
  BY <1>1, <1>3, <1>5, <1>a
<1>7. ShutdownTail'
  BY <1>a DEF Rest, ShutdownTail
<1>8. Exclusive'
  <2>1. (l <= 7 => armed) /\ (armed => l <= 7) /\ (l >= 9 => ~stay_awake)
    BY <1>1, <1>2 DEF Rest, Exclusive
  <2>2. (k <= 7 => armed') /\ (armed' => k <= 7) /\ (k >= 9 => ~stay_awake')
    BY ONLY <1>4, <1>5, <2>1, <1>a
  <2> QED
    BY ONLY <1>6, <2>2 DEF Exclusive
<1>b. PICK n \in 0 .. 4 : Level(n)
  BY DEF Rest, RailsAreALevel
<1>c. /\ rails = First(n)
      /\ (l >= 10 => n <= l - 10) /\ (l \in 3 .. 7 => n = 7 - l)
  BY <1>1, <1>2, <1>b DEF Level
<1>9. ASSUME what = "on" PROVE RailsAreALevel'
  <2>1. l \in 4 .. 7 /\ n \in 0 .. 3 /\ n = 7 - l /\ n + 1 = 8 - l /\ n + 1 \in 0 .. 4
    BY ONLY <1>4, <1>9, <1>c, n \in 0 .. 4
  <2>2. SetUpStep(l) = [do |-> "on", rail |-> Order[8 - l]]
    BY <2>1, SetUpStepIs
  <2>3. rails' = rails \cup {Order[8 - l]}
    BY <1>3, <1>a, <2>2 DEF RailsAfter
  <2>4. rails' = First(n + 1)
    BY <2>1, <2>3, <1>c, OneMore
  <2>5. k >= 3 /\ k <= 6 /\ n + 1 = 7 - k /\ (k <= 3 => n + 1 = 4)
    BY ONLY <2>1, <1>5
  <2>6. k \notin 7 .. 10 /\ ~(k >= 10)
    BY ONLY <2>1, <1>5
  <2>7. Level(n + 1)'
    BY ONLY <1>6, <2>4, <2>5, <2>6 DEF Level
  <2> QED
    BY <2>1, <2>7 DEF RailsAreALevel
<1>10. ASSUME what = "off" PROVE RailsAreALevel'
  <2>1. l \in 11 .. 14 /\ l - 10 \in 1 .. 4 /\ n <= l - 10
    BY ONLY <1>4, <1>10, <1>c, n \in 0 .. 4
  <2>2. SetUpStep(l) = [do |-> "off", rail |-> Order[l - 10]]
    BY <2>1, SetUpStepIs
  <2>3. rails' = rails \ {Order[l - 10]}
    BY <1>3, <1>a, <2>2 DEF RailsAfter
  <2>4. PICK m \in 0 .. 4 : m <= l - 10 - 1 /\ rails' = First(m)
    BY <2>1, <2>3, <1>c, OneLess
  <2>5. k >= 10 /\ m <= k - 10 /\ (k \in 7 .. 10 => m = 0) /\ k \notin 3 .. 7 /\ ~(k <= 3)
    BY ONLY <2>1, <1>5, <2>4, m \in 0 .. 4
  <2>7. Level(m)'
    BY ONLY <1>6, <2>4, <2>5 DEF Level
  <2> QED
    BY <2>7 DEF RailsAreALevel
<1>11. RadioIs' /\ ImuIs'
  <2>1. l > 3
    BY ONLY <1>4
  <2>2. ~(k <= 2) /\ ~(k <= 1)
    BY ONLY <2>1, <1>5, l \in 1 .. 14
  <2> QED
    BY ONLY <1>6, <2>2 DEF RadioIs, ImuIs
<1> QED
  BY <1>1, <1>7, <1>8, <1>9, <1>10, <1>11 DEF Rest

LEMMA RestDebounced ==
  ASSUME Rest, Debounced
  PROVE  Rest'
<1> USE DEF thread, chips
<1>1. /\ awake /\ debounce /\ debounce' = FALSE /\ armed' = TRUE
      /\ UNCHANGED <<awake, main, transfer, shutting, enable_imu_wakeup, stay_awake, chips>>
  BY DEF Debounced
<1>2. SetUpTail' /\ ShutdownTail'
  BY <1>1 DEF Rest, SetUpTail, ShutdownTail
<1>3. Len(main') = Len(main) /\ Len(shutting') = Len(shutting)
  BY <1>1
<1>4. Exclusive'
  BY <1>1, <1>3 DEF Rest, Exclusive
<1>5. RailsAreALevel'
  BY <1>1 DEF Rest, RailsAreALevel, Level
<1>6. RadioIs' /\ ImuIs'
  BY <1>1 DEF Rest, RadioIs, ImuIs
<1> QED
  BY <1>2, <1>4, <1>5, <1>6 DEF Rest

LEMMA RestShutdownStep ==
  ASSUME Rest, ShutdownStep
  PROVE  Rest'
<1> USE DEF thread
<1>1. /\ awake /\ shutting # <<>> /\ shutting' = Tail(shutting)
      /\ rails' = RailsAfter(Head(shutting))
      /\ accelerometer' = AccelerometerAfter(Head(shutting))
      /\ softdevice' = (softdevice /\ Head(shutting).do # "disable")
      /\ awake' = (Head(shutting).do # "system_off")
      /\ UNCHANGED <<main, transfer, armed, debounce, enable_imu_wakeup, stay_awake>>
  BY DEF ShutdownStep
<1>2. /\ Len(shutting) \in 1 .. 7 /\ Head(shutting) = ShutdownStepAt(Len(shutting))
      /\ Tail(shutting) \in Seq(Steps) /\ Len(Tail(shutting)) = Len(shutting) - 1
      /\ \A i \in 1 .. Len(shutting) - 1 : Tail(shutting)[i] = ShutdownStepAt(Len(shutting) - i)
  BY <1>1, ShutdownGoesOn DEF Rest
<1>3. PICK k \in 1 .. 7 : k = Len(shutting)
  BY <1>2
<1>4. PICK r : r = k - 1
  OBVIOUS
<1>5. Tail(shutting) = shutting'
  BY <1>1
<1>6. Head(shutting) = ShutdownStepAt(k)
  BY <1>2, <1>3
<1>7. shutting' \in Seq(Steps) /\ Len(shutting') = r
  BY ONLY <1>2, <1>3, <1>4, <1>5, Zenon
<1>8. ShutdownTail'
  <2>1. \A i \in 1 .. k - 1 : shutting'[i] = ShutdownStepAt(k - i)
    BY ONLY <1>2, <1>3, <1>5, Zenon
  <2>2. r \in 0 .. 6 /\ r \in 0 .. 7 /\ r <= 6
    BY ONLY <1>4, k \in 1 .. 7
  <2>3. ASSUME NEW i \in 1 .. r PROVE shutting'[i] = ShutdownStepAt(r + 1 - i)
    <3>1. i \in 1 .. k - 1 /\ r + 1 - i = k - i
      BY ONLY <1>4, k \in 1 .. 7, i \in 1 .. r
    <3> QED
      BY ONLY <2>1, <3>1
  <2> QED
    BY ONLY <1>7, <2>2, <2>3, Zenon DEF ShutdownTail
<1>9. /\ SetUpTail /\ ~debounce /\ ~armed /\ ~transfer /\ (Len(main) >= 9 => ~stay_awake)
  <2>1. Len(shutting) # 0
    BY ONLY <1>3, k \in 1 .. 7
  <2> QED
    BY <2>1 DEF Rest, Exclusive
<1>10. SetUpTail' /\ Len(main') = Len(main)
  BY <1>1, <1>9 DEF SetUpTail
<1>11. awake' <=> k # 1
  BY <1>1, <1>6, ShutdownStepDoes
<1>12. r # 0 <=> k # 1
  BY ONLY <1>4, k \in 1 .. 7
<1>13. Exclusive'
  BY ONLY <1>1, <1>7, <1>9, <1>10, <1>11, <1>12, Zenon DEF Exclusive
<1>14. PICK n \in 0 .. 4 : Level(n)
  BY DEF Rest, RailsAreALevel
<1>15. rails = First(n) /\ (k \in 1 .. 5 => n <= k - 1)
  BY ONLY <1>3, <1>14, Zenon DEF Level
<1>16. ASSUME k \in 2 .. 5 PROVE RailsAreALevel'
  <2>1. ShutdownStepAt(k) = [do |-> "off", rail |-> Order[k - 1]]
    BY <1>16, ShutdownStepIs
  <2>2. rails' = rails \ {Order[k - 1]}
    BY <1>1, <1>6, <2>1 DEF RailsAfter
  <2>3. k - 1 \in 1 .. 4 /\ n <= k - 1
    BY ONLY <1>15, <1>16
  <2>4. PICK m \in 0 .. 4 : m <= k - 1 - 1 /\ rails' = First(m)
    BY <1>15, <2>2, <2>3, OneLess
  <2>5. r # 0 /\ m <= r - 1 /\ k # 1
    BY ONLY <1>4, <1>16, <2>4, m \in 0 .. 4
  <2>6. Level(m)'
    BY ONLY <1>7, <1>11, <2>4, <2>5, Zenon DEF Level
  <2> QED
    BY <2>6 DEF RailsAreALevel
<1>17. ASSUME k \in {1, 6, 7} PROVE RailsAreALevel'
  <2>1. ShutdownStepAt(k).do # "off" /\ ShutdownStepAt(k).do # "on"
    BY <1>17, ShutdownStepDoes
  <2>2. rails' = First(n)
    BY <1>1, <1>6, <1>15, <2>1 DEF RailsAfter
  <2>3. CASE k = 1
    <3>1. n = 0 /\ r = 0 /\ r \notin 1 .. 5
      BY ONLY <1>4, <1>15, <2>3, n \in 0 .. 4
    <3>2. ~awake'
      BY <1>11, <2>3
    <3>3. Level(n)'
      BY ONLY <1>7, <2>2, <3>1, <3>2, Zenon DEF Level
    <3> QED
      BY <3>3 DEF RailsAreALevel
  <2>4. CASE k \in {6, 7}
    <3>1. r # 0 /\ k # 1 /\ (r \in 1 .. 5 => n <= r - 1)
      BY ONLY <1>4, <2>4, n \in 0 .. 4
    <3>2. Level(n)'
      BY ONLY <1>7, <1>11, <2>2, <3>1, Zenon DEF Level
    <3> QED
      BY <3>2 DEF RailsAreALevel
  <2> QED
    BY <1>17, <2>3, <2>4
<1>18. RadioIs'
  <2>1. (Len(shutting) \in 1 .. 5 => ~softdevice) /\ (Len(shutting) = 6 => Head(shutting).do = "disable")
    BY <1>2, ShutdownStepDoes DEF Rest, RadioIs
  <2>a. ASSUME k \in 1 .. 5 PROVE ~softdevice'
    <3>1. ~softdevice
      BY ONLY <1>3, <2>1, <2>a
    <3> QED
      BY ONLY <1>1, <3>1
  <2>b. ASSUME k = 6 PROVE ~softdevice'
    <3>1. Head(shutting).do = "disable"
      BY ONLY <1>3, <2>1, <2>b
    <3> QED
      BY ONLY <1>1, <3>1
  <2>c. k \in 1 .. 6 => k \in 1 .. 5 \/ k = 6
    BY ONLY k \in 1 .. 7
  <2>2. k \in 1 .. 6 => ~softdevice'
    BY <2>a, <2>b, <2>c
  <2>3. (r \in 1 .. 5 => ~softdevice') /\ (r = 0 => ~softdevice')
    BY ONLY <1>4, <2>2, k \in 1 .. 7
  <2> QED
    BY ONLY <1>7, <1>11, <1>12, <2>3, Zenon DEF RadioIs
<1>19. ImuIs'
  <2>1. /\ Len(shutting) \in 1 .. 6 /\ ~enable_imu_wakeup => ~accelerometer
        /\ Head(shutting).do = "standby" <=> k = 7
        /\ Head(shutting).do # "imu"
    BY <1>6, ShutdownStepDoes DEF Rest, ImuIs
  <2>2. ~enable_imu_wakeup' => ~accelerometer'
    <3>1. CASE k = 7
      BY <1>1, <2>1, <3>1 DEF AccelerometerAfter
    <3>2. CASE k \in 1 .. 6
      <4>1. ~enable_imu_wakeup => ~accelerometer
        BY ONLY <1>3, <2>1, <3>2
      <4>2. k # 7
        BY <3>2
      <4>3. accelerometer' = accelerometer
        BY <1>1, <2>1, <4>2 DEF AccelerometerAfter
      <4> QED
        BY <1>1, <4>1, <4>3
    <3>3. k = 7 \/ k \in 1 .. 6
      BY ONLY k \in 1 .. 7
    <3> QED
      BY <3>1, <3>2, <3>3
  <2> QED
    BY ONLY <1>7, <1>11, <1>12, <2>2, Zenon DEF ImuIs
<1>20. k \in 2 .. 5 \/ k \in {1, 6, 7}
  BY ONLY k \in 1 .. 7
<1> QED
  BY <1>8, <1>10, <1>13, <1>16, <1>17, <1>18, <1>19, <1>20 DEF Rest

LEMMA RestInit == Init => Rest
<1> SUFFICES ASSUME Init PROVE Rest
  OBVIOUS
<1>1. /\ main = HardwareSetup /\ shutting = <<>> /\ ~armed /\ ~debounce /\ ~stay_awake /\ awake
      /\ ~enable_imu_wakeup /\ rails = {}
  BY DEF Init
<1>2. main \in Seq(Steps) /\ Len(main) = 14
  BY <1>1, HardwareSetupIs
<1>3. SetUpTail
  <2>1. ASSUME NEW i \in 1 .. Len(main) PROVE main[i] = SetUpStep(Len(main) + 1 - i)
    <3>1. i \in 1 .. 14 /\ Len(main) + 1 - i = 15 - i
      BY <1>2
    <3> QED
      BY <1>1, <3>1, HardwareSetupIs
  <2> QED
    BY <1>2, <2>1 DEF SetUpTail
<1>4. ShutdownTail /\ Len(shutting) = 0
  BY <1>1 DEF ShutdownTail
<1>5. Exclusive /\ RadioIs /\ ImuIs
  BY <1>1, <1>2, <1>4 DEF Exclusive, RadioIs, ImuIs
<1>6. RailsAreALevel
  BY <1>1, <1>2, <1>4, FirstIs DEF RailsAreALevel, Level
<1> QED
  BY <1>3, <1>4, <1>5, <1>6 DEF Rest

LEMMA RestStart ==
  ASSUME Rest, Start, rails' = rails
  PROVE  Rest'
<1>1. PICK n \in 0 .. 4 : rails = First(n)
  BY DEF Rest, RailsAreALevel, Level
<1> QED
  BY <1>1, StartNext DEF Rest

LEMMA RestPinRises ==
  ASSUME Rest, PinRises
  PROVE  Rest'
<1> USE DEF thread, irq, chips
<1>1. CASE ~(awake /\ armed) /\ UNCHANGED <<awake, thread, irq, stay_awake, chips, resets>>
  BY <1>1, RestQuiet
<1>2. CASE /\ awake /\ armed /\ (stay_awake \/ ~transfer)
           /\ EnterShutdown(FALSE)
           /\ UNCHANGED <<awake, thread, stay_awake, chips, resets>>
  <2>1. ~debounce /\ Len(shutting) = 0 /\ Len(main) <= 7
    BY <1>2 DEF Rest, Exclusive
  <2>2. SetUpTail'
    BY <1>2 DEF Rest, SetUpTail
  <2> QED
    BY <1>2, <2>1, <2>2, RestEnters
<1>3. CASE /\ awake /\ armed /\ ~stay_awake /\ transfer
           /\ \/ UNCHANGED <<rails, accelerometer>>
              \/ /\ main # <<>> /\ rails' = RailsAfter(Head(main))
                 /\ accelerometer' = AccelerometerAfter(Head(main))
           /\ Start /\ UNCHANGED resets
  <2>1. CASE UNCHANGED <<rails, accelerometer>>
    BY <1>3, <2>1, RestStart
  <2>2. CASE main # <<>> /\ rails' = RailsAfter(Head(main))
    <3>1. ~debounce /\ Len(shutting) = 0 /\ Len(main) <= 7
      BY <1>3 DEF Rest, Exclusive
    <3>2. Len(main) \in 1 .. 14 /\ Head(main) = SetUpStep(Len(main))
      BY <2>2, SetUpGoesOn DEF Rest
    <3>3. PICK l \in 1 .. 14 : l = Len(main)
      BY <3>2
    <3>4. l <= 7 /\ Head(main) = SetUpStep(l)
      BY ONLY <3>1, <3>2, <3>3
    <3>5. PICK n \in 0 .. 4 : Level(n)
      BY DEF Rest, RailsAreALevel
    <3>6. rails = First(n) /\ (l \in 3 .. 7 => n = 7 - l)
      BY <1>3, <3>1, <3>3, <3>5 DEF Level
    <3>7. CASE l \in 4 .. 7
      <4>1. n \in 0 .. 3 /\ 8 - l = n + 1 /\ n + 1 \in 0 .. 4
        BY ONLY <3>6, <3>7
      <4>2. SetUpStep(l) = [do |-> "on", rail |-> Order[8 - l]]
        BY <3>7, SetUpStepIs
      <4>3. rails' = rails \cup {Order[n + 1]}
        BY <2>2, <3>4, <4>1, <4>2 DEF RailsAfter
      <4>4. rails' = First(n + 1)
        BY <3>6, <4>1, <4>3, OneMore
      <4> QED
        BY <1>3, <4>1, <4>4, StartNext DEF Rest
    <3>8. CASE l \in 1 .. 3
      <4>1. SetUpStep(l).do # "on" /\ SetUpStep(l).do # "off"
        BY <3>8, SetUpStepDoes
      <4>2. rails' = rails
        BY <2>2, <3>4, <4>1 DEF RailsAfter
      <4> QED
        BY <1>3, <4>2, RestStart
    <3>9. l \in 4 .. 7 \/ l \in 1 .. 3
      BY ONLY <3>4, l \in 1 .. 14
    <3> QED
      BY <3>7, <3>8, <3>9
  <2> QED
    BY <1>3, <2>1, <2>2
<1> QED
  BY <1>1, <1>2, <1>3 DEF PinRises

LEMMA RestSetUp ==
  ASSUME Flags, Rest, SetUp
  PROVE  Rest'
<1> USE DEF irq, chips
<1>1. CASE Begin
  <2>1. Len(shutting) = 0
    BY <1>1 DEF Begin, MainRuns, Busy
  <2> QED
    BY <1>1, <2>1, RestQuiet DEF Begin
<1>2. CASE SetRail
  BY <1>2, RestSetRail
<1>3. CASE ReadPin
  BY <1>3, RestMoves DEF ReadPin
<1>4. CASE CheckCase
  <2>1. CASE charging /\ case_detect_pin
    <3>1. /\ NextStep("check") /\ transfer' = FALSE /\ EnterShutdown(FALSE)
          /\ UNCHANGED <<awake, stay_awake, chips>>
      BY <1>4, <2>1 DEF CheckCase
    <3>2. /\ awake /\ ~debounce /\ Len(shutting) = 0 /\ SetUpTail' /\ Len(main) \in 1 .. 14
          /\ SetUpStep(Len(main)).do = "check"
      BY <3>1, MainMoves DEF Rest
    <3>3. Len(main) = 9
      BY <3>2, SetUpStepDoes
    <3>4. ~stay_awake
      BY <3>3 DEF Rest, Exclusive
    <3> QED
      BY <3>1, <3>2, <3>4, RestEnters
  <2>2. CASE ~(charging /\ case_detect_pin)
    BY <1>4, <2>2, RestMoves DEF CheckCase
  <2> QED
    BY <2>1, <2>2
<1>5. CASE Arm
  BY <1>5, RestMoves DEF Arm
<1>6. CASE SetUpSoftDevice
  BY <1>6, RestMoves DEF SetUpSoftDevice
<1>7. CASE OpenImuLibrary
  <2>1. /\ NextStep("imu") /\ transfer' = FALSE /\ accelerometer' = AccelerometerAfter(Head(main))
        /\ UNCHANGED <<awake, irq, stay_awake, rails, softdevice>>
    BY <1>7 DEF OpenImuLibrary
  <2>2. Head(main).do = "imu"
    BY <2>1 DEF NextStep
  <2>3. accelerometer'
    BY <2>1, <2>2 DEF AccelerometerAfter
  <2> QED
    BY <2>1, <2>3, RestMoves
<1>8. CASE StartMainScript
  BY <1>8, RestMoves DEF StartMainScript
<1> QED
  BY <1>1, <1>2, <1>3, <1>4, <1>5, <1>6, <1>7, <1>8 DEF SetUp

LEMMA RestNext ==
  ASSUME Flags, Rest, [Next]_vars
  PROVE  Rest'
<1> USE DEF thread, irq, chips
<1>1. CASE PinRises
  BY <1>1, RestPinRises
<1>2. CASE PinFalls
  BY <1>2, RestQuiet DEF PinFalls
<1>3. CASE ChargerChanges
  BY <1>3, RestQuiet DEF ChargerChanges
<1>4. CASE Wake
  BY <1>4, RestStart DEF Wake
<1>5. CASE Reset
  BY <1>5, RestStart DEF Reset
<1>6. CASE SetUp
  BY <1>6, RestSetUp
<1>7. CASE EndTransfer
  BY <1>7, RestQuiet DEF EndTransfer
<1>8. CASE LuaStayAwake
  <2>1. Len(main) = 0
    BY <1>8 DEF LuaStayAwake, LuaRuns
  <2> QED
    BY <1>8, <2>1, RestQuiet DEF LuaStayAwake
<1>9. CASE LuaSleep
  <2>1. /\ awake /\ ~debounce /\ shutting = <<>> /\ main = <<>> /\ ~transfer /\ EnterShutdown(TRUE)
        /\ UNCHANGED <<awake, thread, stay_awake, chips>>
    BY <1>9 DEF LuaSleep, LuaRuns, MainRuns, Busy
  <2>2. Len(shutting) = 0 /\ Len(main) <= 7
    BY <2>1
  <2>3. SetUpTail'
    BY <2>1 DEF Rest, SetUpTail
  <2> QED
    BY <2>1, <2>2, <2>3, RestEnters
<1>10. CASE Debounced
  BY <1>10, RestDebounced
<1>11. CASE ShutdownStep
  BY <1>11, RestShutdownStep
<1>12. CASE UNCHANGED vars
  BY <1>12, RestQuiet DEF vars
<1> QED
  BY <1>1, <1>2, <1>3, <1>4, <1>5, <1>6, <1>7, <1>8, <1>9, <1>10, <1>11, <1>12 DEF Next

-----------------------------------------------------------------------------
LEMMA Invariance == Spec => []IInv
<1>1. Init => IInv
  BY FlagsInit, RestInit DEF IInv
<1>2. IInv /\ [Next]_vars => IInv'
  BY FlagsNext, RestNext DEF IInv
<1> QED
  BY <1>1, <1>2, PTL DEF Spec

(* The end of a sequence is known by its elements.                         *)
LEMMA EndIs ==
  ASSUME NEW S, NEW s \in Seq(S), NEW t \in Seq(S), NEW m \in Nat, NEW i \in 0 .. m,
         Len(s) = m, Len(t) = m - i, \A j \in 1 .. m - i : t[j] = s[i + j]
  PROVE  t = SubSeq(s, i + 1, m)
<1>1. PICK k \in Int : k = i + 1
  OBVIOUS
<1>2. \A j \in k .. m : s[j] \in S
  <2>1. \A j \in k .. m : j \in 1 .. Len(s)
    BY <1>1
  <2> QED
    BY <2>1
<1>3. /\ SubSeq(s, k, m) \in Seq(S)
      /\ Len(SubSeq(s, k, m)) = IF k <= m THEN m - k + 1 ELSE 0
      /\ \A j \in 1 .. m - k + 1 : SubSeq(s, k, m)[j] = s[k + j - 1]
  BY ONLY <1>2, k \in Int, m \in Nat, SubSeqProperties
<1>4. m - k + 1 = m - i /\ (~(k <= m) => m - i = 0)
  BY ONLY <1>1, i \in 0 .. m, m \in Nat
<1>5. Len(SubSeq(s, k, m)) = m - i
  BY ONLY <1>3, <1>4, Zenon
<1>6. ASSUME NEW j \in 1 .. m - i PROVE SubSeq(s, k, m)[j] = s[i + j]
  <2>1. k + j - 1 = i + j
    BY ONLY <1>1, i \in 0 .. m, m \in Nat, j \in 1 .. m - i
  <2> QED
    BY ONLY <1>3, <1>4, <2>1, j \in 1 .. m - i, Zenon
<1>7. \A j \in 1 .. Len(t) : t[j] = SubSeq(s, k, m)[j]
  BY <1>6, Zenon
<1>8. SubSeq(s, k, m) \in Seq(S)
  BY <1>3
<1>9. t = SubSeq(s, k, m)
  BY ONLY <1>5, <1>7, <1>8, t \in Seq(S), Len(t) = m - i, SeqEqual
<1> QED
  BY ONLY <1>1, <1>9

LEMMA MainIsAnEnd ==
  ASSUME SetUpTail
  PROVE  \E i \in 0 .. Len(HardwareSetup) :
           main = SubSeq(HardwareSetup, i + 1, Len(HardwareSetup))
<1> DEFINE h == HardwareSetup
<1>1. PICK m \in Nat : m = 14
  OBVIOUS
<1>2. h \in Seq(Steps) /\ Len(h) = m
  BY <1>1, HardwareSetupIs
<1>3. \A j \in 1 .. 14 : h[j] = SetUpStep(15 - j)
  BY HardwareSetupIs
<1>4. PICK l \in 0 .. 14 : l = Len(main)
  BY DEF SetUpTail
<1>5. main \in Seq(Steps) /\ (\A j \in 1 .. l : main[j] = SetUpStep(l + 1 - j))
  BY ONLY <1>4, SetUpTail, Zenon DEF SetUpTail
<1> HIDE DEF h
<1>6. PICK i \in 0 .. m : i = m - l
  BY ONLY <1>1, l \in 0 .. 14
<1>7. m - i = l
  BY ONLY <1>6, m \in Nat, l \in 0 .. 14
<1>8. ASSUME NEW j \in 1 .. m - i PROVE main[j] = h[i + j]
  <2>1. j \in 1 .. l /\ i + j \in 1 .. 14 /\ 15 - (i + j) = l + 1 - j
    BY ONLY <1>1, <1>6, <1>7, j \in 1 .. m - i, l \in 0 .. 14
  <2> QED
    BY ONLY <1>3, <1>5, <2>1
<1>9. Len(main) = m - i
  BY ONLY <1>4, <1>7
<1>10. main = SubSeq(h, i + 1, m)
  BY ONLY <1>2, <1>5, <1>8, <1>9, m \in Nat, i \in 0 .. m, EndIs
<1> QED
  BY <1>2, <1>10 DEF h

LEMMA ShuttingIsAnEnd ==
  ASSUME ShutdownTail, enable_imu_wakeup \in BOOLEAN
  PROVE  \E wakeup \in BOOLEAN : \E i \in 0 .. Len(Shutdown(wakeup)) :
           shutting = SubSeq(Shutdown(wakeup), i + 1, Len(Shutdown(wakeup)))
<1> DEFINE h == Shutdown(enable_imu_wakeup)
<1>1. PICK m \in {6, 7} : m = IF enable_imu_wakeup THEN 6 ELSE 7
  OBVIOUS
<1>2. h \in Seq(Steps) /\ Len(h) = m
  BY <1>1, ShutdownIs
<1>3. \A j \in 1 .. m : h[j] = ShutdownStepAt(m + 1 - j)
  BY <1>1, ShutdownIs
<1>4. PICK l \in 0 .. 7 : l = Len(shutting)
  BY DEF ShutdownTail
<1>5. shutting \in Seq(Steps) /\ (\A j \in 1 .. l : shutting[j] = ShutdownStepAt(l + 1 - j))
  BY ONLY <1>4, ShutdownTail, Zenon DEF ShutdownTail
<1>a. enable_imu_wakeup => l <= 6
  BY ONLY <1>4, ShutdownTail DEF ShutdownTail
<1> HIDE DEF h
<1>b. l <= m /\ m \in Nat
  BY <1>1, <1>a
<1>6. PICK i \in 0 .. m : i = m - l
  BY ONLY <1>b, l \in 0 .. 7
<1>7. m - i = l
  BY ONLY <1>6, <1>b, l \in 0 .. 7
<1>8. ASSUME NEW j \in 1 .. m - i PROVE shutting[j] = h[i + j]
  <2>1. j \in 1 .. l /\ i + j \in 1 .. m /\ m + 1 - (i + j) = l + 1 - j
    BY ONLY <1>b, <1>6, <1>7, j \in 1 .. m - i, l \in 0 .. 7
  <2> QED
    BY ONLY <1>3, <1>5, <2>1
<1>9. Len(shutting) = m - i
  BY ONLY <1>4, <1>7
<1>10. shutting = SubSeq(h, i + 1, m)
  BY ONLY <1>2, <1>5, <1>8, <1>9, <1>b, i \in 0 .. m, EndIs
<1> QED
  BY <1>2, <1>10 DEF h

(* Set-up and shutdown() are interrupted anywhere, yet what is left of     *)
(* either is always an end of its steps, and the trigger of the case is    *)
(* disabled while shutdown() runs.                                         *)
THEOREM TypeCorrect == Spec => []TypeOK
<1>1. IInv => TypeOK
  <2> SUFFICES ASSUME IInv PROVE TypeOK
    OBVIOUS
  <2>1. Flags /\ SetUpTail /\ ShutdownTail /\ Exclusive /\ RailsAreALevel
    BY DEF IInv, Rest
  <2>2. {pin, charging, pressed, awake, case_detect_pin, transfer, armed, debounce, enable_imu_wakeup,
         stay_awake, softdevice, accelerometer} \subseteq BOOLEAN
    BY <2>1, Zenon DEF Flags
  <2>3. resets \in 0 .. MaxResets /\ enable_imu_wakeup \in BOOLEAN
    BY <2>1 DEF Flags
  <2>4. /\ shutting # <<>> => Len(shutting) # 0
        /\ Len(shutting) = 0 => shutting = <<>>
    BY <2>1 DEF ShutdownTail
  <2>5. (Busy => ~armed) /\ (debounce => shutting = <<>>) /\ (shutting # <<>> => ~transfer)
    BY ONLY <2>1, <2>4, Zenon DEF Busy, Exclusive
  <2>6. rails \in SUBSET {Order[i] : i \in 1 .. 4}
    <3>1. PICK n \in 0 .. 4 : rails = First(n)
      BY <2>1 DEF RailsAreALevel, Level
    <3>2. \A i \in 1 .. n : i \in 1 .. 4
      OBVIOUS
    <3> QED
      BY <3>1, <3>2, Zenon DEF First
  <2> QED
    BY ONLY <2>1, <2>2, <2>3, <2>5, <2>6, MainIsAnEnd, ShuttingIsAnEnd, Zenon DEF TypeOK
<1> QED
  BY Invariance, <1>1, PTL

(* Wherever set-up or shutdown() is interrupted or reset, in whatever step *)
(* of set_power_rails(): no rail is on while one before it is off.         *)
THEOREM RailsNested == Spec => []RailsAreNested
<1>1. IInv => RailsAreNested
  <2> SUFFICES ASSUME IInv, NEW i \in 1 .. 4, NEW j \in 1 .. 4, i < j, Order[j] \in rails
               PROVE  Order[i] \in rails
    BY DEF RailsAreNested
  <2>1. PICK n \in 0 .. 4 : rails = First(n)
    BY DEF IInv, Rest, RailsAreALevel, Level
  <2>2. PICK k \in 1 .. n : Order[j] = Order[k]
    BY <2>1 DEF First
  <2>3. k \in 1 .. 4 /\ j \in {1, 2, 3, 4} /\ k \in {1, 2, 3, 4}
    OBVIOUS
  <2>4. j = k
    BY ONLY <2>2, <2>3, OrderIs
  <2>5. i \in 1 .. n
    BY <2>4
  <2> QED
    BY <2>1, <2>5 DEF First
<1> QED
  BY Invariance, <1>1, PTL

(* However the device fell asleep, by the case or by frame.sleep(), after  *)
(* any resets: rails and radio are off, and only a device that is to wake  *)
(* by a tap has its accelerometer on.                                      *)
THEOREM AsleepIsOff == Spec => []AsleepMeansOff
<1>1. IInv => AsleepMeansOff
  <2> SUFFICES ASSUME IInv, ~awake
               PROVE  rails = {} /\ ~softdevice /\ (accelerometer => enable_imu_wakeup)
    BY DEF AsleepMeansOff
  <2>1. PICK n \in 0 .. 4 : Level(n)
    BY DEF IInv, Rest, RailsAreALevel
  <2>2. n = 0 /\ rails = First(n)
    BY ONLY <2>1, ~awake, Zenon DEF Level
  <2>3. rails = {}
    BY <2>2, FirstIs
  <2>4. ~softdevice /\ (accelerometer => enable_imu_wakeup)
    BY Zenon DEF IInv, Rest, RadioIs, ImuIs
  <2> QED
    BY <2>3, <2>4
<1> QED
  BY Invariance, <1>1, PTL

(* Lua runs only on a device that is set up as a whole and that the case   *)
(* can put to sleep, whatever was interrupted or reset before.             *)
THEOREM ReadyForLua == Spec => []ReadyWhenLuaRuns
<1>1. IInv => ReadyWhenLuaRuns
  <2> SUFFICES ASSUME IInv, LuaRuns
               PROVE  rails = {Order[i] : i \in 1 .. 4} /\ softdevice /\ accelerometer /\ armed
    BY DEF ReadyWhenLuaRuns
  <2>1. awake /\ ~debounce /\ shutting = <<>> /\ main = <<>>
    BY DEF LuaRuns, MainRuns, Busy
  <2>2. Len(shutting) = 0 /\ Len(main) = 0
    BY <2>1
  <2>3. Len(main) <= 7 /\ Len(main) <= 3 /\ Len(main) <= 2 /\ Len(main) <= 1
    BY ONLY <2>2
  <2>4. armed /\ softdevice /\ accelerometer
    BY ONLY IInv, <2>1, <2>2, <2>3, Zenon DEF IInv, Rest, Exclusive, RadioIs, ImuIs
  <2>5. PICK n \in 0 .. 4 : Level(n)
    BY DEF IInv, Rest, RailsAreALevel
  <2>6. n = 4 /\ rails = First(n)
    BY ONLY <2>1, <2>2, <2>3, <2>5, Zenon DEF Level
  <2> QED
    BY <2>4, <2>6 DEF First
<1> QED
  BY Invariance, <1>1, PTL
================================================================================
