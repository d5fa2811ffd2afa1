--------------------------- MODULE FileLibrary_proofs ---------------------------
(***************************************************************************)
(* Theorems about FileLibrary, for any names, handles and strings, and     *)
(* files of any length: the directory stays sorted, and is the store of    *)
(* named files of FileStore; and lines that fit into the buffer come back. *)
(*                                                                         *)
(* The argument goes from an attribute to a commit to an action.  One      *)
(* deletion or insertion moves each entry by at most one place, and FixId  *)
(* moves the id of an open file with it (DeleteFollowed, CreateFollowed).  *)
(* A commit is up to three of them (ApplyAll, FixAll), and each kind of    *)
(* commit leaves a sorted directory, the entries it is to have, and every  *)
(* open file on its entry (RemoveCommit, CreateCommit, RenameNewCommit,    *)
(* RenameOverCommit).  Each action is then an operation of the store.      *)
(* A reader is behind a newline or at the end of its file (ReadSoFar).     *)
(***************************************************************************)
EXTENDS FileLibrary, SequenceTheorems, WellFoundedInduction, TLAPS

(* The largest and the smallest number of a set.                           *)
LEMMA MaxIs ==
  ASSUME NEW S \in SUBSET Nat, NEW m \in S, \A j \in S : m >= j
  PROVE  Max(S) = m
<1>1. \A x \in S : (\A y \in S : x >= y) => x = m
  OBVIOUS
<1> QED
  BY <1>1 DEF Max

LEMMA MinIs ==
  ASSUME NEW S \in SUBSET Nat, S # {}
  PROVE  Min(S) \in S /\ \A j \in S : Min(S) <= j
<1>1. PICK m \in S : \A j \in S : ~ (<<j, m>> \in OpToRel(<, Nat))
  BY NatLessThanWellFounded, WFMin
<1>2. \A j \in S : m <= j
  <2> TAKE j \in S
  <2>1. j \in Nat /\ m \in Nat
    OBVIOUS
  <2>2. ~ (j < m)
    BY <1>1, <2>1 DEF OpToRel
  <2> QED
    BY <2>1, <2>2
<1> QED
  BY <1>2 DEF Min

-----------------------------------------------------------------------------
(* A commit has up to three attributes; they are applied one after the     *)
(* other.                                                                  *)
LEMMA MaxOfPart ==
  ASSUME NEW n \in 1 .. 3, NEW t \in SUBSET (1 .. n), t # {}
  PROVE  \/ 3 \in t /\ Max(t) = 3
         \/ 3 \notin t /\ 2 \in t /\ Max(t) = 2
         \/ t = {1} /\ Max(t) = 1
<1> t \in SUBSET Nat /\ t \subseteq {1, 2, 3}
  OBVIOUS
<1>1. CASE 3 \in t
  BY <1>1, MaxIs
<1>2. CASE 3 \notin t /\ 2 \in t
  BY <1>2, MaxIs
<1>3. CASE 3 \notin t /\ 2 \notin t
  <2>1. t = {1}
    BY <1>3
  <2> QED
    BY <2>1, MaxIs
<1> QED
  BY <1>1, <1>2, <1>3

LEMMA ApplyAll ==
  ASSUME NEW s, NEW n \in 1 .. 3, NEW attrs, DOMAIN attrs = 1 .. n
  PROVE  /\ n = 1 => FoldLeft(Apply, s, attrs) = Apply(s, attrs[1])
         /\ n = 2 => FoldLeft(Apply, s, attrs) = Apply(Apply(s, attrs[1]), attrs[2])
         /\ n = 3 => FoldLeft(Apply, s, attrs) = Apply(Apply(Apply(s, attrs[1]), attrs[2]), attrs[3])
<1> DEFINE F(it) == [t \in SUBSET (1 .. n) |->
                       IF t = {} THEN s ELSE Apply(it[t \ {Max(t)}], attrs[Max(t)])]
           with(t, k, x) == IF k \in t THEN Apply(x, attrs[k]) ELSE x
           g == [t \in SUBSET (1 .. n) |-> with(t, 3, with(t, 2, with(t, 1, s)))]
           all == CHOOSE it : it = F(it)
<1>1. FoldLeft(Apply, s, attrs) =
        MapThenFoldSet(LAMBDA x, y : Apply(y, x), s, LAMBDA i : attrs[i], LAMBDA S : Max(S), DOMAIN attrs)
  BY DEF FoldLeft
<1>2. MapThenFoldSet(LAMBDA x, y : Apply(y, x), s, LAMBDA i : attrs[i], LAMBDA S : Max(S), 1 .. n)
        = all[1 .. n]
  BY Zenon DEF MapThenFoldSet
<1>3. g = F(g)
  <2>1. ASSUME NEW t \in SUBSET (1 .. n), t # {}
        PROVE  g[t] = Apply(g[t \ {Max(t)}], attrs[Max(t)])
    <3> DEFINE u == t \ {Max(t)}
    <3>1. u \in SUBSET (1 .. n)
      OBVIOUS
    <3>2. CASE 3 \in t /\ Max(t) = 3
      BY <3>1, <3>2
    <3>3. CASE 3 \notin t /\ 2 \in t /\ Max(t) = 2
      BY <3>1, <3>3
    <3>4. CASE t = {1} /\ Max(t) = 1
      BY <3>1, <3>4
    <3> HIDE DEF g, with
    <3> QED
      BY <2>1, <3>2, <3>3, <3>4, MaxOfPart
  <2> HIDE DEF with
  <2>2. \A t \in SUBSET (1 .. n) : g[t] = IF t = {} THEN s ELSE Apply(g[t \ {Max(t)}], attrs[Max(t)])
    BY <2>1 DEF with
  <2>3. g = [t \in SUBSET (1 .. n) |-> g[t]]
    OBVIOUS
  <2> HIDE DEF g
  <2> QED
    BY <2>2, <2>3
<1> HIDE DEF g
<1>4. all = F(all)
  BY <1>3
<1> HIDE DEF all
<1>5. \A t \in SUBSET (1 .. n) : all[t] = IF t = {} THEN s ELSE Apply(all[t \ {Max(t)}], attrs[Max(t)])
  BY <1>4
<1>6. all[{}] = s
  BY <1>5
<1>7. all[{1}] = Apply(s, attrs[1])
  <2>1. Max({1}) = 1 /\ {1} \ {1} = {} /\ {1} \in SUBSET (1 .. n) /\ {1} # {}
    BY MaxIs
  <2> QED
    BY <1>5, <1>6, <2>1
<1>8. n >= 2 => all[{1, 2}] = Apply(all[{1}], attrs[2])
  <2> HAVE n >= 2
  <2>1. Max({1, 2}) = 2 /\ {1, 2} \ {2} = {1} /\ {1, 2} \in SUBSET (1 .. n) /\ {1, 2} # {}
    BY MaxIs
  <2> QED
    BY <1>5, <2>1
<1>9. n = 3 => all[{1, 2, 3}] = Apply(all[{1, 2}], attrs[3])
  <2> HAVE n = 3
  <2>1. Max({1, 2, 3}) = 3 /\ {1, 2, 3} \ {3} = {1, 2} /\ {1, 2, 3} \in SUBSET (1 .. n) /\ {1, 2, 3} # {}
    BY MaxIs
  <2> QED
    BY <1>5, <2>1
<1>10. (n = 1 => 1 .. n = {1}) /\ (n = 2 => 1 .. n = {1, 2} /\ n >= 2)
       /\ (n = 3 => 1 .. n = {1, 2, 3} /\ n >= 2)
  OBVIOUS
<1>11. FoldLeft(Apply, s, attrs) = all[1 .. n]
  BY ONLY <1>1, <1>2, DOMAIN attrs = 1 .. n, Zenon
<1> QED
  BY ONLY <1>7, <1>8, <1>9, <1>10, <1>11, Zenon

(* The same of what they do to the id of an open file.                     *)
LEMMA FixAll ==
  ASSUME NEW f, NEW n \in 1 .. 3, NEW attrs, DOMAIN attrs = 1 .. n
  PROVE  /\ n = 1 => FoldLeft(FixId, f, attrs) = FixId(f, attrs[1])
         /\ n = 2 => FoldLeft(FixId, f, attrs) = FixId(FixId(f, attrs[1]), attrs[2])
         /\ n = 3 => FoldLeft(FixId, f, attrs) = FixId(FixId(FixId(f, attrs[1]), attrs[2]), attrs[3])
<1> DEFINE F(it) == [t \in SUBSET (1 .. n) |->
                       IF t = {} THEN f ELSE FixId(it[t \ {Max(t)}], attrs[Max(t)])]
           with(t, k, x) == IF k \in t THEN FixId(x, attrs[k]) ELSE x
           g == [t \in SUBSET (1 .. n) |-> with(t, 3, with(t, 2, with(t, 1, f)))]
           all == CHOOSE it : it = F(it)
<1>1. FoldLeft(FixId, f, attrs) =
        MapThenFoldSet(LAMBDA x, y : FixId(y, x), f, LAMBDA i : attrs[i], LAMBDA S : Max(S), DOMAIN attrs)
  BY DEF FoldLeft
<1>2. MapThenFoldSet(LAMBDA x, y : FixId(y, x), f, LAMBDA i : attrs[i], LAMBDA S : Max(S), 1 .. n)
        = all[1 .. n]
  BY Zenon DEF MapThenFoldSet
<1>3. g = F(g)
  <2>1. ASSUME NEW t \in SUBSET (1 .. n), t # {}
        PROVE  g[t] = FixId(g[t \ {Max(t)}], attrs[Max(t)])
    <3> DEFINE u == t \ {Max(t)}
    <3>1. u \in SUBSET (1 .. n)
      OBVIOUS
    <3>2. CASE 3 \in t /\ Max(t) = 3
      BY <3>1, <3>2
    <3>3. CASE 3 \notin t /\ 2 \in t /\ Max(t) = 2
      BY <3>1, <3>3
    <3>4. CASE t = {1} /\ Max(t) = 1
      BY <3>1, <3>4
    <3> HIDE DEF g, with
    <3> QED
      BY <2>1, <3>2, <3>3, <3>4, MaxOfPart
  <2> HIDE DEF with
  <2>2. \A t \in SUBSET (1 .. n) : g[t] = IF t = {} THEN f ELSE FixId(g[t \ {Max(t)}], attrs[Max(t)])
    BY <2>1 DEF with
  <2>3. g = [t \in SUBSET (1 .. n) |-> g[t]]
    OBVIOUS
  <2> HIDE DEF g
  <2> QED
    BY <2>2, <2>3
<1> HIDE DEF g
<1>4. all = F(all)
  BY <1>3
<1> HIDE DEF all
<1>5. \A t \in SUBSET (1 .. n) : all[t] = IF t = {} THEN f ELSE FixId(all[t \ {Max(t)}], attrs[Max(t)])
  BY <1>4
<1>6. all[{}] = f
  BY <1>5
<1>7. all[{1}] = FixId(f, attrs[1])
  <2>1. Max({1}) = 1 /\ {1} \ {1} = {} /\ {1} \in SUBSET (1 .. n) /\ {1} # {}
    BY MaxIs
  <2> QED
    BY <1>5, <1>6, <2>1
<1>8. n >= 2 => all[{1, 2}] = FixId(all[{1}], attrs[2])
  <2> HAVE n >= 2
  <2>1. Max({1, 2}) = 2 /\ {1, 2} \ {2} = {1} /\ {1, 2} \in SUBSET (1 .. n) /\ {1, 2} # {}
    BY MaxIs
  <2> QED
    BY <1>5, <2>1
<1>9. n = 3 => all[{1, 2, 3}] = FixId(all[{1, 2}], attrs[3])
  <2> HAVE n = 3
  <2>1. Max({1, 2, 3}) = 3 /\ {1, 2, 3} \ {3} = {1, 2} /\ {1, 2, 3} \in SUBSET (1 .. n) /\ {1, 2, 3} # {}
    BY MaxIs
  <2> QED
    BY <1>5, <2>1
<1>10. (n = 1 => 1 .. n = {1}) /\ (n = 2 => 1 .. n = {1, 2} /\ n >= 2)
       /\ (n = 3 => 1 .. n = {1, 2, 3} /\ n >= 2)
  OBVIOUS
<1>11. FoldLeft(FixId, f, attrs) = all[1 .. n]
  BY ONLY <1>1, <1>2, DOMAIN attrs = 1 .. n, Zenon
<1> QED
  BY ONLY <1>7, <1>8, <1>9, <1>10, <1>11, Zenon

-----------------------------------------------------------------------------
(* What a deletion and an insertion do to a list: which entries it has     *)
(* then, and where the others have gone.                                   *)
LEMMA Removed ==
  ASSUME NEW S, NEW s \in Seq(S), NEW i \in 1 .. Len(s)
  PROVE  LET t == RemoveAt(s, i) IN
           /\ t \in Seq(S) /\ Len(t) = Len(s) - 1
           /\ \A k \in 1 .. Len(t) : t[k] = IF k < i THEN s[k] ELSE s[k + 1]
<1> DEFINE front == SubSeq(s, 1, i - 1)
           back  == SubSeq(s, i + 1, Len(s))
<1>1. front \in Seq(S) /\ Len(front) = i - 1 /\ \A k \in 1 .. i - 1 : front[k] = s[k]
  OBVIOUS
<1>2. back \in Seq(S) /\ Len(back) = Len(s) - i /\ \A k \in 1 .. Len(s) - i : back[k] = s[i + k]
  OBVIOUS
<1>3. RemoveAt(s, i) = front \o back
  BY DEF RemoveAt
<1> HIDE DEF front, back
<1> DEFINE t == front \o back
<1>0. front \in Seq(S) /\ back \in Seq(S)
  BY <1>1, <1>2
<1>4. t \in Seq(S) /\ Len(t) = Len(front) + Len(back)
  BY ONLY <1>0
<1>5. \A k \in 1 .. Len(t) : t[k] = IF k <= Len(front) THEN front[k] ELSE back[k - Len(front)]
  BY ONLY <1>0
<1>6. PICK n \in Nat : n = Len(s)
  OBVIOUS
<1>7. Len(t) = n - 1
  BY <1>1, <1>2, <1>4, <1>6
<1> HIDE DEF t
<1>8. ASSUME NEW k \in 1 .. n - 1
      PROVE  t[k] = IF k < i THEN s[k] ELSE s[k + 1]
  <2>1. t[k] = IF k <= i - 1 THEN front[k] ELSE back[k - (i - 1)]
    BY <1>1, <1>5, <1>7
  <2>2. k <= i - 1 => front[k] = s[k]
    BY <1>1
  <2>3. ~ (k <= i - 1) => back[k - (i - 1)] = s[k + 1]
    <3>1. ~ (k <= i - 1) => k - (i - 1) \in 1 .. Len(s) - i /\ i + (k - (i - 1)) = k + 1
      BY <1>6
    <3> QED
      BY <1>2, <3>1
  <2>4. i \in Nat /\ k \in Nat
    OBVIOUS
  <2> QED
    BY ONLY <2>1, <2>2, <2>3, <2>4
<1> QED
  BY <1>3, <1>4, <1>6, <1>7, <1>8 DEF t

LEMMA Inserted ==
  ASSUME NEW S, NEW s \in Seq(S), NEW i \in 1 .. Len(s) + 1, NEW e \in S
  PROVE  LET t == InsertAt(s, i, e) IN
           /\ t \in Seq(S) /\ Len(t) = Len(s) + 1
           /\ \A k \in 1 .. Len(t) : t[k] = IF k < i THEN s[k] ELSE IF k = i THEN e ELSE s[k - 1]
<1> DEFINE front == SubSeq(s, 1, i - 1)
           back  == SubSeq(s, i, Len(s))
<1>1. front \in Seq(S) /\ Len(front) = i - 1 /\ \A k \in 1 .. i - 1 : front[k] = s[k]
  OBVIOUS
<1>2. back \in Seq(S) /\ Len(back) = Len(s) - i + 1 /\ \A k \in 1 .. Len(s) - i + 1 : back[k] = s[i + k - 1]
  OBVIOUS
<1>3. InsertAt(s, i, e) = front \o <<e>> \o back
  BY DEF InsertAt
<1> HIDE DEF front, back
<1>4. /\ front \o <<e>> \in Seq(S) /\ Len(front \o <<e>>) = i
      /\ \A k \in 1 .. i : (front \o <<e>>)[k] = IF k < i THEN s[k] ELSE e
  BY <1>1
<1> DEFINE head == front \o <<e>>
<1> HIDE DEF head
<1>5. head \in Seq(S) /\ Len(head) = i /\ \A k \in 1 .. i : head[k] = IF k < i THEN s[k] ELSE e
  BY <1>4 DEF head
<1>6. InsertAt(s, i, e) = head \o back
  BY <1>3 DEF head
<1> DEFINE t == head \o back
<1>7. t \in Seq(S) /\ Len(t) = Len(head) + Len(back)
  BY <1>2, <1>5
<1>8. \A k \in 1 .. Len(t) : t[k] = IF k <= Len(head) THEN head[k] ELSE back[k - Len(head)]
  BY <1>2, <1>5
<1>9. PICK n \in Nat : n = Len(s)
  OBVIOUS
<1>10. Len(t) = n + 1
  BY <1>2, <1>5, <1>7, <1>9
<1> HIDE DEF t
<1>11. ASSUME NEW k \in 1 .. n + 1
       PROVE  t[k] = IF k < i THEN s[k] ELSE IF k = i THEN e ELSE s[k - 1]
  <2>1. t[k] = IF k <= i THEN head[k] ELSE back[k - i]
    BY <1>5, <1>8, <1>10
  <2>2. k <= i => head[k] = IF k < i THEN s[k] ELSE e
    BY <1>5
  <2>3. ~ (k <= i) => back[k - i] = s[k - 1]
    <3>1. ~ (k <= i) => k - i \in 1 .. Len(s) - i + 1 /\ i + (k - i) - 1 = k - 1
      BY <1>9
    <3> QED
      BY <1>2, <3>1
  <2>4. i \in Nat /\ k \in Nat
    OBVIOUS
  <2> QED
    BY ONLY <2>1, <2>2, <2>3, <2>4
<1> QED
  BY <1>6, <1>7, <1>9, <1>10, <1>11 DEF t

-----------------------------------------------------------------------------
(* Entries of a directory, open files, and a sorted directory.             *)
Texts == {d \in Seq(Char) : Len(d) <= MaxFile}
Entry == [name : Names, data : Texts]
Files == [mode : Modes, id : Nat, null : BOOLEAN, data : Texts, dirty : BOOLEAN, erred : BOOLEAN,
          pos : Nat, got : Seq(Seq(Char))]

Sorted(s) ==
  /\ s \in Seq(Entry)
  /\ \A i, j \in DOMAIN s : i < j => s[i].name < s[j].name
NamesIn(s) == {s[i].name : i \in DOMAIN s}

LEMMA NameIsNumber ==
  ASSUME NEW e \in Entry
  PROVE  e.name \in Nat \ {0} /\ e.name \in Names /\ e.data \in Texts
<1>1. e.name \in Names /\ e.data \in Texts
  BY DEF Entry
<1> QED
  BY <1>1, FileAssumption

LEMMA NamesDiffer ==
  ASSUME NEW s, Sorted(s), NEW i \in DOMAIN s, NEW j \in DOMAIN s, s[i].name = s[j].name
  PROVE  i = j
<1>1. PICK n \in Nat : n = Len(s) /\ DOMAIN s = 1 .. n
  BY DEF Sorted
<1>2. s[i].name \in Nat /\ s[j].name \in Nat /\ i \in Nat /\ j \in Nat
  <2>1. s[i] \in Entry /\ s[j] \in Entry /\ i \in Nat /\ j \in Nat
    BY <1>1 DEF Sorted
  <2> QED
    BY <2>1, NameIsNumber
<1>3. ~ (i < j) /\ ~ (j < i)
  BY <1>2 DEF Sorted
<1> QED
  BY <1>2, <1>3

LEMMA DeletedIsSorted ==
  ASSUME NEW s, Sorted(s), NEW i \in DOMAIN s
  PROVE  LET t == RemoveAt(s, i) IN
           /\ Sorted(t)
           /\ \A j \in DOMAIN s \ {i} :
                LET k == IF j > i THEN j - 1 ELSE j IN k \in DOMAIN t /\ t[k] = s[j]
           /\ \A k \in DOMAIN t : \E j \in DOMAIN s \ {i} : t[k] = s[j]
<1> DEFINE t == RemoveAt(s, i)
<1>1. PICK n \in Nat : n = Len(s) /\ DOMAIN s = 1 .. n
  BY DEF Sorted
<1>2. /\ t \in Seq(Entry) /\ Len(t) = n - 1
      /\ \A k \in 1 .. Len(t) : t[k] = IF k < i THEN s[k] ELSE s[k + 1]
  BY <1>1, Removed DEF Sorted
<1>3. /\ DOMAIN t = 1 .. n - 1 /\ i \in 1 .. n
      /\ \A k \in 1 .. n - 1 : t[k] = IF k < i THEN s[k] ELSE s[k + 1]
  BY <1>1, <1>2
<1>4. \A j, k \in 1 .. n : j < k => s[j].name < s[k].name
  BY <1>1 DEF Sorted
<1> HIDE DEF t
<1>5. \A j, k \in 1 .. n - 1 : j < k => t[j].name < t[k].name
  BY ONLY <1>3, <1>4, n \in Nat
<1>6. Sorted(t)
  BY <1>2, <1>3, <1>5 DEF Sorted
<1>7. \A j \in 1 .. n \ {i} : (j > i => j - 1 \in 1 .. n - 1 /\ t[j - 1] = s[j])
                            /\ (~ (j > i) => j \in 1 .. n - 1 /\ t[j] = s[j])
  BY ONLY <1>3, n \in Nat
<1>8. \A k \in 1 .. n - 1 : \E j \in 1 .. n \ {i} : t[k] = s[j]
  BY ONLY <1>3, n \in Nat
<1> QED
  BY <1>1, <1>3, <1>6, <1>7, <1>8 DEF t

LEMMA CreatedIsSorted ==
  ASSUME NEW s, Sorted(s), NEW i \in 1 .. Len(s) + 1, NEW e \in Entry,
         \A j \in DOMAIN s : IF j < i THEN s[j].name < e.name ELSE s[j].name > e.name
  PROVE  LET t == InsertAt(s, i, e) IN
           /\ Sorted(t) /\ i \in DOMAIN t /\ t[i] = e
           /\ \A j \in DOMAIN s : LET k == IF j >= i THEN j + 1 ELSE j IN k \in DOMAIN t /\ t[k] = s[j]
           /\ \A k \in DOMAIN t \ {i} : \E j \in DOMAIN s : t[k] = s[j]
<1> DEFINE t == InsertAt(s, i, e)
<1>1. PICK n \in Nat : n = Len(s) /\ DOMAIN s = 1 .. n
  BY DEF Sorted
<1>2. /\ t \in Seq(Entry) /\ Len(t) = n + 1
      /\ \A k \in 1 .. Len(t) : t[k] = IF k < i THEN s[k] ELSE IF k = i THEN e ELSE s[k - 1]
  <2>1. s \in Seq(Entry)
    BY DEF Sorted
  <2>2. /\ t \in Seq(Entry) /\ Len(t) = Len(s) + 1
        /\ \A k \in 1 .. Len(t) : t[k] = IF k < i THEN s[k] ELSE IF k = i THEN e ELSE s[k - 1]
    <3>1. e \in Entry /\ i \in 1 .. Len(s) + 1
      OBVIOUS
    <3> QED
      BY ONLY <2>1, <3>1, Inserted
  <2> QED
    BY ONLY <1>1, <2>2
<1>3. /\ DOMAIN t = 1 .. n + 1 /\ i \in 1 .. n + 1
      /\ \A k \in 1 .. n + 1 : t[k] = IF k < i THEN s[k] ELSE IF k = i THEN e ELSE s[k - 1]
  BY <1>1, <1>2
<1>4. \A j, k \in 1 .. n : j < k => s[j].name < s[k].name
  BY <1>1 DEF Sorted
<1>5. \A j \in 1 .. n : (j < i => s[j].name < e.name) /\ (j >= i => e.name < s[j].name)
  <2>1. \A j \in 1 .. n : s[j] \in Entry
    BY <1>1 DEF Sorted
  <2>2. \A j \in 1 .. n : s[j].name \in Nat /\ e.name \in Nat
    BY <2>1, NameIsNumber
  <2> QED
    BY <1>1, <2>2
<1> HIDE DEF t
<1>6. ASSUME NEW j \in 1 .. n + 1, NEW k \in 1 .. n + 1, j < k
      PROVE  t[j].name < t[k].name
  BY ONLY <1>3, <1>4, <1>5, <1>6, n \in Nat
<1>7. Sorted(t)
  BY <1>2, <1>3, <1>6 DEF Sorted
<1>8. \A j \in 1 .. n : (j >= i => j + 1 \in 1 .. n + 1 /\ t[j + 1] = s[j])
                      /\ (~ (j >= i) => j \in 1 .. n + 1 /\ t[j] = s[j])
  BY ONLY <1>3, n \in Nat
<1>9. \A k \in 1 .. n + 1 \ {i} : \E j \in 1 .. n : t[k] = s[j]
  BY ONLY <1>3, n \in Nat
<1>10. t[i] = e
  BY ONLY <1>3, n \in Nat
<1> QED
  BY <1>1, <1>3, <1>7, <1>8, <1>9, <1>10 DEF t

-----------------------------------------------------------------------------
(* The entries of a directory as a set, and what its names hold.           *)
Entries(s)  == {s[i] : i \in DOMAIN s}
At(s, n)    == CHOOSE i \in DOMAIN s : s[i].name = n
Contents(s) == [n \in NamesIn(s) |-> s[At(s, n)].data]

LEMMA EntryOfName ==
  ASSUME NEW s, Sorted(s)
  PROVE  /\ \A x \in Entries(s) : x \in Entry /\ x.name \in NamesIn(s)
         /\ NamesIn(s) = {x.name : x \in Entries(s)}
         /\ \A x, y \in Entries(s) : x.name = y.name => x = y
         /\ \A i \in DOMAIN s : s[i] \in Entries(s) /\ At(s, s[i].name) = i
         /\ \A n \in NamesIn(s) : At(s, n) \in DOMAIN s /\ s[At(s, n)].name = n
         /\ \A x \in Entries(s) : Contents(s)[x.name] = x.data
<1>1. \A i \in DOMAIN s : s[i] \in Entry
  BY DEF Sorted
<1>2. \A n \in NamesIn(s) : At(s, n) \in DOMAIN s /\ s[At(s, n)].name = n
  BY DEF NamesIn, At
<1>3. \A i \in DOMAIN s : s[i].name \in NamesIn(s)
  BY DEF NamesIn
<1>4. \A i \in DOMAIN s : At(s, s[i].name) = i
  BY <1>2, <1>3, NamesDiffer
<1>5. \A x \in Entries(s) : \E i \in DOMAIN s : x = s[i]
  BY DEF Entries
<1>6. \A i \in DOMAIN s : s[i] \in Entries(s)
  BY DEF Entries
<1>7. NamesIn(s) = {x.name : x \in Entries(s)}
  BY DEF NamesIn, Entries
<1>8. \A x \in Entries(s) : Contents(s)[x.name] = x.data
  BY <1>3, <1>4, <1>5 DEF Contents
<1>9. \A x, y \in Entries(s) : x.name = y.name => x = y
  BY <1>5, NamesDiffer
<1> QED
  BY <1>1, <1>2, <1>3, <1>4, <1>5, <1>6, <1>7, <1>8, <1>9

LEMMA ContentsAre ==
  ASSUME NEW t, Sorted(t), NEW F, F = [n \in NamesIn(t) |-> F[n]],
         \A x \in Entries(t) : F[x.name] = x.data
  PROVE  Contents(t) = F
<1>1. \A n \in NamesIn(t) : t[At(t, n)] \in Entries(t) /\ t[At(t, n)].name = n
  BY EntryOfName
<1> QED
  BY <1>1 DEF Contents

LEMMA OneDeleted ==
  ASSUME NEW s, Sorted(s), NEW d \in DOMAIN s
  PROVE  /\ Sorted(Apply(s, Delete(d)))
         /\ Entries(Apply(s, Delete(d))) = Entries(s) \ {s[d]}
         /\ \A j \in DOMAIN s \ {d} :
              LET k == IF j > d THEN j - 1 ELSE j
              IN  k \in DOMAIN Apply(s, Delete(d)) /\ Apply(s, Delete(d))[k] = s[j]
<1> DEFINE t == RemoveAt(s, d)
<1>1. Apply(s, Delete(d)) = t
  BY DEF Apply, Delete
<1>2. /\ Sorted(t)
      /\ \A j \in DOMAIN s \ {d} : LET k == IF j > d THEN j - 1 ELSE j IN k \in DOMAIN t /\ t[k] = s[j]
      /\ \A k \in DOMAIN t : \E j \in DOMAIN s \ {d} : t[k] = s[j]
  BY DeletedIsSorted
<1> HIDE DEF t
<1>3. \A j \in DOMAIN s \ {d} : s[j] # s[d]
  BY NamesDiffer
<1>4. Entries(t) = Entries(s) \ {s[d]}
  BY <1>2, <1>3 DEF Entries
<1> QED
  BY <1>1, <1>2, <1>4

LEMMA OneCreated ==
  ASSUME NEW s, Sorted(s), NEW p \in 1 .. Len(s) + 1, NEW e \in Entry,
         \A j \in DOMAIN s : IF j < p THEN s[j].name < e.name ELSE s[j].name > e.name
  PROVE  LET t == Apply(s, Create(p, e)) IN
         /\ Sorted(t) /\ Entries(t) = Entries(s) \cup {e}
         /\ p \in DOMAIN t /\ t[p] = e
         /\ \A j \in DOMAIN s : LET k == IF j >= p THEN j + 1 ELSE j IN k \in DOMAIN t /\ t[k] = s[j]
<1> DEFINE t == InsertAt(s, p, e)
<1>1. Apply(s, Create(p, e)) = t
  BY DEF Apply, Create
<1>2. /\ Sorted(t) /\ p \in DOMAIN t /\ t[p] = e
      /\ \A j \in DOMAIN s : LET k == IF j >= p THEN j + 1 ELSE j IN k \in DOMAIN t /\ t[k] = s[j]
      /\ \A k \in DOMAIN t \ {p} : \E j \in DOMAIN s : t[k] = s[j]
  BY CreatedIsSorted
<1> HIDE DEF t
<1>4. Entries(t) = Entries(s) \cup {e}
  BY <1>2 DEF Entries
<1> QED
  BY <1>1, <1>2, <1>4

-----------------------------------------------------------------------------
(* What a commit does to the id of an open file.                           *)
With(f, null, i) == [f EXCEPT !.null = null, !.id = i]

LEMMA WithIs ==
  ASSUME NEW f \in Files, NEW null \in BOOLEAN, NEW i \in Nat
  PROVE  /\ With(f, null, i) \in Files /\ With(f, null, i).null = null /\ With(f, null, i).id = i
         /\ \A n2, i2 : With(With(f, null, i), n2, i2) = With(f, n2, i2)
         /\ f = With(f, f.null, f.id) /\ f # Closed
<1>1. With(f, null, i) \in Files /\ With(f, null, i).null = null /\ With(f, null, i).id = i
  BY DEF With, Files
<1>2. \A n2, i2 : With(With(f, null, i), n2, i2) = With(f, n2, i2)
  BY DEF With, Files
<1>3. f = With(f, f.null, f.id)
  BY DEF With, Files
<1>4. f # Closed
  <2>1. f.mode \in Modes
    BY DEF Files
  <2>2. Closed.mode \notin Modes
    BY DEF Closed, Modes
  <2> QED
    BY <2>1, <2>2
<1> QED
  BY <1>1, <1>2, <1>3, <1>4

(* The other way to say that only the id of a file changes.                *)
LEMMA MovedTo ==
  ASSUME NEW f \in Files, NEW i \in Nat
  PROVE  [f EXCEPT !.id = i] = With(f, f.null, i)
BY DEF With, Files

LEMMA FixDelete ==
  ASSUME NEW f \in Files, NEW i \in Nat \ {0}
  PROVE  FixId(f, Delete(i)) = IF f.id = i THEN With(f, TRUE, 0)
                               ELSE IF f.id > i THEN With(f, f.null, f.id - 1) ELSE With(f, f.null, f.id)
<1>1. f.id \in Nat /\ f = With(f, f.null, f.id)
  BY WithIs DEF Files
<1>2. Delete(i).type = "DELETE" /\ Delete(i).id = i
  BY DEF Delete
<1>3. CASE f.id = i
  BY <1>2, <1>3 DEF FixId, With
<1>4. CASE f.id > i
  <2>1. FixId(f, Delete(i)) = [f EXCEPT !.id = f.id - 1]
    BY <1>1, <1>2, <1>4 DEF FixId
  <2>2. f.id - 1 \in Nat /\ f.id # i
    BY <1>1, <1>4
  <2> QED
    BY <1>4, <2>1, <2>2, MovedTo
<1>5. CASE f.id < i
  <2>1. FixId(f, Delete(i)) = f
    BY <1>1, <1>2, <1>5 DEF FixId
  <2>2. ~ (f.id > i) /\ f.id # i
    BY <1>1, <1>5
  <2> QED
    BY <1>1, <2>1, <2>2
<1>6. f.id = i \/ f.id > i \/ f.id < i
  BY <1>1
<1> QED
  BY <1>3, <1>4, <1>5, <1>6

LEMMA FixCreate ==
  ASSUME NEW f \in Files, NEW i \in Nat \ {0}, NEW e
  PROVE  FixId(f, Create(i, e)) = IF f.id >= i THEN With(f, f.null, f.id + 1) ELSE With(f, f.null, f.id)
<1>1. f.id \in Nat /\ f = With(f, f.null, f.id)
  BY WithIs DEF Files
<1>2. Create(i, e).type = "CREATE" /\ Create(i, e).id = i
  BY DEF Create
<1>3. CASE f.id >= i
  <2>1. FixId(f, Create(i, e)) = [f EXCEPT !.id = f.id + 1]
    BY <1>1, <1>2, <1>3 DEF FixId
  <2>2. f.id + 1 \in Nat
    BY <1>1
  <2> QED
    BY <1>3, <2>1, <2>2, MovedTo
<1>4. CASE f.id < i
  <2>1. FixId(f, Create(i, e)) = f
    BY <1>1, <1>2, <1>4 DEF FixId
  <2>2. ~ (f.id >= i)
    BY <1>1, <1>4
  <2> QED
    BY <1>1, <2>1, <2>2
<1> QED
  BY <1>1, <1>3, <1>4

(* A handle that knows its entry, unless it has lost it; and what a change *)
(* of the directory s into t makes of it: f, now g, has lost its entry if  *)
(* the name is gone, and else knows where it is.                           *)
Tracks(f, s) ==
  f \in Files /\ f.pos <= Len(f.data) /\ IF f.null THEN f.id = 0 ELSE f.id \in DOMAIN s

Follows(f, g, s, t, gone) ==
  /\ Tracks(g, t) /\ g = With(f, g.null, g.id)
  /\ g.null <=> f.null \/ s[f.id].name \in gone
  /\ ~g.null => t[g.id].name = s[f.id].name

LEMMA MovedTracks ==
  ASSUME NEW f \in Files, f.pos <= Len(f.data), NEW null \in BOOLEAN, NEW i \in Nat, NEW t,
         IF null THEN i = 0 ELSE i \in DOMAIN t
  PROVE  LET g == With(f, null, i)
         IN  Tracks(g, t) /\ g = With(f, g.null, g.id) /\ g.null = null /\ g.id = i
<1> DEFINE g == With(f, null, i)
<1>1. g \in Files /\ g.null = null /\ g.id = i
  BY WithIs
<1>2. g.pos = f.pos /\ g.data = f.data
  BY DEF With, Files
<1> QED
  BY <1>1, <1>2 DEF Tracks

LEMMA DeleteFollowed ==
  ASSUME NEW s, Sorted(s), NEW d \in DOMAIN s, NEW f, Tracks(f, s)
  PROVE  Follows(f, FixId(f, Delete(d)), s, Apply(s, Delete(d)), {s[d].name})
<1> DEFINE t == Apply(s, Delete(d))
           g == FixId(f, Delete(d))
<1>1. f \in Files /\ f.id \in Nat /\ f.null \in BOOLEAN /\ f.pos <= Len(f.data)
  BY DEF Tracks, Files
<1>2. d \in Nat \ {0} /\ \A j \in DOMAIN s : j \in Nat
  BY DEF Sorted
<1>3. g = IF f.id = d THEN With(f, TRUE, 0)
          ELSE IF f.id > d THEN With(f, f.null, f.id - 1) ELSE With(f, f.null, f.id)
  BY <1>1, <1>2, FixDelete
<1>4. \A j \in DOMAIN s \ {d} : LET k == IF j > d THEN j - 1 ELSE j IN k \in DOMAIN t /\ t[k] = s[j]
  BY OneDeleted
<1> HIDE DEF t, g
<1>5. CASE f.null
  <2>1. f.id = 0 /\ ~ (0 = d) /\ ~ (0 > d) /\ f.null = TRUE
    BY <1>1, <1>2, <1>5 DEF Tracks
  <2>2. g = With(f, TRUE, 0)
    BY <1>3, <2>1
  <2>3. Tracks(g, t) /\ g = With(f, g.null, g.id) /\ g.null = TRUE
    BY <1>1, <2>2, MovedTracks
  <2> QED
    BY <1>5, <2>3 DEF Follows, t, g
<1>6. CASE ~f.null /\ f.id = d
  <2>1. g = With(f, TRUE, 0)
    BY <1>3, <1>6
  <2>2. Tracks(g, t) /\ g = With(f, g.null, g.id) /\ g.null = TRUE
    BY <1>1, <2>1, MovedTracks
  <2> QED
    BY <1>6, <2>2 DEF Follows, t, g
<1>7. CASE ~f.null /\ f.id # d
  <2> DEFINE k == IF f.id > d THEN f.id - 1 ELSE f.id
  <2>1. f.id \in DOMAIN s /\ f.null = FALSE
    BY <1>1, <1>7 DEF Tracks
  <2>2. k \in Nat /\ k \in DOMAIN t /\ t[k] = s[f.id]
    BY <1>1, <1>2, <1>4, <1>7, <2>1
  <2>3. g = With(f, FALSE, k)
    BY <1>3, <1>7, <2>1
  <2> HIDE DEF k
  <2>4. Tracks(g, t) /\ g = With(f, g.null, g.id) /\ g.null = FALSE /\ g.id = k
    BY <1>1, <2>2, <2>3, MovedTracks
  <2>5. s[f.id].name # s[d].name
    BY <1>7, <2>1, NamesDiffer
  <2> QED
    BY <2>1, <2>2, <2>4, <2>5 DEF Follows, t, g
<1> QED
  BY <1>5, <1>6, <1>7

(* The name e of the insertion goes between the names around it.           *)
Fits(s, p, e) ==
  /\ p \in 1 .. Len(s) + 1 /\ e \in Entry
  /\ \A j \in DOMAIN s : IF j < p THEN s[j].name < e.name ELSE s[j].name > e.name

LEMMA CreateFollowed ==
  ASSUME NEW s, Sorted(s), NEW p, NEW e, Fits(s, p, e), NEW f, Tracks(f, s)
  PROVE  Follows(f, FixId(f, Create(p, e)), s, Apply(s, Create(p, e)), {})
<1> DEFINE t == Apply(s, Create(p, e))
           g == FixId(f, Create(p, e))
<1>1. f \in Files /\ f.id \in Nat /\ f.null \in BOOLEAN /\ f.pos <= Len(f.data)
  BY DEF Tracks, Files
<1>2. p \in Nat \ {0} /\ \A j \in DOMAIN s : j \in Nat
  BY DEF Sorted, Fits
<1>3. g = IF f.id >= p THEN With(f, f.null, f.id + 1) ELSE With(f, f.null, f.id)
  BY <1>1, <1>2, FixCreate
<1>4. \A j \in DOMAIN s : LET k == IF j >= p THEN j + 1 ELSE j IN k \in DOMAIN t /\ t[k] = s[j]
  BY OneCreated DEF Fits
<1> HIDE DEF t, g
<1>5. CASE f.null
  <2>1. f.id = 0 /\ ~ (0 >= p) /\ f.null = TRUE
    BY <1>1, <1>2, <1>5 DEF Tracks
  <2>2. g = With(f, TRUE, 0)
    BY <1>3, <2>1
  <2>3. Tracks(g, t) /\ g = With(f, g.null, g.id) /\ g.null = TRUE
    BY <1>1, <2>2, MovedTracks
  <2> QED
    BY <1>5, <2>3 DEF Follows, t, g
<1>6. CASE ~f.null
  <2> DEFINE k == IF f.id >= p THEN f.id + 1 ELSE f.id
  <2>1. f.id \in DOMAIN s /\ f.null = FALSE
    BY <1>1, <1>6 DEF Tracks
  <2>2. k \in Nat /\ k \in DOMAIN t /\ t[k] = s[f.id]
    BY <1>1, <1>2, <1>4, <2>1
  <2>3. g = With(f, FALSE, k)
    BY <1>3, <2>1
  <2> HIDE DEF k
  <2>4. Tracks(g, t) /\ g = With(f, g.null, g.id) /\ g.null = FALSE /\ g.id = k
    BY <1>1, <2>2, <2>3, MovedTracks
  <2> QED
    BY <2>1, <2>2, <2>4 DEF Follows, t, g
<1> QED
  BY <1>5, <1>6

LEMMA FollowsOn ==
  ASSUME NEW f, NEW g, NEW h, NEW s, NEW t, NEW u, NEW gone, NEW more,
         Tracks(f, s), Follows(f, g, s, t, gone), Follows(g, h, t, u, more)
  PROVE  Follows(f, h, s, u, gone \cup more)
<1>1. f \in Files /\ g \in Files /\ h \in Files /\ g.null \in BOOLEAN /\ g.id \in Nat
  BY DEF Tracks, Follows, Files
<1>2. h = With(f, h.null, h.id)
  <2>1. With(With(f, g.null, g.id), h.null, h.id) = With(f, h.null, h.id)
    BY <1>1, WithIs
  <2>2. g = With(f, g.null, g.id) /\ h = With(g, h.null, h.id)
    BY DEF Follows
  <2> QED
    BY <2>1, <2>2
<1> QED
  BY <1>2 DEF Follows

(* A handle that has lost its entry is not corrected any more.             *)
LEMMA LostFollows ==
  ASSUME NEW f, NEW s, NEW t, NEW gone, Tracks(f, s), f.null
  PROVE  Follows(f, f, s, t, gone)
BY WithIs DEF Follows, Tracks, Files

LEMMA TracksIsOpen ==
  ASSUME NEW f, NEW s, Tracks(f, s)
  PROVE  f \in Files /\ f # Closed /\ f.null \in BOOLEAN
BY WithIs DEF Tracks, Files

-----------------------------------------------------------------------------
(* The commits.  Each leaves the directory sorted, with the entries it is  *)
(* to have, and every open file on its entry.                              *)
Applied(s, attrs) == FoldLeft(Apply, s, attrs)
Fixed(f, attrs)   == FoldLeft(FixId, f, attrs)

LEMMA FoldOfOne ==
  ASSUME NEW x, NEW a
  PROVE  Applied(x, <<a>>) = Apply(x, a) /\ Fixed(x, <<a>>) = FixId(x, a)
<1> DEFINE attrs == <<a>>
<1>1. DOMAIN attrs = 1 .. 1 /\ attrs[1] = a /\ 1 \in 1 .. 3
  OBVIOUS
<1> HIDE DEF attrs
<1>2. Applied(x, attrs) = Apply(x, attrs[1]) /\ Fixed(x, attrs) = FixId(x, attrs[1])
  BY ONLY <1>1, ApplyAll, FixAll, Zenon DEF Applied, Fixed
<1> QED
  BY <1>1, <1>2 DEF attrs

LEMMA FoldOfTwo ==
  ASSUME NEW x, NEW a, NEW b
  PROVE  Applied(x, <<a, b>>) = Apply(Apply(x, a), b)
         /\ Fixed(x, <<a, b>>) = FixId(FixId(x, a), b)
<1> DEFINE attrs == <<a, b>>
<1>1. DOMAIN attrs = 1 .. 2 /\ attrs[1] = a /\ attrs[2] = b /\ 2 \in 1 .. 3
  OBVIOUS
<1> HIDE DEF attrs
<1>2. Applied(x, attrs) = Apply(Apply(x, attrs[1]), attrs[2])
      /\ Fixed(x, attrs) = FixId(FixId(x, attrs[1]), attrs[2])
  BY ONLY <1>1, ApplyAll, FixAll, Zenon DEF Applied, Fixed
<1> QED
  BY <1>1, <1>2 DEF attrs

LEMMA FoldOfThree ==
  ASSUME NEW x, NEW a, NEW b, NEW c
  PROVE  Applied(x, <<a, b, c>>) = Apply(Apply(Apply(x, a), b), c)
         /\ Fixed(x, <<a, b, c>>) = FixId(FixId(FixId(x, a), b), c)
<1> DEFINE attrs == <<a, b, c>>
<1>1. DOMAIN attrs = 1 .. 3 /\ attrs[1] = a /\ attrs[2] = b /\ attrs[3] = c /\ 3 \in 1 .. 3
  OBVIOUS
<1> HIDE DEF attrs
<1>2. Applied(x, attrs) = Apply(Apply(Apply(x, attrs[1]), attrs[2]), attrs[3])
      /\ Fixed(x, attrs) = FixId(FixId(FixId(x, attrs[1]), attrs[2]), attrs[3])
  BY ONLY <1>1, ApplyAll, FixAll, Zenon DEF Applied, Fixed
<1> QED
  BY <1>1, <1>2 DEF attrs

LEMMA RemoveCommit ==
  ASSUME NEW s, Sorted(s), NEW d \in DOMAIN s
  PROVE  LET attrs == << Delete(d) >>
             t     == Applied(s, attrs)
         IN  /\ Sorted(t) /\ Entries(t) = Entries(s) \ {s[d]}
             /\ \A f : Tracks(f, s) => Follows(f, FixIds(f, attrs), s, t, {s[d].name})
<1> DEFINE t == Apply(s, Delete(d))
<1>1. Applied(s, << Delete(d) >>) = t
  BY FoldOfOne
<1>2. Sorted(t) /\ Entries(t) = Entries(s) \ {s[d]}
  BY OneDeleted
<1>3. ASSUME NEW f, Tracks(f, s)
      PROVE  Follows(f, FixIds(f, << Delete(d) >>), s, t, {s[d].name})
  <2>1. CASE f.null
    BY <1>3, <2>1, LostFollows, TracksIsOpen DEF FixIds
  <2>2. CASE ~f.null
    <3>1. FixIds(f, << Delete(d) >>) = FixId(f, Delete(d))
      <4>1. FixIds(f, << Delete(d) >>) = Fixed(f, << Delete(d) >>)
        BY <1>3, <2>2, TracksIsOpen DEF FixIds, Fixed
      <4> QED
        BY <4>1, FoldOfOne
    <3> QED
      BY <1>3, <3>1, DeleteFollowed
  <2> QED
    BY <2>1, <2>2
<1> HIDE DEF t
<1> QED
  BY <1>1, <1>2, <1>3

LEMMA CreateCommit ==
  ASSUME NEW s, Sorted(s), NEW p, NEW e, Fits(s, p, e)
  PROVE  LET attrs == << Create(p, e) >>
             t     == Applied(s, attrs)
         IN  /\ Sorted(t) /\ Entries(t) = Entries(s) \cup {e} /\ p \in DOMAIN t /\ t[p] = e
             /\ \A f : Tracks(f, s) => Follows(f, FixIds(f, attrs), s, t, {})
<1> DEFINE t == Apply(s, Create(p, e))
<1>1. Applied(s, << Create(p, e) >>) = t
  BY FoldOfOne
<1>2. Sorted(t) /\ Entries(t) = Entries(s) \cup {e} /\ p \in DOMAIN t /\ t[p] = e
  BY OneCreated DEF Fits
<1>3. ASSUME NEW f, Tracks(f, s)
      PROVE  Follows(f, FixIds(f, << Create(p, e) >>), s, t, {})
  <2>1. CASE f.null
    BY <1>3, <2>1, LostFollows, TracksIsOpen DEF FixIds
  <2>2. CASE ~f.null
    <3>1. FixIds(f, << Create(p, e) >>) = FixId(f, Create(p, e))
      <4>1. FixIds(f, << Create(p, e) >>) = Fixed(f, << Create(p, e) >>)
        BY <1>3, <2>2, TracksIsOpen DEF FixIds, Fixed
      <4> QED
        BY <4>1, FoldOfOne
    <3> QED
      BY <1>3, <3>1, CreateFollowed
  <2> QED
    BY <2>1, <2>2
<1> HIDE DEF t
<1> QED
  BY <1>1, <1>2, <1>3

LEMMA RenameNewCommit ==
  ASSUME NEW s, Sorted(s), NEW p, NEW e, Fits(s, p, e), NEW a \in DOMAIN s
  PROVE  LET attrs == << Create(p, e), Delete(IF p <= a THEN a + 1 ELSE a) >>
             t     == Applied(s, attrs)
         IN  /\ Sorted(t) /\ Entries(t) = (Entries(s) \cup {e}) \ {s[a]}
             /\ \A f : Tracks(f, s) => Follows(f, FixIds(f, attrs), s, t, {s[a].name})
<1> DEFINE b     == IF p <= a THEN a + 1 ELSE a
           attrs == << Create(p, e), Delete(b) >>
           r     == Apply(s, Create(p, e))
           t     == Apply(r, Delete(b))
<1>1. Applied(s, attrs) = t
  BY FoldOfTwo
<1>2. Sorted(r) /\ Entries(r) = Entries(s) \cup {e} /\ b \in DOMAIN r /\ r[b] = s[a]
  <2>1. a \in Nat /\ p \in Nat
    BY DEF Sorted, Fits
  <2> HIDE DEF r
  <2>2. Sorted(r) /\ Entries(r) = Entries(s) \cup {e}
        /\ LET k == IF a >= p THEN a + 1 ELSE a IN k \in DOMAIN r /\ r[k] = s[a]
    BY OneCreated DEF Fits, r
  <2> QED
    BY <2>1, <2>2
<1>3. Sorted(t) /\ Entries(t) = (Entries(s) \cup {e}) \ {s[a]}
  BY <1>2, OneDeleted
<1> HIDE DEF b, r
<1>4. ASSUME NEW f, Tracks(f, s)
      PROVE  Follows(f, FixIds(f, attrs), s, t, {s[a].name})
  <2>1. CASE f.null
    BY <1>4, <2>1, LostFollows, TracksIsOpen DEF FixIds
  <2>2. CASE ~f.null
    <3> DEFINE g == FixId(f, Create(p, e))
    <3>1. FixIds(f, attrs) = FixId(g, Delete(b))
      <4>1. FixIds(f, attrs) = Fixed(f, attrs)
        BY <1>4, <2>2, TracksIsOpen DEF FixIds, Fixed
      <4> QED
        BY <4>1, FoldOfTwo
    <3>2. Follows(f, g, s, r, {}) /\ Tracks(g, r)
      BY <1>4, CreateFollowed DEF Follows, r
    <3> HIDE DEF g
    <3>3. Follows(g, FixId(g, Delete(b)), r, t, {s[a].name})
      BY <1>2, <3>2, DeleteFollowed
    <3>4. {} \cup {s[a].name} = {s[a].name}
      OBVIOUS
    <3> QED
      BY <1>4, <3>1, <3>2, <3>3, <3>4, FollowsOn
  <2> QED
    BY <2>1, <2>2
<1> HIDE DEF t
<1> QED
  BY <1>1, <1>3, <1>4 DEF b

LEMMA RenameOverCommit ==
  ASSUME NEW s, Sorted(s), NEW d \in DOMAIN s, NEW a \in DOMAIN s, a # d,
         NEW e \in Entry, e.name = s[d].name
  PROVE  LET attrs == << Delete(d), Create(d, e), Delete(a) >>
             t     == Applied(s, attrs)
         IN  /\ Sorted(t) /\ Entries(t) = ((Entries(s) \ {s[d]}) \cup {e}) \ {s[a]}
             /\ \A f : Tracks(f, s) => Follows(f, FixIds(f, attrs), s, t, {s[a].name, s[d].name})
<1> DEFINE attrs == << Delete(d), Create(d, e), Delete(a) >>
           q     == Apply(s, Delete(d))
           r     == Apply(q, Create(d, e))
           t     == Apply(r, Delete(a))
           c     == IF a > d THEN a - 1 ELSE a
<1>1. Applied(s, attrs) = t
  BY FoldOfThree
<1>2. Sorted(q) /\ Entries(q) = Entries(s) \ {s[d]} /\ c \in DOMAIN q /\ q[c] = s[a]
  BY OneDeleted
<1>3. PICK n \in Nat : n = Len(s) /\ DOMAIN s = 1 .. n /\ s \in Seq(Entry)
  BY DEF Sorted
<1>4. q = RemoveAt(s, d)
  BY DEF Apply, Delete
<1>5. /\ q \in Seq(Entry) /\ Len(q) = n - 1
      /\ \A k \in 1 .. Len(q) : q[k] = IF k < d THEN s[k] ELSE s[k + 1]
  BY <1>3, <1>4, Removed
<1> HIDE DEF q
<1>6. Fits(q, d, e)
  <2>1. \A j \in 1 .. n : s[j].name \in Nat /\ s[j] \in Entry
    BY <1>3, NameIsNumber
  <2>2. \A j \in 1 .. n : (j < d => s[j].name < e.name) /\ (j > d => s[j].name > e.name)
    <3>1. \A i, j \in 1 .. n : i < j => s[i].name < s[j].name
      BY <1>3 DEF Sorted
    <3> QED
      BY <1>3, <2>1, <3>1
  <2>3. DOMAIN q = 1 .. n - 1 /\ d \in 1 .. Len(q) + 1 /\ d \in 1 .. n
    BY <1>3, <1>5
  <2>4. \A k \in 1 .. n - 1 : q[k] = IF k < d THEN s[k] ELSE s[k + 1]
    BY <1>3, <1>5
  <2>5. \A j \in 1 .. n - 1 : IF j < d THEN q[j].name < e.name ELSE q[j].name > e.name
    BY <1>3, <2>2, <2>3, <2>4, SMTT(30)
  <2> QED
    BY <2>3, <2>5 DEF Fits
<1>7. Sorted(r) /\ Entries(r) = (Entries(s) \ {s[d]}) \cup {e} /\ a \in DOMAIN r /\ r[a] = s[a]
  <2> HIDE DEF r, c
  <2>1. Sorted(r) /\ Entries(r) = Entries(q) \cup {e}
        /\ LET k == IF c >= d THEN c + 1 ELSE c IN k \in DOMAIN r /\ r[k] = q[c]
    BY <1>2, <1>6, OneCreated DEF Fits, r
  <2>2. (IF c >= d THEN c + 1 ELSE c) = a
    BY <1>3 DEF c
  <2> QED
    BY <1>2, <2>1, <2>2
<1> HIDE DEF r
<1>8. Sorted(t) /\ Entries(t) = ((Entries(s) \ {s[d]}) \cup {e}) \ {s[a]}
  BY <1>7, OneDeleted
<1>9. ASSUME NEW f, Tracks(f, s)
      PROVE  Follows(f, FixIds(f, attrs), s, t, {s[a].name, s[d].name})
  <2>1. CASE f.null
    BY <1>9, <2>1, LostFollows, TracksIsOpen DEF FixIds
  <2>2. CASE ~f.null
    <3> DEFINE g == FixId(f, Delete(d))
               h == FixId(g, Create(d, e))
    <3>1. FixIds(f, attrs) = FixId(h, Delete(a))
      <4>1. FixIds(f, attrs) = Fixed(f, attrs)
        BY <1>9, <2>2, TracksIsOpen DEF FixIds, Fixed
      <4> QED
        BY <4>1, FoldOfThree
    <3>2. Follows(f, g, s, q, {s[d].name}) /\ Tracks(g, q)
      BY <1>9, DeleteFollowed DEF Follows, q
    <3> HIDE DEF g
    <3>3. Follows(g, h, q, r, {}) /\ Tracks(h, r)
      BY <1>2, <1>6, <3>2, CreateFollowed DEF Follows, r
    <3> HIDE DEF h
    <3>4. Follows(h, FixId(h, Delete(a)), r, t, {s[a].name})
      BY <1>7, <3>3, DeleteFollowed
    <3>5. Follows(f, h, s, r, {s[d].name} \cup {})
      BY <1>9, <3>2, <3>3, FollowsOn
    <3>6. Follows(f, FixId(h, Delete(a)), s, t, ({s[d].name} \cup {}) \cup {s[a].name})
      BY <1>9, <3>4, <3>5, FollowsOn
    <3>7. ({s[d].name} \cup {}) \cup {s[a].name} = {s[a].name, s[d].name}
      OBVIOUS
    <3> QED
      BY <3>1, <3>6, <3>7
  <2> QED
    BY <2>1, <2>2
<1> HIDE DEF t
<1> QED
  BY <1>1, <1>8, <1>9

(* The place of a new name is where it fits.                               *)
LEMMA NewIdFits ==
  ASSUME Sorted(dir), NEW n \in Names, ~Exists(n), NEW e \in Entry, e.name = n
  PROVE  Fits(dir, NewId(n), e)
<1>1. PICK m \in Nat : m = Len(dir) /\ DOMAIN dir = 1 .. m /\ dir \in Seq(Entry)
  BY DEF Sorted
<1>2. n \in Nat /\ \A j \in 1 .. m : dir[j].name \in Nat /\ dir[j].name # n
  BY <1>1, FileAssumption, NameIsNumber DEF Exists
<1> DEFINE places == {i \in DOMAIN dir : dir[i].name > n} \cup {Len(dir) + 1}
           p == NewId(n)
<1>3. places \in SUBSET Nat /\ places # {}
  BY <1>1
<1>4. p \in places /\ \A j \in places : p <= j
  BY <1>3, MinIs DEF NewId
<1> HIDE DEF p
<1>5. p \in 1 .. m + 1
  BY <1>1, <1>4
<1>6. \A i, j \in 1 .. m : i < j => dir[i].name < dir[j].name
  BY <1>1 DEF Sorted
<1>7. ASSUME NEW j \in 1 .. m, j < p
      PROVE  dir[j].name < n
  <2>1. ~ (dir[j].name > n)
    BY <1>1, <1>4, <1>5, <1>7
  <2> QED
    BY <1>2, <2>1
<1>8. ASSUME NEW j \in 1 .. m, ~ (j < p)
      PROVE  dir[j].name > n
  <2>1. p \in 1 .. m /\ dir[p].name > n
    BY <1>1, <1>4, <1>5, <1>8
  <2> QED
    BY <1>2, <1>6, <1>8, <2>1
<1> QED
  BY <1>1, <1>5, <1>7, <1>8 DEF Fits, p

-----------------------------------------------------------------------------
(* The invariant: a sorted directory, and every open file knows its entry  *)
(* in it or has lost it.                                                   *)
HandlesTrack ==
  /\ handles \in [Handles -> Files \cup {Closed}]
  /\ \A h \in Handles : handles[h] # Closed => Tracks(handles[h], dir)

IInv == Sorted(dir) /\ eof_line \in BOOLEAN /\ HandlesTrack

(* What the store of named files knows of a handle.                        *)
View(f, s) ==
  IF f = Closed THEN Closed
  ELSE [name |-> IF f.null THEN 0 ELSE s[f.id].name, mode |-> f.mode, data |-> f.data,
        publish |-> f.dirty /\ ~f.erred]

LEMMA ViewIs ==
  ASSUME NEW f, NEW s, Sorted(s), Tracks(f, s)
  PROVE  /\ View(f, s) = [name |-> IF f.null THEN 0 ELSE s[f.id].name, mode |-> f.mode, data |-> f.data,
                          publish |-> f.dirty /\ ~f.erred]
         /\ View(f, s) # Closed
         /\ f.null => View(f, s).name = 0
         /\ ~f.null => View(f, s).name = s[f.id].name /\ s[f.id].name \in Names /\ s[f.id].name # 0
<1> DEFINE v == [name |-> IF f.null THEN 0 ELSE s[f.id].name, mode |-> f.mode, data |-> f.data,
                 publish |-> f.dirty /\ ~f.erred]
<1>1. View(f, s) = v
  BY TracksIsOpen DEF View
<1>2. v.mode \in Modes /\ v.name = IF f.null THEN 0 ELSE s[f.id].name
  BY DEF Tracks, Files
<1>3. Closed.mode \notin Modes
  BY DEF Closed, Modes
<1> HIDE DEF v
<1>4. v # Closed
  BY <1>2, <1>3
<1>5. ~f.null => s[f.id] \in Entry
  BY DEF Tracks, Sorted
<1>6. ~f.null => s[f.id].name \in Names /\ s[f.id].name # 0
  BY <1>5, NameIsNumber
<1> QED
  BY <1>1, <1>2, <1>4, <1>6 DEF v

LEMMA FollowedView ==
  ASSUME NEW f, NEW g, NEW s, NEW t, NEW gone, Sorted(s), Sorted(t), 0 \notin gone,
         Tracks(f, s), Follows(f, g, s, t, gone)
  PROVE  View(g, t) = IF View(f, s).name \in gone THEN [View(f, s) EXCEPT !.name = 0] ELSE View(f, s)
<1>1. f \in Files /\ g \in Files /\ f.null \in BOOLEAN /\ g.null \in BOOLEAN
  BY DEF Tracks, Follows, Files
<1>2. g.mode = f.mode /\ g.data = f.data /\ g.dirty = f.dirty /\ g.erred = f.erred
  <2>1. g = With(f, g.null, g.id)
    BY DEF Follows
  <2>2. LET w == With(f, g.null, g.id)
        IN  w.mode = f.mode /\ w.data = f.data /\ w.dirty = f.dirty /\ w.erred = f.erred
    BY <1>1 DEF With, Files
  <2> QED
    BY <2>1, <2>2
<1>3. Tracks(g, t)
  BY DEF Follows
<1>4. CASE f.null
  <2>1. g.null
    BY <1>4 DEF Follows
  <2> QED
    BY <1>2, <1>3, <1>4, <2>1, ViewIs
<1>5. CASE ~f.null /\ s[f.id].name \in gone
  <2>1. g.null
    BY <1>5 DEF Follows
  <2> QED
    BY <1>2, <1>3, <1>5, <2>1, ViewIs
<1>6. CASE ~f.null /\ s[f.id].name \notin gone
  <2>1. ~g.null /\ t[g.id].name = s[f.id].name
    BY <1>6 DEF Follows
  <2> QED
    BY <1>2, <1>3, <1>6, <2>1, ViewIs
<1> QED
  BY <1>4, <1>5, <1>6

LEMMA StoreIs == StoreOf = Contents(dir)
BY DEF StoreOf, Contents, NamesIn, At, IdOf

LEMMA HandlesAre ==
  /\ HandlesOf = [h \in Handles |-> View(handles[h], dir)]
  /\ HandlesOf' = [h \in Handles |-> View(handles'[h], dir')]
  /\ StoreOf' = Contents(dir')
BY DEF HandlesOf, HandleOf, View, StoreOf, Contents, NamesIn, At, IdOf

(* A step of one handle that leaves the directory alone.                   *)
LEMMA OneHandle ==
  ASSUME IInv, NEW h \in Handles, NEW g, g = Closed \/ Tracks(g, dir),
         handles' = [handles EXCEPT ![h] = g], dir' = dir, eof_line' \in BOOLEAN
  PROVE  IInv' /\ HandlesOf' = [HandlesOf EXCEPT ![h] = View(g, dir)] /\ StoreOf' = StoreOf
<1>1. g \in Files \cup {Closed}
  BY DEF Tracks
<1>2. IInv'
  BY <1>1 DEF IInv, HandlesTrack
<1>3. HandlesOf' = [HandlesOf EXCEPT ![h] = View(g, dir)]
  BY HandlesAre DEF IInv, HandlesTrack
<1>4. StoreOf' = StoreOf
  BY StoreIs, HandlesAre
<1> QED
  BY <1>2, <1>3, <1>4

(* A commit, seen from the handles.                                        *)
LEMMA FixedHandles ==
  ASSUME IInv, NEW t, Sorted(t), NEW attrs, NEW gone, 0 \notin gone,
         \A f : Tracks(f, dir) => Follows(f, FixIds(f, attrs), dir, t, gone),
         NEW h \in Handles
  PROVE  LET g == FixIds(handles[h], attrs)
             v == View(handles[h], dir)
         IN  /\ g = Closed \/ Tracks(g, t)
             /\ View(g, t) = IF v # Closed /\ v.name \in gone THEN [v EXCEPT !.name = 0] ELSE v
<1>1. CASE handles[h] = Closed
  BY <1>1 DEF FixIds, View
<1>2. CASE handles[h] # Closed
  <2>1. Tracks(handles[h], dir) /\ Sorted(dir)
    BY <1>2 DEF IInv, HandlesTrack
  <2>2. Follows(handles[h], FixIds(handles[h], attrs), dir, t, gone)
    BY <2>1
  <2>3. Tracks(FixIds(handles[h], attrs), t)
    BY <2>2 DEF Follows
  <2>4. View(handles[h], dir) # Closed
    BY <2>1, ViewIs
  <2> QED
    BY <2>1, <2>2, <2>3, <2>4, FollowedView
<1> QED
  BY <1>1, <1>2

-----------------------------------------------------------------------------
(* Each action keeps the invariant, and is an operation of the store or    *)
(* leaves it and its handles as they are.                                  *)
LEMMA NameIsKnown ==
  ASSUME IInv, NEW n
  PROVE  /\ Exists(n) <=> n \in NamesIn(dir)
         /\ Exists(n) => /\ IdOf(n) \in DOMAIN dir /\ dir[IdOf(n)].name = n /\ dir[IdOf(n)] \in Entry
                         /\ StoreOf[n] = dir[IdOf(n)].data
         /\ DOMAIN StoreOf = NamesIn(dir)
<1>1. Sorted(dir)
  BY DEF IInv
<1>2. Exists(n) <=> n \in NamesIn(dir)
  BY DEF Exists, NamesIn
<1>3. DOMAIN StoreOf = NamesIn(dir)
  BY StoreIs DEF Contents
<1>4. IdOf(n) = At(dir, n)
  BY DEF IdOf, At
<1>5. n \in NamesIn(dir) => At(dir, n) \in DOMAIN dir /\ dir[At(dir, n)].name = n
  BY <1>1, EntryOfName
<1>6. n \in NamesIn(dir) => StoreOf[n] = dir[At(dir, n)].data
  BY StoreIs DEF Contents
<1>7. n \in NamesIn(dir) => dir[At(dir, n)] \in Entry
  BY <1>1, <1>5 DEF Sorted
<1> QED
  BY <1>2, <1>3, <1>4, <1>5, <1>6, <1>7

LEMMA NoText == <<>> \in Texts /\ Len(<<>>) = 0
BY FileAssumption DEF Texts

LEMMA HandleIsNew ==
  ASSUME NEW mode \in Modes, NEW i \in Nat, NEW data \in Texts, NEW dirty \in BOOLEAN,
         NEW s, Sorted(s), i \in DOMAIN s
  PROVE  LET g == NewHandle(mode, i, data, dirty)
         IN  Tracks(g, s)
             /\ View(g, s) = [name |-> s[i].name, mode |-> mode, data |-> data, publish |-> dirty]
<1> DEFINE g == NewHandle(mode, i, data, dirty)
<1>1. g \in Files
  BY DEF NewHandle, Files
<1>2. /\ g.pos = 0 /\ g.data = data /\ g.null = FALSE /\ g.id = i /\ g.mode = mode /\ g.dirty = dirty
      /\ g.erred = FALSE
  BY DEF NewHandle
<1> HIDE DEF g
<1>3. 0 <= Len(data)
  BY DEF Texts
<1>4. Tracks(g, s)
  BY <1>1, <1>2, <1>3 DEF Tracks
<1>5. (dirty /\ ~FALSE) = dirty
  OBVIOUS
<1>6. View(g, s) = [name |-> s[i].name, mode |-> mode, data |-> data, publish |-> dirty]
  BY <1>2, <1>4, <1>5, ViewIs
<1> QED
  BY <1>4, <1>6 DEF g

LEMMA OpenExistingImplements ==
  ASSUME IInv, NEW h \in Handles, NEW n \in Names, NEW mode \in Modes, OpenExisting(h, n, mode)
  PROVE  IInv' /\ Store!Open(h, n, mode)
<1> DEFINE i == IdOf(n)
           data == IF mode # "w" THEN dir[i].data ELSE <<>>
           dirty == mode = "w"
           g == NewHandle(mode, i, data, dirty)
<1>1. /\ i \in DOMAIN dir /\ i \in Nat /\ dir[i].name = n /\ StoreOf[n] = dir[i].data /\ n \in DOMAIN StoreOf
      /\ data \in Texts /\ dirty \in BOOLEAN
  <2>1. i \in DOMAIN dir /\ dir[i].name = n /\ StoreOf[n] = dir[i].data /\ n \in DOMAIN StoreOf
        /\ dir[i] \in Entry
    BY NameIsKnown DEF OpenExisting
  <2>2. data \in Texts
    BY <2>1, NameIsNumber, NoText
  <2>3. i \in Nat
    BY <2>1 DEF IInv, Sorted
  <2> QED
    BY <2>1, <2>2, <2>3
<1>2. handles[h] = Closed /\ handles' = [handles EXCEPT ![h] = g] /\ dir' = dir /\ eof_line' \in BOOLEAN
  BY DEF OpenExisting, IsOpen, IInv
<1> HIDE DEF i, data, dirty
<1>3. Tracks(g, dir) /\ View(g, dir) = [name |-> n, mode |-> mode, data |-> data, publish |-> dirty]
  <2>1. Sorted(dir)
    BY DEF IInv
  <2> QED
    BY <1>1, <2>1, HandleIsNew
<1> HIDE DEF g
<1>4. IInv' /\ HandlesOf' = [HandlesOf EXCEPT ![h] = View(g, dir)] /\ StoreOf' = StoreOf
  BY <1>2, <1>3, OneHandle
<1>5. HandlesOf[h] = Closed
  BY <1>2, HandlesAre DEF View
<1>6. Store!Open(h, n, mode)
  <2>1. data = (IF n \in DOMAIN StoreOf /\ mode # "w" THEN StoreOf[n] ELSE <<>>)
    BY <1>1 DEF data
  <2>2. dirty = (n \in DOMAIN StoreOf /\ mode = "w")
    BY <1>1 DEF dirty
  <2> QED
    BY <1>1, <1>3, <1>4, <1>5, <2>1, <2>2 DEF Store!Open, Store!IsOpen, Store!Closed, Closed
<1> QED
  BY <1>4, <1>6

LEMMA TextGrows ==
  ASSUME NEW f \in Files, NEW s \in Seq(Char), Len(f.data) + Len(s) <= MaxFile, NEW erred \in BOOLEAN,
         NEW t, Tracks(f, t), Sorted(t)
  PROVE  LET g == [Appended(f, s) EXCEPT !.erred = erred]
         IN  Tracks(g, t) /\ View(g, t) = [View(f, t) EXCEPT !.data = @ \o s, !.publish = ~erred]
<1> DEFINE data == f.data \o s
           pos  == Len(f.data) + Len(s)
           g    == [Appended(f, s) EXCEPT !.erred = erred]
<1>1. f.data \in Seq(Char)
  BY DEF Files, Texts
<1>2. data \in Texts /\ Len(data) = pos /\ pos \in Nat
  BY <1>1 DEF Texts
<1>3. g = [[[[f EXCEPT !.data = data] EXCEPT !.dirty = TRUE] EXCEPT !.pos = pos] EXCEPT !.erred = erred]
  BY DEF Appended, Files
<1> HIDE DEF data, pos, g
<1>4. g \in Files
  BY <1>2, <1>3 DEF Files
<1>5. /\ g.data = data /\ g.dirty = TRUE /\ g.pos = pos /\ g.erred = erred /\ g.id = f.id
      /\ g.null = f.null /\ g.mode = f.mode
  BY <1>3 DEF Files
<1>6. Tracks(g, t)
  BY <1>2, <1>4, <1>5 DEF Tracks
<1>7. (TRUE /\ ~erred) = ~erred
  OBVIOUS
<1>8. View(g, t) = [name |-> IF f.null THEN 0 ELSE t[f.id].name, mode |-> f.mode, data |-> data,
                    publish |-> ~erred]
  BY <1>5, <1>6, <1>7, ViewIs
<1>9. View(g, t) = [View(f, t) EXCEPT !.data = data, !.publish = ~erred]
  <2> DEFINE name == IF f.null THEN 0 ELSE t[f.id].name
             publish == f.dirty /\ ~f.erred
  <2>1. View(f, t) = [name |-> name, mode |-> f.mode, data |-> f.data, publish |-> publish]
    BY ViewIs
  <2>2. View(g, t) = [name |-> name, mode |-> f.mode, data |-> data, publish |-> ~erred]
    BY <1>8
  <2> HIDE DEF name, publish
  <2> DEFINE right == ~erred
  <2>3. View(g, t) = [name |-> name, mode |-> f.mode, data |-> data, publish |-> right]
    BY <2>2
  <2> HIDE DEF right
  <2>4. View(g, t) = [View(f, t) EXCEPT !.data = data, !.publish = right]
    <3> DEFINE v == View(f, t)
    <3>1. v = [name |-> name, mode |-> f.mode, data |-> f.data, publish |-> publish]
      BY <2>1
    <3> HIDE DEF v
    <3> DEFINE w == [v EXCEPT !.data = data]
    <3>2. w = [name |-> name, mode |-> f.mode, data |-> data, publish |-> publish]
      BY <3>1
    <3>3. [v EXCEPT !.data = data, !.publish = right] = [w EXCEPT !.publish = right]
      BY <3>1
    <3> HIDE DEF w
    <3>4. [w EXCEPT !.publish = right] = [name |-> name, mode |-> f.mode, data |-> data, publish |-> right]
      BY <3>2
    <3> QED
      BY <2>3, <3>3, <3>4 DEF v
  <2> QED
    BY <2>4 DEF right
<1>10. View(f, t).data = f.data
  BY ViewIs
<1> QED
  BY <1>6, <1>9, <1>10 DEF g, data

LEMMA StringIsText ==
  ASSUME NEW s \in Strings
  PROVE  s \in Seq(Char)
BY FileAssumption

LEMMA HandleIsOpen ==
  ASSUME IInv, NEW h \in Handles, IsOpen(h)
  PROVE  /\ Tracks(handles[h], dir) /\ Sorted(dir) /\ handles[h] \in Files
         /\ HandlesOf[h] = View(handles[h], dir) /\ HandlesOf[h] # Closed
         /\ HandlesOf[h].mode = handles[h].mode /\ HandlesOf[h].data = handles[h].data
<1>1. Tracks(handles[h], dir) /\ Sorted(dir)
  BY DEF IInv, HandlesTrack, IsOpen
<1>2. HandlesOf[h] = View(handles[h], dir)
  BY HandlesAre
<1> QED
  BY <1>1, <1>2, ViewIs DEF Tracks

LEMMA WriteImplements ==
  ASSUME IInv, NEW h \in Handles, NEW s \in Strings, LuaFileWrite(h, s)
  PROVE  IInv' /\ Store!Write(h, s)
<1> DEFINE f == handles[h]
           g == [Appended(f, s) EXCEPT !.erred = FALSE]
<1>1. IsOpen(h) /\ f.mode # "r" /\ Len(f.data) + Len(s) <= MaxFile
  BY DEF LuaFileWrite, MayWrite
<1>2. handles' = [handles EXCEPT ![h] = g] /\ dir' = dir /\ eof_line' \in BOOLEAN
  BY DEF LuaFileWrite, IInv, HandlesTrack
<1>3. /\ Tracks(f, dir) /\ Sorted(dir) /\ f \in Files
      /\ HandlesOf[h] = View(f, dir) /\ HandlesOf[h] # Closed
      /\ HandlesOf[h].mode = f.mode /\ HandlesOf[h].data = f.data
  BY <1>1, HandleIsOpen
<1> HIDE DEF f
<1>4. Tracks(g, dir) /\ View(g, dir) = [View(f, dir) EXCEPT !.data = @ \o s, !.publish = ~FALSE]
  BY <1>1, <1>3, StringIsText, TextGrows
<1> HIDE DEF g
<1>5. IInv' /\ HandlesOf' = [HandlesOf EXCEPT ![h] = View(g, dir)] /\ StoreOf' = StoreOf
  BY <1>2, <1>4, OneHandle
<1>6. HandlesOf' = [HandlesOf EXCEPT ![h] = [HandlesOf[h] EXCEPT !.data = @ \o s, !.publish = TRUE]]
  BY <1>3, <1>4, <1>5
<1>7. Store!Write(h, s)
  <2>1. HandlesOf' = [HandlesOf EXCEPT ![h].data = @ \o s, ![h].publish = TRUE]
    BY <1>6, HandlesAre
  <2> QED
    BY <1>1, <1>3, <1>5, <2>1 DEF Store!Write, Store!IsOpen, Store!Closed, Closed
<1> QED
  BY <1>5, <1>7

LEMMA WriteFailsImplements ==
  ASSUME IInv, NEW h \in Handles, NEW s \in Strings, WriteFails(h, s)
  PROVE  IInv' /\ Store!WriteFails(h, s)
<1>1. PICK n \in 0 .. Len(s) - 1 :
        handles' = [handles EXCEPT ![h] = [Appended(@, SubSeq(s, 1, n)) EXCEPT !.erred = TRUE]]
  BY DEF WriteFails
<1> DEFINE f == handles[h]
           part == SubSeq(s, 1, n)
           g == [Appended(f, part) EXCEPT !.erred = TRUE]
<1>2. IsOpen(h) /\ f.mode # "r" /\ Len(f.data) + Len(s) <= MaxFile
  BY DEF WriteFails, MayWrite
<1>3. handles' = [handles EXCEPT ![h] = g] /\ dir' = dir /\ eof_line' \in BOOLEAN
  BY <1>1 DEF WriteFails, IInv, HandlesTrack
<1>4. /\ Tracks(f, dir) /\ Sorted(dir) /\ f \in Files
      /\ HandlesOf[h] = View(f, dir) /\ HandlesOf[h] # Closed
      /\ HandlesOf[h].mode = f.mode /\ HandlesOf[h].data = f.data
  BY <1>2, HandleIsOpen
<1> HIDE DEF f
<1>5. part \in Seq(Char) /\ Len(f.data) + Len(part) <= MaxFile
  <2>1. s \in Seq(Char)
    BY StringIsText
  <2>2. part \in Seq(Char) /\ Len(part) = n
    BY <2>1
  <2>3. Len(f.data) \in Nat /\ Len(s) \in Nat /\ n <= Len(s)
    BY <1>4, <2>1 DEF Files, Texts
  <2>4. Len(f.data) + n <= MaxFile
    BY <1>2, <2>3, FileAssumption
  <2> QED
    BY <2>2, <2>4
<1> HIDE DEF part
<1>6. Tracks(g, dir) /\ View(g, dir) = [View(f, dir) EXCEPT !.data = @ \o part, !.publish = ~TRUE]
  BY <1>4, <1>5, TextGrows, ZenonT(60)
<1> HIDE DEF g
<1>7. IInv' /\ HandlesOf' = [HandlesOf EXCEPT ![h] = View(g, dir)] /\ StoreOf' = StoreOf
  BY <1>3, <1>6, OneHandle
<1>8. HandlesOf' = [HandlesOf EXCEPT ![h] = [HandlesOf[h] EXCEPT !.data = @ \o part, !.publish = FALSE]]
  BY <1>4, <1>6, <1>7
<1>9. Store!WriteFails(h, s)
  <2>1. HandlesOf' = [HandlesOf EXCEPT ![h].data = @ \o SubSeq(s, 1, n), ![h].publish = FALSE]
    BY <1>8, HandlesAre DEF part
  <2> QED
    BY <1>2, <1>4, <1>7, <2>1 DEF Store!WriteFails, Store!IsOpen, Store!Closed, Closed
<1> QED
  BY <1>7, <1>9

(* A line goes up to the next newline or to the end of the file.           *)
LEMMA LineIs ==
  ASSUME NEW data \in Seq(Char), NEW pos \in Nat, pos < Len(data)
  PROVE  /\ Line(data, pos) \in Seq(Char) /\ Len(Line(data, pos)) \in Nat
         /\ Len(Line(data, pos)) <= Len(data) - pos
         /\ \A i \in 1 .. Len(Line(data, pos)) : Line(data, pos)[i] = data[pos + i]
         /\ pos + Len(Line(data, pos)) < Len(data) => data[pos + Len(Line(data, pos)) + 1] = Newline
         /\ pos + Len(Line(data, pos)) = Len(data) => data[Len(data)] # Newline
<1> DEFINE rest == SubSeq(data, pos + 1, Len(data))
           hits == {i \in 1 .. Len(rest) : rest[i] = Newline}
           upTo == IF Newline \in ToSet(rest)
                     THEN SelectInSeq(rest, LAMBDA c : c = Newline) - 1 ELSE Len(rest)
<1>1. rest \in Seq(Char) /\ Len(rest) = Len(data) - pos /\ Len(rest) \in Nat \ {0}
      /\ \A i \in 1 .. Len(rest) : rest[i] = data[pos + i]
  OBVIOUS
<1>2. Line(data, pos) = SubSeq(rest, 1, upTo)
  BY DEF Line
<1> HIDE DEF rest
<1>3. SelectInSeq(rest, LAMBDA c : c = Newline) = IF hits # {} THEN Min(hits) ELSE 0
  BY DEF SelectInSeq
<1>4. Newline \in ToSet(rest) <=> hits # {}
  BY <1>1 DEF ToSet
<1>5. hits # {} => Min(hits) \in hits
  <2>1. hits \in SUBSET Nat
    OBVIOUS
  <2> QED
    BY <2>1, MinIs
<1>6. /\ upTo \in 0 .. Len(rest)
      /\ upTo < Len(rest) => rest[upTo + 1] = Newline
      /\ upTo = Len(rest) => rest[Len(rest)] # Newline
  <2>1. CASE hits # {}
    <3>1. upTo = Min(hits) - 1
      BY <1>3, <1>4, <2>1
    <3>2. Min(hits) \in 1 .. Len(rest) /\ rest[Min(hits)] = Newline
      BY <1>5, <2>1
    <3> HIDE DEF upTo, hits
    <3> QED
      BY <1>1, <3>1, <3>2
  <2>2. CASE hits = {}
    <3>1. upTo = Len(rest)
      BY <1>4, <2>2
    <3>2. Len(rest) \in 1 .. Len(rest)
      BY <1>1
    <3>3. rest[Len(rest)] # Newline
      BY <2>2, <3>2
    <3> HIDE DEF upTo, hits
    <3> QED
      BY <1>1, <3>1, <3>3
  <2> QED
    BY <2>1, <2>2
<1> DEFINE found == Line(data, pos)
<1> HIDE DEF hits, upTo
<1>7. Line(data, pos) \in Seq(Char) /\ Len(Line(data, pos)) = upTo
      /\ \A i \in 1 .. upTo : Line(data, pos)[i] = rest[i]
  BY <1>1, <1>2, <1>6
<1>8. pos + upTo < Len(data) => data[pos + upTo + 1] = Newline
  <2> HAVE pos + upTo < Len(data)
  <2>1. upTo < Len(rest) /\ upTo + 1 \in 1 .. Len(rest)
    BY <1>1, <1>6
  <2>2. data[pos + (upTo + 1)] = Newline
    BY <1>1, <1>6, <2>1
  <2> QED
    BY <1>6, <2>2
<1>9. pos + upTo = Len(data) => data[Len(data)] # Newline
  <2> HAVE pos + upTo = Len(data)
  <2>1. upTo = Len(rest) /\ Len(rest) \in 1 .. Len(rest) /\ pos + Len(rest) = Len(data)
    BY <1>1, <1>6
  <2> QED
    BY <1>1, <1>6, <2>1
<1> HIDE DEF found
<1>10. ASSUME NEW i \in 1 .. upTo PROVE found[i] = data[pos + i]
  <2>1. i \in 1 .. Len(rest)
    BY <1>1, <1>6
  <2>2. found[i] = rest[i]
    BY <1>7 DEF found
  <2> QED
    BY <1>1, <2>1, <2>2
<1>11. /\ found \in Seq(Char) /\ Len(found) = upTo
       /\ \A i \in 1 .. upTo : found[i] = data[pos + i]
  BY <1>7, <1>10 DEF found
<1>12. upTo \in Nat /\ upTo <= Len(data) - pos
  BY <1>1, <1>6
<1> QED
  BY <1>8, <1>9, <1>11, <1>12 DEF found

(* Reading leaves the handle within its file.                              *)
LEMMA ReadImplements ==
  ASSUME IInv, NEW h \in Handles, LuaFileRead(h)
  PROVE  IInv' /\ UNCHANGED <<StoreOf, HandlesOf>>
<1> DEFINE f == handles[h]
<1>1. /\ Tracks(f, dir) /\ Sorted(dir) /\ f \in Files /\ HandlesOf[h] = View(f, dir)
      /\ f.data \in Seq(Char) /\ Len(f.data) \in Nat /\ f.pos \in Nat /\ f.pos <= Len(f.data)
  BY HandleIsOpen DEF LuaFileRead, Tracks, Files, Texts
<1>2. CASE f.pos = Len(f.data)
  <2>1. UNCHANGED <<dir, handles>> /\ eof_line' \in BOOLEAN
    BY <1>2 DEF LuaFileRead, IInv
  <2> QED
    BY <2>1 DEF IInv, HandlesTrack, StoreOf, HandlesOf, IdOf, HandleOf
<1>3. CASE f.pos # Len(f.data)
  <2> DEFINE pos == AfterLine(f.data, f.pos)
             got == IF f.mode = "r" THEN Append(f.got, Result(f.data, f.pos)) ELSE f.got
             g   == [f EXCEPT !.got = got, !.pos = pos]
             line == Line(f.data, f.pos)
  <2>1. handles' = [handles EXCEPT ![h] = g] /\ dir' = dir /\ eof_line' \in BOOLEAN
    BY <1>3 DEF LuaFileRead, IInv, HandlesTrack
  <2> HIDE DEF f
  <2>2. line \in Seq(Char) /\ Len(line) \in Nat /\ Len(line) <= Len(f.data) - f.pos
    <3>1. f.pos < Len(f.data)
      BY <1>1, <1>3
    <3>2. line \in Seq(Char) /\ Len(line) <= Len(f.data) - f.pos
      BY <1>1, <3>1, LineIs, Zenon
    <3> QED
      BY <3>2
  <2>3. pos \in Nat /\ pos <= Len(f.data)
    BY <1>1, <2>2, FileAssumption DEF AfterLine
  <2>4. Result(f.data, f.pos) \in Seq(Char)
    BY <2>2, FileAssumption DEF Result
  <2>5. got \in Seq(Seq(Char))
    BY <1>1, <2>4 DEF Files
  <2> HIDE DEF pos, got, line
  <2>6. g \in Files /\ g.pos = pos /\ g.data = f.data /\ g.id = f.id /\ g.null = f.null
        /\ g.mode = f.mode /\ g.dirty = f.dirty /\ g.erred = f.erred
    BY <1>1, <2>3, <2>5 DEF Files
  <2> HIDE DEF g
  <2>7. Tracks(g, dir)
    BY <1>1, <2>3, <2>6 DEF Tracks
  <2>8. View(g, dir) = View(f, dir)
    BY <1>1, <2>6, <2>7, ViewIs
  <2>9. IInv' /\ HandlesOf' = [HandlesOf EXCEPT ![h] = View(g, dir)] /\ StoreOf' = StoreOf
    BY <2>1, <2>7, OneHandle
  <2>10. [HandlesOf EXCEPT ![h] = HandlesOf[h]] = HandlesOf
    BY HandlesAre
  <2> QED
    BY <1>1, <2>8, <2>9, <2>10
<1> QED
  BY <1>2, <1>3

-----------------------------------------------------------------------------
(* The actions that change the directory.                                  *)
LEMMA CommitKeeps ==
  ASSUME IInv, NEW attrs, NEW gone, 0 \notin gone, Sorted(dir'), UNCHANGED eof_line,
         \A f : Tracks(f, dir) => Follows(f, FixIds(f, attrs), dir, dir', gone),
         handles' = [h \in Handles |-> FixIds(handles[h], attrs)]
  PROVE  IInv' /\ Store!CutOff(gone)
<1>1. ASSUME NEW h \in Handles
      PROVE  /\ handles'[h] = Closed \/ Tracks(handles'[h], dir')
             /\ LET v == View(handles[h], dir)
                IN  View(handles'[h], dir') = IF v # Closed /\ v.name \in gone THEN [v EXCEPT !.name = 0] ELSE v
  <2>1. handles'[h] = FixIds(handles[h], attrs)
    OBVIOUS
  <2> QED
    BY <2>1, FixedHandles
<1>2. IInv'
  <2>1. \A h \in Handles : handles'[h] \in Files \cup {Closed}
    BY <1>1 DEF Tracks
  <2> QED
    BY <1>1, <2>1 DEF IInv, HandlesTrack
<1>3. HandlesOf' = [h \in Handles |->
        IF HandlesOf[h] # Closed /\ HandlesOf[h].name \in gone
          THEN [HandlesOf[h] EXCEPT !.name = 0] ELSE HandlesOf[h]]
  BY <1>1, HandlesAre
<1>4. Store!CutOff(gone)
  BY <1>3 DEF Store!CutOff, Store!IsOpen, Store!Closed, Store!Nowhere, Closed
<1> QED
  BY <1>2, <1>4

LEMMA CommitIs ==
  ASSUME NEW attrs, Commit(attrs)
  PROVE  dir' = Applied(dir, attrs) /\ UNCHANGED eof_line
BY DEF Commit, Applied

LEMMA RemoveImplements ==
  ASSUME IInv, NEW n \in Names, LuaFileRemove(n)
  PROVE  IInv' /\ Store!Remove(n)
<1> DEFINE d == IdOf(n)
           attrs == << Delete(d) >>
<1>1. Sorted(dir) /\ d \in DOMAIN dir /\ dir[d].name = n /\ n \in DOMAIN StoreOf /\ DOMAIN StoreOf = NamesIn(dir)
  BY NameIsKnown DEF LuaFileRemove, IInv
<1>2. /\ Commit(attrs)
      /\ handles' = [h \in Handles |-> FixIds(handles[h], attrs)]
  BY DEF LuaFileRemove
<1>3. dir' = Applied(dir, attrs) /\ UNCHANGED eof_line
  BY <1>2, CommitIs
<1> HIDE DEF d
<1>4. /\ Sorted(dir') /\ Entries(dir') = Entries(dir) \ {dir[d]}
      /\ \A f : Tracks(f, dir) => Follows(f, FixIds(f, attrs), dir, dir', {n})
  BY <1>1, <1>3, RemoveCommit
<1>5. 0 \notin {n}
  BY FileAssumption
<1> HIDE DEF attrs
<1>6. IInv' /\ Store!CutOff({n})
  BY <1>2, <1>3, <1>4, <1>5, CommitKeeps
<1>7. StoreOf' = [m \in NamesIn(dir) \ {n} |-> StoreOf[m]]
  <2> DEFINE F == [m \in NamesIn(dir) \ {n} |-> StoreOf[m]]
  <2>1. NamesIn(dir') = NamesIn(dir) \ {n}
    <3>1. dir[d] \in Entries(dir)
      BY <1>1, EntryOfName
    <3> QED
      BY <1>1, <1>4, <3>1, EntryOfName
  <2>2. \A x \in Entries(dir') : x \in Entries(dir) /\ x.name # n /\ F[x.name] = x.data
    <3>1. dir[d] \in Entries(dir)
      BY <1>1, EntryOfName
    <3>2. \A x \in Entries(dir') : x \in Entries(dir) /\ x.name # n
      BY <1>1, <1>4, <3>1, EntryOfName
    <3> QED
      BY <1>1, <3>2, StoreIs, EntryOfName
  <2>3. F = [m \in NamesIn(dir') |-> F[m]]
    BY <2>1
  <2> HIDE DEF F
  <2>4. Contents(dir') = F
    BY <1>4, <2>2, <2>3, ContentsAre
  <2> QED
    BY <2>4, HandlesAre DEF F
<1>8. Store!Remove(n)
  BY <1>1, <1>6, <1>7 DEF Store!Remove, Store!Restrict
<1> QED
  BY <1>6, <1>8

(* The directory after a rename: one entry of the new name, with the data  *)
(* of the old one.                                                         *)
Renamed(s, from, to) ==
  {y \in Entries(s) : y.name \notin {from, to}} \cup {[name |-> to, data |-> s[At(s, from)].data]}

RenamedStore(c, from, to) ==
  [n \in (DOMAIN c \ {from}) \cup {to} |-> IF n = to THEN c[from] ELSE c[n]]

LEMMA RenamedContents ==
  ASSUME NEW s, Sorted(s), NEW t, Sorted(t), NEW from, NEW to, from # to,
         from \in NamesIn(s), Entries(t) = Renamed(s, from, to)
  PROVE  Contents(t) = RenamedStore(Contents(s), from, to)
<1> DEFINE x == s[At(s, from)]
           e == [name |-> to, data |-> x.data]
           F == [n \in (NamesIn(s) \ {from}) \cup {to} |->
                   IF n = to THEN Contents(s)[from] ELSE Contents(s)[n]]
<1>0. x \in Entries(s) /\ x.name = from
  BY EntryOfName
<1>1. e.name = to /\ e.data = x.data /\ Contents(s)[from] = x.data
  BY <1>0, EntryOfName
<1> HIDE DEF e, x
<1>2. NamesIn(t) = (NamesIn(s) \ {from}) \cup {to}
  <2>1. NamesIn(t) = {y.name : y \in Entries(t)} /\ NamesIn(s) = {y.name : y \in Entries(s)}
    BY EntryOfName
  <2>2. Entries(t) = {y \in Entries(s) : y.name \notin {from, to}} \cup {e}
    BY DEF e, x, Renamed
  <2> QED
    BY <1>1, <2>1, <2>2
<1>3. \A y \in Entries(t) : F[y.name] = y.data
  <2> TAKE y \in Entries(t)
  <2>1. CASE y = e
    BY <1>1, <2>1
  <2>2. CASE y \in Entries(s) /\ y.name \notin {from, to}
    BY <2>2, EntryOfName
  <2> QED
    BY <2>1, <2>2 DEF e, x, Renamed
<1>4. F = [n \in NamesIn(t) |-> F[n]]
  BY <1>2
<1> HIDE DEF F
<1>5. Contents(t) = F
  BY <1>3, <1>4, ContentsAre
<1>6. DOMAIN Contents(s) = NamesIn(s)
  BY DEF Contents
<1> QED
  BY <1>5, <1>6 DEF F, RenamedStore

LEMMA RenameAttrsFollow ==
  ASSUME IInv, NEW from \in Names, NEW to \in Names, from # to, Exists(from)
  PROVE  LET attrs == RenameAttrs(from, to)
             t     == Applied(dir, attrs)
         IN  /\ Sorted(t) /\ Entries(t) = Renamed(dir, from, to)
             /\ \A f : Tracks(f, dir) => Follows(f, FixIds(f, attrs), dir, t, {from, to})
<1> DEFINE a == IdOf(from)
           d == IdOf(to)
           p == NewId(to)
           e == [name |-> to, data |-> dir[a].data]
           over == << Delete(d), Create(d, e), Delete(a) >>
           new  == << Create(p, e), Delete(IF p <= a THEN a + 1 ELSE a) >>
<1>1. Sorted(dir) /\ a \in DOMAIN dir /\ dir[a].name = from /\ dir[a] \in Entry /\ dir[a] \in Entries(dir)
  BY NameIsKnown, EntryOfName DEF IInv
<1>2. e \in Entry /\ e.name = to
  BY <1>1, NameIsNumber DEF Entry
<1>0. Renamed(dir, from, to) = {y \in Entries(dir) : y.name \notin {from, to}} \cup {e}
  BY DEF Renamed, IdOf, At
<1>3. CASE Exists(to)
  <2>1. d \in DOMAIN dir /\ dir[d].name = to /\ a # d /\ dir[d] \in Entries(dir)
    BY <1>1, <1>3, NameIsKnown, EntryOfName
  <2>2. RenameAttrs(from, to) = over
    BY <1>3 DEF RenameAttrs
  <2> HIDE DEF a, d, e
  <2>3. /\ Sorted(Applied(dir, over))
        /\ Entries(Applied(dir, over)) = ((Entries(dir) \ {dir[d]}) \cup {e}) \ {dir[a]}
        /\ \A f : Tracks(f, dir) => Follows(f, FixIds(f, over), dir, Applied(dir, over), {from, to})
    BY <1>1, <1>2, <2>1, RenameOverCommit
  <2>4. e # dir[a]
    BY <1>1, <1>2
  <2>5. \A y \in Entries(dir) : y.name \in {from, to} <=> y \in {dir[a], dir[d]}
    BY <1>1, <2>1, EntryOfName
  <2>6. ((Entries(dir) \ {dir[d]}) \cup {e}) \ {dir[a]}
          = {y \in Entries(dir) : y.name \notin {from, to}} \cup {e}
    BY <2>4, <2>5
  <2> HIDE DEF over
  <2> QED
    BY <1>0, <2>2, <2>3, <2>6
<1>4. CASE ~Exists(to)
  <2>1. Fits(dir, p, e)
    BY <1>1, <1>2, <1>4, NewIdFits
  <2>2. RenameAttrs(from, to) = new
    BY <1>4 DEF RenameAttrs
  <2> HIDE DEF a, p, e
  <2>3. /\ Sorted(Applied(dir, new))
        /\ Entries(Applied(dir, new)) = (Entries(dir) \cup {e}) \ {dir[a]}
        /\ \A f : Tracks(f, dir) => Follows(f, FixIds(f, new), dir, Applied(dir, new), {dir[a].name})
    BY <1>1, <2>1, RenameNewCommit
  <2>4. e # dir[a]
    BY <1>1, <1>2
  <2>5. \A y \in Entries(dir) : y.name \in {from, to} <=> y = dir[a]
    BY <1>1, <1>4, NameIsKnown, EntryOfName
  <2>6. (Entries(dir) \cup {e}) \ {dir[a]} = {y \in Entries(dir) : y.name \notin {from, to}} \cup {e}
    BY <2>4, <2>5
  <2> HIDE DEF new
  <2>7. ASSUME NEW f, Tracks(f, dir)
        PROVE  Follows(f, FixIds(f, new), dir, Applied(dir, new), {from, to})
    <3>1. Follows(f, FixIds(f, new), dir, Applied(dir, new), {from})
      BY <1>1, <2>3, <2>7
    <3>2. ~f.null => dir[f.id].name # to
      BY <1>4, <2>7 DEF Tracks, Exists
    <3>3. f.null \/ dir[f.id].name \in {from} <=> f.null \/ dir[f.id].name \in {from, to}
      BY <3>2
    <3> QED
      BY <3>1, <3>3 DEF Follows
  <2> QED
    BY <1>0, <2>2, <2>3, <2>6, <2>7
<1> QED
  BY <1>3, <1>4

LEMMA RenameImplements ==
  ASSUME IInv, NEW from \in Names, NEW to \in Names, LuaFileRename(from, to)
  PROVE  IInv' /\ Store!Rename(from, to)
<1> DEFINE attrs == RenameAttrs(from, to)
<1>1. /\ Sorted(dir) /\ Exists(from) /\ from # to /\ from \in NamesIn(dir)
      /\ from \in DOMAIN StoreOf /\ DOMAIN StoreOf = NamesIn(dir) /\ StoreOf = Contents(dir)
  BY NameIsKnown, StoreIs DEF LuaFileRename, IInv
<1>2. /\ Commit(attrs)
      /\ handles' = [h \in Handles |-> FixIds(handles[h], attrs)]
  BY DEF LuaFileRename
<1>3. dir' = Applied(dir, attrs) /\ UNCHANGED eof_line
  BY <1>2, CommitIs
<1>4. /\ Sorted(dir')
      /\ Entries(dir') = Renamed(dir, from, to)
      /\ \A f : Tracks(f, dir) => Follows(f, FixIds(f, attrs), dir, dir', {from, to})
  BY <1>1, <1>3, RenameAttrsFollow
<1>5. 0 \notin {from, to}
  BY FileAssumption
<1> HIDE DEF attrs
<1>6. IInv' /\ Store!CutOff({from, to})
  BY <1>2, <1>3, <1>4, <1>5, CommitKeeps
<1>7. Contents(dir') = RenamedStore(Contents(dir), from, to)
  BY <1>1, <1>4, RenamedContents
<1>8. StoreOf' = [n \in (DOMAIN StoreOf \ {from}) \cup {to} |->
                    IF n = to THEN StoreOf[from] ELSE StoreOf[n]]
  BY <1>1, <1>7, HandlesAre DEF RenamedStore
<1>9. Store!Rename(from, to)
  BY <1>1, <1>6, <1>8 DEF Store!Rename
<1> QED
  BY <1>6, <1>9

LEMMA OpenNewImplements ==
  ASSUME IInv, NEW h \in Handles, NEW n \in Names, NEW mode \in Modes, OpenNew(h, n, mode)
  PROVE  IInv' /\ Store!Open(h, n, mode)
<1> DEFINE p == NewId(n)
           e == [name |-> n, data |-> <<>>]
           attrs == << Create(p, e) >>
           g == NewHandle(mode, p, <<>>, FALSE)
<1>1. /\ Sorted(dir) /\ ~Exists(n) /\ handles[h] = Closed /\ mode # "r" /\ n \notin DOMAIN StoreOf
      /\ DOMAIN StoreOf = NamesIn(dir) /\ StoreOf = Contents(dir)
  BY NameIsKnown, StoreIs DEF OpenNew, IInv, IsOpen
<1>2. Commit(attrs) /\ handles' = [FixOthers(h, attrs) EXCEPT ![h] = g]
  BY DEF OpenNew
<1>3. dir' = Applied(dir, attrs) /\ UNCHANGED eof_line
  BY <1>2, CommitIs
<1>4. Fits(dir, p, e)
  <2>1. e \in Entry /\ e.name = n
    BY NoText DEF Entry
  <2> QED
    BY <1>1, <2>1, NewIdFits
<1> HIDE DEF p, e
<1>5. /\ Sorted(dir') /\ Entries(dir') = Entries(dir) \cup {e} /\ p \in DOMAIN dir' /\ dir'[p] = e
      /\ \A f : Tracks(f, dir) => Follows(f, FixIds(f, attrs), dir, dir', {})
  BY <1>1, <1>3, <1>4, CreateCommit
<1>6. e.name = n /\ e.data = <<>>
  BY DEF e
<1>7. Tracks(g, dir') /\ View(g, dir') = [name |-> n, mode |-> mode, data |-> <<>>, publish |-> FALSE]
  <2>1. p \in Nat
    BY <1>4 DEF Fits
  <2> QED
    BY <1>5, <1>6, <2>1, NoText, HandleIsNew
<1> HIDE DEF attrs, g
<1>8. /\ handles' = [k \in Handles |-> IF k = h THEN g ELSE FixIds(handles[k], attrs)]
  BY <1>2 DEF FixOthers
<1>9. ASSUME NEW k \in Handles, k # h
      PROVE  /\ handles'[k] = Closed \/ Tracks(handles'[k], dir')
             /\ View(handles'[k], dir') = View(handles[k], dir)
  <2>1. handles'[k] = FixIds(handles[k], attrs)
    BY <1>8, <1>9
  <2> DEFINE f == FixIds(handles[k], attrs)
             v == View(handles[k], dir)
             none == {}
  <2>2. 0 \notin none /\ \A y : Tracks(y, dir) => Follows(y, FixIds(y, attrs), dir, dir', none)
    BY <1>5
  <2>3. ~ (v.name \in none)
    OBVIOUS
  <2> HIDE DEF none
  <2>4. /\ f = Closed \/ Tracks(f, dir')
        /\ View(f, dir') = IF v # Closed /\ v.name \in none THEN [v EXCEPT !.name = 0] ELSE v
    BY <1>5, <1>9, <2>2, FixedHandles
  <2> QED
    BY <2>1, <2>3, <2>4
<1>10. IInv'
  <2>1. \A k \in Handles : handles'[k] = Closed \/ Tracks(handles'[k], dir')
    BY <1>7, <1>8, <1>9
  <2>2. \A k \in Handles : handles'[k] \in Files \cup {Closed}
    BY <2>1 DEF Tracks
  <2>3. handles' \in [Handles -> Files \cup {Closed}]
    BY <1>8, <2>2
  <2> QED
    BY <1>3, <1>5, <2>1, <2>3 DEF IInv, HandlesTrack
<1>11. HandlesOf' = [HandlesOf EXCEPT ![h] =
                       [name |-> n, mode |-> mode, data |-> <<>>, publish |-> FALSE]]
  BY <1>7, <1>8, <1>9, HandlesAre
<1>12. StoreOf' = [m \in DOMAIN StoreOf \cup {n} |-> IF m = n THEN <<>> ELSE StoreOf[m]]
  <2> DEFINE F == [m \in NamesIn(dir) \cup {n} |-> IF m = n THEN <<>> ELSE StoreOf[m]]
  <2>1. NamesIn(dir') = NamesIn(dir) \cup {n}
    BY <1>1, <1>5, <1>6, EntryOfName
  <2>2. \A x \in Entries(dir) : x.name # n /\ x.name \in NamesIn(dir) /\ StoreOf[x.name] = x.data
    BY <1>1, EntryOfName
  <2>3. \A x \in Entries(dir') : F[x.name] = x.data
    BY <1>5, <1>6, <2>2
  <2>4. F = [m \in NamesIn(dir') |-> F[m]]
    BY <2>1
  <2> HIDE DEF F
  <2>5. Contents(dir') = F
    BY <1>5, <2>3, <2>4, ContentsAre
  <2> QED
    BY <1>1, <2>5, HandlesAre DEF F
<1>13. HandlesOf[h] = Closed
  BY <1>1, HandlesAre DEF View
<1>14. Store!Open(h, n, mode)
  BY <1>1, <1>11, <1>12, <1>13 DEF Store!Open, Store!IsOpen, Store!Closed, Closed
<1> QED
  BY <1>10, <1>14

(* The data of one entry is written.                                       *)
LEMMA DataWritten ==
  ASSUME NEW s, Sorted(s), NEW i \in DOMAIN s, NEW d \in Texts
  PROVE  LET t == [s EXCEPT ![i].data = d] IN
           /\ Sorted(t) /\ DOMAIN t = DOMAIN s /\ \A j \in DOMAIN s : t[j].name = s[j].name
           /\ Contents(t) = [Contents(s) EXCEPT ![s[i].name] = d]
<1> DEFINE t == [s EXCEPT ![i].data = d]
           F == [Contents(s) EXCEPT ![s[i].name] = d]
<1>1. PICK n \in Nat : n = Len(s) /\ DOMAIN s = 1 .. n /\ s \in Seq(Entry)
  BY DEF Sorted
<1>2. s[i] \in Entry /\ [s[i] EXCEPT !.data = d] \in Entry /\ [s[i] EXCEPT !.data = d].name = s[i].name
      /\ [s[i] EXCEPT !.data = d].data = d
  <2>1. s[i] \in Entry
    BY <1>1
  <2> QED
    BY <2>1 DEF Entry
<1>3. t = [s EXCEPT ![i] = [s[i] EXCEPT !.data = d]]
  BY <1>1
<1> HIDE DEF t
<1>4. DOMAIN t = DOMAIN s /\ \A j \in DOMAIN s : t[j] = IF j = i THEN [s[i] EXCEPT !.data = d] ELSE s[j]
  BY <1>1, <1>3
<1>5. t \in Seq(Entry)
  BY <1>1, <1>2, <1>3
<1>6. \A j \in DOMAIN s : t[j].name = s[j].name
  BY <1>2, <1>4
<1>7. Sorted(t)
  BY <1>4, <1>5, <1>6 DEF Sorted
<1>8. NamesIn(t) = NamesIn(s)
  BY <1>4, <1>6 DEF NamesIn
<1>9. \A x \in Entries(t) : F[x.name] = x.data
  <2> TAKE x \in Entries(t)
  <2>1. PICK j \in DOMAIN s : x = t[j]
    BY <1>4 DEF Entries
  <2>2. s[j].name \in NamesIn(s) /\ DOMAIN Contents(s) = NamesIn(s)
    BY DEF NamesIn, Contents
  <2>3. CASE j = i
    BY <1>2, <1>4, <2>1, <2>2, <2>3
  <2>4. CASE j # i
    <3>1. s[j].name # s[i].name
      BY <2>4, NamesDiffer
    <3>2. s[j] \in Entries(s) /\ x = s[j]
      BY <1>4, <2>1, <2>4 DEF Entries
    <3>3. Contents(s)[x.name] = x.data
      BY <3>2, EntryOfName
    <3> QED
      BY <2>2, <3>1, <3>2, <3>3
  <2> QED
    BY <2>3, <2>4
<1>10. F = [m \in NamesIn(t) |-> F[m]]
  BY <1>8 DEF Contents
<1> HIDE DEF F
<1>11. Contents(t) = F
  BY <1>7, <1>9, <1>10, ContentsAre
<1> QED
  BY <1>4, <1>6, <1>7, <1>11 DEF t, F

LEMMA SameNames ==
  ASSUME NEW s, NEW t, Sorted(s), Sorted(t), DOMAIN t = DOMAIN s, \A j \in DOMAIN s : t[j].name = s[j].name,
         NEW f, Tracks(f, s)
  PROVE  Tracks(f, t) /\ View(f, t) = View(f, s)
<1>1. Tracks(f, t)
  BY DEF Tracks
<1>2. ~f.null => t[f.id].name = s[f.id].name
  BY DEF Tracks
<1> QED
  BY <1>1, <1>2 DEF View

LEMMA CloseImplements ==
  ASSUME IInv, NEW h \in Handles, LuaFileClose(h)
  PROVE  IInv' /\ Store!Close(h)
<1> DEFINE f == handles[h]
<1>1. /\ Tracks(f, dir) /\ Sorted(dir) /\ f \in Files /\ HandlesOf[h] = View(f, dir)
      /\ HandlesOf[h] # Closed /\ HandlesOf[h].data = f.data /\ f.data \in Texts
  BY HandleIsOpen DEF LuaFileClose, Files
<1>2. HandlesOf[h].publish /\ HandlesOf[h].name # 0 <=> MustSync(f)
  <2>1. HandlesOf[h].publish = (f.dirty /\ ~f.erred)
    BY <1>1, ViewIs
  <2>2. HandlesOf[h].name # 0 <=> ~f.null
    BY <1>1, ViewIs
  <2> QED
    BY <2>1, <2>2 DEF MustSync
<1>3. /\ dir' = IF MustSync(f) THEN [dir EXCEPT ![f.id].data = f.data] ELSE dir
      /\ handles' = [handles EXCEPT ![h] = Closed] /\ eof_line' = eof_line
  BY DEF LuaFileClose
<1> HIDE DEF f
<1>4. /\ Sorted(dir') /\ DOMAIN dir' = DOMAIN dir /\ \A j \in DOMAIN dir : dir'[j].name = dir[j].name
      /\ StoreOf' = IF MustSync(f) THEN [StoreOf EXCEPT ![HandlesOf[h].name] = f.data] ELSE StoreOf
  <2>1. CASE MustSync(f)
    <3>1. f.id \in DOMAIN dir /\ HandlesOf[h].name = dir[f.id].name
      BY <1>1, <2>1, ViewIs DEF MustSync, Tracks
    <3>2. dir' = [dir EXCEPT ![f.id].data = f.data]
      BY <1>3, <2>1
    <3>3. /\ Sorted(dir') /\ DOMAIN dir' = DOMAIN dir /\ \A j \in DOMAIN dir : dir'[j].name = dir[j].name
          /\ Contents(dir') = [Contents(dir) EXCEPT ![dir[f.id].name] = f.data]
      <4> DEFINE i == f.id
                 d == f.data
                 t == [dir EXCEPT ![i].data = d]
      <4>1. i \in DOMAIN dir /\ d \in Texts /\ dir' = t
        BY <1>1, <3>1, <3>2
      <4> HIDE DEF i, d
      <4>2. /\ Sorted(t) /\ DOMAIN t = DOMAIN dir /\ \A j \in DOMAIN dir : t[j].name = dir[j].name
            /\ Contents(t) = [Contents(dir) EXCEPT ![dir[i].name] = d]
        BY <1>1, <4>1, DataWritten
      <4> HIDE DEF t
      <4> QED
        BY <4>1, <4>2 DEF i, d
    <3> QED
      BY <2>1, <3>1, <3>3, StoreIs, HandlesAre
  <2>2. CASE ~MustSync(f)
    BY <1>1, <1>3, <2>2, StoreIs, HandlesAre
  <2> QED
    BY <2>1, <2>2
<1>5. ASSUME NEW k \in Handles, k # h
      PROVE  /\ handles'[k] = handles[k] /\ (handles[k] # Closed => Tracks(handles[k], dir'))
             /\ View(handles'[k], dir') = View(handles[k], dir)
  <2>1. handles'[k] = handles[k]
    BY <1>3, <1>5 DEF IInv, HandlesTrack
  <2>2. CASE handles[k] = Closed
    BY <2>1, <2>2 DEF View
  <2>3. CASE handles[k] # Closed
    <3>1. Tracks(handles[k], dir)
      BY <2>3 DEF IInv, HandlesTrack
    <3> QED
      BY <1>1, <1>4, <2>1, <3>1, SameNames
  <2> QED
    BY <2>2, <2>3
<1>6. handles'[h] = Closed /\ View(handles'[h], dir') = Closed
  BY <1>3 DEF IInv, HandlesTrack, View
<1>7. IInv'
  <2>1. handles' \in [Handles -> Files \cup {Closed}]
    BY <1>3 DEF IInv, HandlesTrack
  <2>2. \A k \in Handles : handles'[k] # Closed => Tracks(handles'[k], dir')
    BY <1>5, <1>6
  <2> QED
    BY <1>3, <1>4, <2>1, <2>2 DEF IInv, HandlesTrack
<1>8. HandlesOf' = [HandlesOf EXCEPT ![h] = Closed]
  BY <1>5, <1>6, HandlesAre
<1>9. Store!Close(h)
  BY <1>1, <1>2, <1>4, <1>8 DEF Store!Close, Store!IsOpen, Store!Closed, Store!Nowhere, Closed
<1> QED
  BY <1>7, <1>9

LEMMA RestartImplements ==
  ASSUME IInv, Restart
  PROVE  IInv' /\ Store!Restart
<1>1. handles' = [h \in Handles |-> Closed] /\ dir' = dir /\ eof_line' = eof_line
  BY DEF Restart
<1>2. HandlesOf' = [h \in Handles |-> Closed]
  BY <1>1, HandlesAre DEF View
<1>3. StoreOf' = StoreOf
  BY <1>1, StoreIs, HandlesAre
<1>4. IInv'
  BY <1>1 DEF IInv, HandlesTrack
<1>5. Store!Restart
  BY <1>2, <1>3 DEF Store!Restart, Store!Closed, Closed
<1> QED
  BY <1>4, <1>5

-----------------------------------------------------------------------------
LEMMA InitHolds ==
  ASSUME Init
  PROVE  IInv /\ Store!Init
<1>1. IInv
  <2>1. Sorted(dir)
    BY DEF Init, Sorted
  <2>2. HandlesTrack
    BY DEF Init, HandlesTrack
  <2> QED
    BY <2>1, <2>2 DEF IInv, Init
<1>2. StoreOf = <<>>
  BY DEF Init, StoreOf
<1>3. HandlesOf = [h \in Handles |-> Closed]
  BY HandlesAre DEF Init, View
<1>4. Store!Init
  BY <1>2, <1>3 DEF Store!Init, Store!Closed, Closed
<1> QED
  BY <1>1, <1>4

LEMMA StepHolds ==
  ASSUME IInv, [Next]_vars
  PROVE  IInv' /\ [Store!Next]_<<StoreOf, HandlesOf>>
<1>1. ASSUME NEW h \in Handles, NEW n \in Names, NEW mode \in Modes, OpenExisting(h, n, mode)
      PROVE  IInv' /\ Store!Next
  <2>1. IInv' /\ Store!Open(h, n, mode)
    BY <1>1, OpenExistingImplements
  <2> QED
    BY <2>1 DEF Store!Next, Store!Modes, Modes
<1>2. ASSUME NEW h \in Handles, NEW n \in Names, NEW mode \in Modes, OpenNew(h, n, mode)
      PROVE  IInv' /\ Store!Next
  <2>1. IInv' /\ Store!Open(h, n, mode)
    BY <1>2, OpenNewImplements
  <2> QED
    BY <2>1 DEF Store!Next, Store!Modes, Modes
<1>3. ASSUME NEW h \in Handles, NEW s \in Strings, LuaFileWrite(h, s)
      PROVE  IInv' /\ Store!Next
  BY <1>3, WriteImplements DEF Store!Next
<1>4. ASSUME NEW h \in Handles, NEW s \in Strings, WriteFails(h, s)
      PROVE  IInv' /\ Store!Next
  BY <1>4, WriteFailsImplements DEF Store!Next
<1>5. ASSUME NEW h \in Handles, LuaFileRead(h)
      PROVE  IInv' /\ UNCHANGED <<StoreOf, HandlesOf>>
  BY <1>5, ReadImplements
<1>6. ASSUME NEW h \in Handles, LuaFileClose(h)
      PROVE  IInv' /\ Store!Next
  BY <1>6, CloseImplements DEF Store!Next
<1>7. ASSUME NEW n \in Names, LuaFileRemove(n)
      PROVE  IInv' /\ Store!Next
  BY <1>7, RemoveImplements DEF Store!Next
<1>8. ASSUME NEW from \in Names, NEW to \in Names, LuaFileRename(from, to)
      PROVE  IInv' /\ Store!Next
  BY <1>8, RenameImplements DEF Store!Next
<1>9. CASE Restart
  BY <1>9, RestartImplements DEF Store!Next
<1>10. CASE UNCHANGED vars
  <2>1. dir' = dir /\ handles' = handles /\ eof_line' = eof_line
    BY <1>10 DEF vars
  <2>2. IInv'
    BY <2>1 DEF IInv, HandlesTrack
  <2>3. StoreOf' = StoreOf /\ HandlesOf' = HandlesOf
    BY <2>1, StoreIs, HandlesAre
  <2> QED
    BY <2>2, <2>3
<1> QED
  BY <1>1, <1>2, <1>3, <1>4, <1>5, <1>6, <1>7, <1>8, <1>9, <1>10 DEF Next

LEMMA Invariance == Spec => []IInv
<1>1. Init => IInv
  BY InitHolds
<1>2. IInv /\ [Next]_vars => IInv'
  BY StepHolds
<1> QED
  BY <1>1, <1>2, PTL DEF Spec

(* Every entry has a name and at most MaxFile characters, and every open   *)
(* file has its place in its data and in the directory.                    *)
THEOREM TypeCorrect == Spec => []TypeOK
<1>1. IInv => TypeOK
  <2> SUFFICES ASSUME IInv
               PROVE  TypeOK
    OBVIOUS
  <2>1. \A i \in DOMAIN dir : dir[i].name \in Names /\ Len(dir[i].data) <= MaxFile
    <3>1. \A i \in DOMAIN dir : dir[i] \in Entry
      BY DEF IInv, Sorted
    <3> QED
      BY <3>1 DEF Entry, Texts
  <2>2. ASSUME NEW h \in Handles, IsOpen(h)
        PROVE  /\ handles[h].mode \in Modes
               /\ {handles[h].null, handles[h].dirty, handles[h].erred} \subseteq BOOLEAN
               /\ Len(handles[h].data) <= MaxFile /\ handles[h].pos \in 0 .. Len(handles[h].data)
               /\ ~handles[h].null => handles[h].id \in DOMAIN dir
    <3>1. Tracks(handles[h], dir)
      BY <2>2 DEF IInv, HandlesTrack, IsOpen
    <3>2. handles[h] \in Files
      BY <3>1 DEF Tracks
    <3>3. handles[h].pos \in 0 .. Len(handles[h].data)
      BY <3>1, <3>2 DEF Tracks, Files, Texts
    <3> QED
      BY <3>1, <3>2, <3>3 DEF Tracks, Files, Texts
  <2> QED
    BY <2>1, <2>2 DEF TypeOK, IInv
<1> QED
  BY <1>1, Invariance, PTL

(* Every insertion, removal and rename leaves the entries in the order of  *)
(* their names, with no name twice.                                        *)
THEOREM DirectorySorted == Spec => []DirectoryIsSorted
<1>1. IInv => DirectoryIsSorted
  BY DEF IInv, Sorted, DirectoryIsSorted
<1> QED
  BY <1>1, Invariance, PTL

(* The directory of places, whose changes lfs_dir_relocatingcommit()       *)
(* makes known to the open files, implements the store of named files: the *)
(* data of a close goes into the file that was opened, or nowhere.         *)
THEOREM FilesAreNamed == Spec => ImplementsFileStore
<1>1. Init => Store!Init
  BY InitHolds
<1>2. IInv /\ [Next]_vars => [Store!Next]_<<StoreOf, HandlesOf>>
  BY StepHolds
<1> QED
  BY <1>1, <1>2, Invariance, PTL DEF Spec, ImplementsFileStore, Store!Spec

-----------------------------------------------------------------------------
(* What Joined() is of one line more: its fold goes through the sets 1 ..  *)
(* k of the places of the lines.  A fold of the first lines exists, by a   *)
(* smallest number of lines for which it does not.                         *)
Put(text, line) == text \o line \o <<Newline>>

IsFold(g, lines, n) ==
  g = [t \in SUBSET (1 .. n) |-> IF t = {} THEN <<>> ELSE Put(g[t \ {Max(t)}], lines[Max(t)])]
FoldOf(lines, n) == CHOOSE g : IsFold(g, lines, n)

LEMMA JoinedIsFold ==
  ASSUME NEW lines, NEW n, DOMAIN lines = 1 .. n
  PROVE  Joined(lines) = FoldOf(lines, n)[1 .. n]
<1>1. Joined(lines) =
        MapThenFoldSet(LAMBDA x, y : Put(y, x), <<>>, LAMBDA i : lines[i], LAMBDA S : Max(S), DOMAIN lines)
  BY DEF Joined, FoldLeft, Put
<1>2. MapThenFoldSet(LAMBDA x, y : Put(y, x), <<>>, LAMBDA i : lines[i], LAMBDA S : Max(S), 1 .. n)
        = FoldOf(lines, n)[1 .. n]
  BY Zenon DEF MapThenFoldSet, FoldOf, IsFold
<1> QED
  BY ONLY <1>1, <1>2, DOMAIN lines = 1 .. n, Zenon

LEMMA FoldExists ==
  ASSUME NEW lines
  PROVE  \A n \in Nat : \E g : IsFold(g, lines, n)
<1> DEFINE bad == {n \in Nat : ~ \E g : IsFold(g, lines, n)}
<1> SUFFICES ASSUME bad # {} PROVE FALSE
  OBVIOUS
<1>1. Min(bad) \in bad /\ \A n \in bad : Min(bad) <= n
  <2>1. bad \in SUBSET Nat
    OBVIOUS
  <2> QED
    BY <2>1, MinIs
<1> DEFINE m == Min(bad)
<1>2. m \in Nat /\ ~ \E g : IsFold(g, lines, m)
  BY <1>1
<1>3. CASE m = 0
  <2> DEFINE g == [t \in SUBSET (1 .. 0) |-> <<>>]
  <2>1. \A t \in SUBSET (1 .. 0) : t = {}
    OBVIOUS
  <2>2. IsFold(g, lines, 0)
    BY <2>1 DEF IsFold
  <2> QED
    BY <1>2, <1>3, <2>2
<1>4. CASE m # 0
  <2>1. m - 1 \in Nat /\ m - 1 \notin bad
    BY <1>1, <1>2, <1>4
  <2>2. PICK g : IsFold(g, lines, m - 1)
    BY <2>1
  <2> HIDE DEF bad, m
  <2>3. \A t \in SUBSET (1 .. m - 1) :
          g[t] = IF t = {} THEN <<>> ELSE Put(g[t \ {Max(t)}], lines[Max(t)])
    BY <2>2 DEF IsFold
  <2> DEFINE k == [t \in SUBSET (1 .. m) |-> IF m \in t THEN Put(g[t \ {m}], lines[m]) ELSE g[t]]
  <2>4. ASSUME NEW t \in SUBSET (1 .. m)
        PROVE  k[t] = IF t = {} THEN <<>> ELSE Put(k[t \ {Max(t)}], lines[Max(t)])
    <3>1. CASE m \in t
      <4>1. Max(t) = m
        <5>1. t \in SUBSET Nat /\ m \in t /\ \A j \in t : m >= j
          BY <1>2, <3>1
        <5> QED
          BY <5>1, MaxIs
      <4>2. k[t] = Put(g[t \ {m}], lines[m])
        BY <3>1
      <4>3. k[t \ {m}] = g[t \ {m}]
        OBVIOUS
      <4> HIDE DEF k
      <4> QED
        BY <3>1, <4>1, <4>2, <4>3
    <3>2. CASE m \notin t
      <4>1. t \in SUBSET (1 .. m - 1) /\ k[t] = g[t]
        BY <1>2, <3>2
      <4>2. k[t \ {Max(t)}] = g[t \ {Max(t)}]
        BY <3>2
      <4> HIDE DEF k
      <4> QED
        BY <2>3, <4>1, <4>2
    <3> QED
      BY <3>1, <3>2
  <2>5. IsFold(k, lines, m)
    <3>1. k = [t \in SUBSET (1 .. m) |-> k[t]]
      OBVIOUS
    <3> HIDE DEF k
    <3> QED
      BY <2>4, <3>1 DEF IsFold
  <2> QED
    BY <1>2, <2>5 DEF m
<1> QED
  BY <1>3, <1>4

LEMMA FoldSteps ==
  ASSUME NEW lines, NEW n \in Nat
  PROVE  /\ FoldOf(lines, n)[1 .. 0] = <<>>
         /\ \A k \in 1 .. n : FoldOf(lines, n)[1 .. k] = Put(FoldOf(lines, n)[1 .. k - 1], lines[k])
<1> DEFINE g == FoldOf(lines, n)
<1>1. IsFold(g, lines, n)
  BY FoldExists DEF FoldOf
<1> HIDE DEF g
<1>2. \A t \in SUBSET (1 .. n) : g[t] = IF t = {} THEN <<>> ELSE Put(g[t \ {Max(t)}], lines[Max(t)])
  BY <1>1 DEF IsFold
<1>3. g[1 .. 0] = <<>>
  <2>1. 1 .. 0 = {} /\ 1 .. 0 \in SUBSET (1 .. n)
    OBVIOUS
  <2> QED
    BY <1>2, <2>1
<1>4. ASSUME NEW k \in 1 .. n
      PROVE  g[1 .. k] = Put(g[1 .. k - 1], lines[k])
  <2>1. Max(1 .. k) = k
    <3>1. 1 .. k \in SUBSET Nat /\ k \in 1 .. k /\ \A j \in 1 .. k : k >= j
      OBVIOUS
    <3> QED
      BY <3>1, MaxIs
  <2>2. (1 .. k) \ {k} = 1 .. k - 1 /\ 1 .. k # {} /\ 1 .. k \in SUBSET (1 .. n)
    OBVIOUS
  <2> QED
    BY <1>2, <2>1, <2>2
<1> QED
  BY <1>3, <1>4 DEF g

LEMMA JoinedIs ==
  /\ Joined(<<>>) = <<>>
  /\ \A lines \in Seq(Seq(Char)), line \in Seq(Char) : Joined(Append(lines, line)) = Put(Joined(lines), line)
<1>1. Joined(<<>>) = <<>>
  <2> DEFINE none == <<>>
  <2>1. DOMAIN none = 1 .. 0 /\ 0 \in Nat
    OBVIOUS
  <2> HIDE DEF none
  <2>2. Joined(none) = <<>>
    BY <2>1, JoinedIsFold, FoldSteps
  <2> QED
    BY <2>2 DEF none
<1>2. ASSUME NEW lines \in Seq(Seq(Char)), NEW line \in Seq(Char)
      PROVE  Joined(Append(lines, line)) = Put(Joined(lines), line)
  <2> DEFINE n == Len(lines)
             all == Append(lines, line)
             a == FoldOf(lines, n)
             b == FoldOf(all, n + 1)
  <2>1. n \in Nat /\ DOMAIN lines = 1 .. n /\ DOMAIN all = 1 .. n + 1
        /\ all[n + 1] = line /\ \A k \in 1 .. n : all[k] = lines[k]
    OBVIOUS
  <2> HIDE DEF n, all
  <2>2. a[1 .. 0] = <<>> /\ \A k \in 1 .. n : a[1 .. k] = Put(a[1 .. k - 1], lines[k])
    BY <2>1, FoldSteps
  <2>3. b[1 .. 0] = <<>> /\ \A k \in 1 .. n + 1 : b[1 .. k] = Put(b[1 .. k - 1], all[k])
    <3>1. n + 1 \in Nat
      BY <2>1
    <3> QED
      BY <3>1, FoldSteps
  <2>4. Joined(lines) = a[1 .. n] /\ Joined(all) = b[1 .. n + 1]
    BY <2>1, JoinedIsFold
  <2> HIDE DEF a, b
  <2>5. \A k \in 0 .. n : a[1 .. k] = b[1 .. k]
    <3> DEFINE bad == {k \in 0 .. n : a[1 .. k] # b[1 .. k]}
    <3> SUFFICES ASSUME bad # {} PROVE FALSE
      OBVIOUS
    <3>1. Min(bad) \in bad /\ \A k \in bad : Min(bad) <= k
      <4>1. bad \in SUBSET Nat
        BY <2>1
      <4> QED
        BY <4>1, MinIs
    <3>2. PICK m \in 0 .. n : a[1 .. m] # b[1 .. m] /\ \A k \in bad : m <= k
      BY <3>1
    <3>3. m # 0
      BY <2>2, <2>3, <3>2
    <3>4. m \in 1 .. n /\ m \in 1 .. n + 1 /\ m - 1 \in 0 .. n /\ ~ (m <= m - 1)
      BY <2>1, <3>3
    <3>5. a[1 .. m - 1] = b[1 .. m - 1]
      BY <3>2, <3>4
    <3> QED
      BY <2>1, <2>2, <2>3, <3>2, <3>4, <3>5
  <2>6. b[1 .. n + 1] = Put(b[1 .. n], line)
    <3>1. n + 1 \in 1 .. n + 1 /\ n + 1 - 1 = n
      BY <2>1
    <3> QED
      BY <2>1, <2>3, <3>1
  <2> QED
    BY <2>1, <2>4, <2>5, <2>6 DEF all
<1> QED
  BY <1>1, <1>2

(* Two parts of a file that meet are a part of it.                         *)
LEMMA PartsMeet ==
  ASSUME NEW data \in Seq(Char), NEW pos \in Nat, NEW part \in Seq(Char), pos + Len(part) <= Len(data),
         \A i \in 1 .. Len(part) : part[i] = data[pos + i]
  PROVE  SubSeq(data, 1, pos) \o part = SubSeq(data, 1, pos + Len(part))
<1> DEFINE u == SubSeq(data, 1, pos)
           w == SubSeq(data, 1, pos + Len(part))
<1>1. u \in Seq(Char) /\ Len(u) = pos /\ \A i \in 1 .. pos : u[i] = data[i]
  OBVIOUS
<1>2. w \in Seq(Char) /\ Len(w) = pos + Len(part) /\ \A i \in 1 .. pos + Len(part) : w[i] = data[i]
  OBVIOUS
<1> HIDE DEF u, w
<1>3. u \o part \in Seq(Char) /\ Len(u \o part) = pos + Len(part)
  BY <1>1, ConcatProperties
<1>4. ASSUME NEW i \in 1 .. pos + Len(part) PROVE (u \o part)[i] = data[i]
  <2>1. CASE i \in 1 .. pos
    BY <1>1, <2>1
  <2>2. CASE i \notin 1 .. pos
    <3>1. i - pos \in 1 .. Len(part) /\ pos + (i - pos) = i
      BY <2>2
    <3>2. (u \o part)[i] = part[i - pos]
      BY <1>1, <2>2
    <3> QED
      BY <3>1, <3>2
  <2> QED
    BY <2>1, <2>2
<1> QED
  BY <1>2, <1>3, <1>4 DEF u, w

(* Where a reader of a file of short lines is: behind a newline, or at the *)
(* end of the file; and what it has got up to there.                       *)
ReadSoFar(data, pos, got) ==
  IsShort(data) =>
    /\ pos = 0 \/ data[pos] = Newline \/ pos = Len(data)
    /\ Joined(got) = IF pos = 0 \/ data[pos] = Newline
                       THEN SubSeq(data, 1, pos) ELSE data \o <<Newline>>

LEMMA OneLineMore ==
  ASSUME NEW data \in Seq(Char), NEW pos \in Nat, pos < Len(data), NEW got \in Seq(Seq(Char)),
         ReadSoFar(data, pos, got)
  PROVE  ReadSoFar(data, AfterLine(data, pos), Append(got, Result(data, pos)))
<1> SUFFICES ASSUME IsShort(data)
             PROVE  ReadSoFar(data, AfterLine(data, pos), Append(got, Result(data, pos)))
  BY DEF ReadSoFar
<1> DEFINE line == Line(data, pos)
           n == Len(line)
<1>1. /\ line \in Seq(Char) /\ n \in Nat /\ n <= Len(data) - pos
      /\ \A i \in 1 .. n : line[i] = data[pos + i]
      /\ pos + n < Len(data) => data[pos + n + 1] = Newline
      /\ pos + n = Len(data) => data[Len(data)] # Newline
  BY LineIs
<1>2. n < BufferSize /\ BufferSize \in Nat
  <2>1. pos \in 0 .. Len(data) - 1
    OBVIOUS
  <2> QED
    BY <2>1, FileAssumption DEF IsShort
<1>3. Result(data, pos) = line
  <2>1. Result(data, pos) = SubSeq(line, 1, n)
    BY <1>1, <1>2 DEF Result
  <2> HIDE DEF line
  <2> QED
    BY <1>1, <2>1
<1>4. AfterLine(data, pos) = IF pos + n < Len(data) THEN pos + n + 1 ELSE Len(data)
  BY <1>1, <1>2 DEF AfterLine
<1> HIDE DEF line
<1>5. Joined(got) = SubSeq(data, 1, pos)
  BY DEF ReadSoFar
<1>6. Joined(Append(got, line)) = SubSeq(data, 1, pos) \o line \o <<Newline>>
  BY <1>1, <1>5, JoinedIs DEF Put
<1> HIDE DEF n
<1>7. SubSeq(data, 1, pos) \o line = SubSeq(data, 1, pos + n)
  <2>1. pos + Len(line) <= Len(data) /\ \A i \in 1 .. Len(line) : line[i] = data[pos + i]
    BY <1>1 DEF n
  <2> QED
    BY <1>1, <2>1, PartsMeet DEF n
<1>8. CASE pos + n < Len(data)
  <2>1. AfterLine(data, pos) = pos + n + 1 /\ data[pos + n + 1] = Newline /\ pos + n \in Nat
    BY <1>1, <1>4, <1>8
  <2> DEFINE nl == <<Newline>>
  <2>2. nl \in Seq(Char) /\ Len(nl) = 1 /\ nl[1] = Newline
    BY DEF Char
  <2> HIDE DEF nl
  <2>3. SubSeq(data, 1, pos + n) \o nl = SubSeq(data, 1, pos + n + 1)
    <3> DEFINE p == pos + n
    <3>1. p \in Nat /\ p + Len(nl) <= Len(data) /\ \A i \in 1 .. Len(nl) : nl[i] = data[p + i]
      BY <1>8, <2>1, <2>2
    <3> HIDE DEF p
    <3>2. SubSeq(data, 1, p) \o nl = SubSeq(data, 1, p + Len(nl))
      BY <2>2, <3>1, PartsMeet
    <3> QED
      BY <2>2, <3>2 DEF p
  <2> QED
    BY <1>3, <1>6, <1>7, <2>1, <2>3 DEF ReadSoFar, nl
<1>9. CASE pos + n = Len(data)
  <2>1. AfterLine(data, pos) = Len(data) /\ data[Len(data)] # Newline /\ Len(data) # 0
    BY <1>1, <1>4, <1>9
  <2>2. SubSeq(data, 1, pos + n) = data
    BY <1>9
  <2> QED
    BY <1>3, <1>6, <1>7, <2>1, <2>2 DEF ReadSoFar
<1> QED
  BY <1>1, <1>8, <1>9

-----------------------------------------------------------------------------
(* A reader has what it read so far.  A commit of another handle, or of a  *)
(* removal or a rename, changes its id alone.                              *)
HasRead(f) == f # Closed /\ f.mode = "r" => ReadSoFar(f.data, f.pos, f.got)
ReadersHaveRead == \A h \in Handles : HasRead(handles[h])

Reads(f, g) ==
  /\ {"mode", "data", "pos", "got"} \subseteq DOMAIN g /\ g # Closed
  /\ g.mode = f.mode /\ g.data = f.data /\ g.pos = f.pos /\ g.got = f.got

LEMMA IdIsFixed ==
  ASSUME NEW f, NEW g, Reads(f, g), NEW attr
  PROVE  Reads(f, FixId(g, attr))
<1> DEFINE k == FixId(g, attr)
<1>1. \/ k = g
      \/ k = [g EXCEPT !.null = TRUE, !.id = 0]
      \/ k = [g EXCEPT !.id = @ - 1]
      \/ k = [g EXCEPT !.id = @ + 1]
  BY DEF FixId
<1> HIDE DEF k
<1>2. /\ {"mode", "data", "pos", "got"} \subseteq DOMAIN k
      /\ k.mode = g.mode /\ k.data = g.data /\ k.pos = g.pos /\ k.got = g.got
  BY <1>1 DEF Reads
<1>3. k # Closed
  <2>1. "data" \notin DOMAIN Closed
    BY DEF Closed
  <2> QED
    BY <1>2, <2>1
<1> QED
  BY <1>2, <1>3 DEF Reads, k

LEMMA IdsAreFixed ==
  ASSUME NEW f \in Files \cup {Closed}, NEW n \in 1 .. 3, NEW attrs, DOMAIN attrs = 1 .. n, HasRead(f)
  PROVE  HasRead(FixIds(f, attrs))
<1>1. CASE f = Closed
  BY <1>1 DEF FixIds
<1>2. CASE f # Closed /\ f.null
  BY <1>2 DEF FixIds
<1>3. CASE f # Closed /\ ~f.null
  <2>1. Reads(f, f)
    BY <1>3 DEF Reads, Files
  <2>2. Reads(f, FixIds(f, attrs))
    <3> DEFINE g == FoldLeft(FixId, f, attrs)
    <3>1. FixIds(f, attrs) = g
      BY <1>3 DEF FixIds
    <3>2. \/ g = FixId(f, attrs[1])
          \/ g = FixId(FixId(f, attrs[1]), attrs[2])
          \/ g = FixId(FixId(FixId(f, attrs[1]), attrs[2]), attrs[3])
      <4>1. n = 1 \/ n = 2 \/ n = 3
        OBVIOUS
      <4>2. /\ n = 1 => g = FixId(f, attrs[1])
            /\ n = 2 => g = FixId(FixId(f, attrs[1]), attrs[2])
            /\ n = 3 => g = FixId(FixId(FixId(f, attrs[1]), attrs[2]), attrs[3])
        BY ONLY n \in 1 .. 3, DOMAIN attrs = 1 .. n, FixAll, Zenon
      <4> QED
        BY ONLY <4>1, <4>2, Zenon
    <3> HIDE DEF g
    <3>3. Reads(f, FixId(f, attrs[1]))
      BY <2>1, IdIsFixed
    <3>4. Reads(f, FixId(FixId(f, attrs[1]), attrs[2]))
      BY <3>3, IdIsFixed
    <3>5. Reads(f, FixId(FixId(FixId(f, attrs[1]), attrs[2]), attrs[3]))
      BY <3>4, IdIsFixed
    <3> QED
      BY <3>1, <3>2, <3>3, <3>4, <3>5
  <2> QED
    BY <1>3, <2>2 DEF HasRead, Reads
<1> QED
  BY <1>1, <1>2, <1>3

LEMMA NewHandleHasRead ==
  ASSUME NEW mode, NEW i, NEW data, NEW dirty
  PROVE  HasRead(NewHandle(mode, i, data, dirty))
<1> DEFINE f == NewHandle(mode, i, data, dirty)
<1>1. f.data = data /\ f.pos = 0 /\ f.got = <<>>
  BY DEF NewHandle
<1> HIDE DEF f
<1>2. SubSeq(data, 1, 0) = <<>>
  OBVIOUS
<1>3. ReadSoFar(data, 0, <<>>)
  BY <1>2, JoinedIs DEF ReadSoFar
<1> QED
  BY <1>1, <1>3 DEF HasRead, f

LEMMA ReadersNext ==
  ASSUME IInv, ReadersHaveRead, [Next]_vars
  PROVE  ReadersHaveRead'
<1>0. handles \in [Handles -> Files \cup {Closed}]
  BY DEF IInv, HandlesTrack
<1>1. ASSUME NEW h \in Handles, NEW g, handles' = [handles EXCEPT ![h] = g], HasRead(g)
      PROVE  ReadersHaveRead'
  <2>1. \A k \in Handles : handles'[k] = IF k = h THEN g ELSE handles[k]
    BY <1>0, <1>1
  <2>2. \A k \in Handles : HasRead(handles'[k])
    BY <1>1, <2>1 DEF ReadersHaveRead
  <2> QED
    BY <2>2 DEF ReadersHaveRead, HasRead
<1>2. ASSUME NEW n \in 1 .. 3, NEW attrs, DOMAIN attrs = 1 .. n,
             handles' = [k \in Handles |-> FixIds(handles[k], attrs)]
      PROVE  ReadersHaveRead'
  <2>1. \A k \in Handles : HasRead(handles'[k])
    BY <1>0, <1>2, IdsAreFixed DEF ReadersHaveRead
  <2> QED
    BY <2>1 DEF ReadersHaveRead, HasRead
<1>3. ASSUME NEW h \in Handles, NEW n \in Names, NEW mode \in Modes, OpenExisting(h, n, mode)
      PROVE  ReadersHaveRead'
  <2>1. PICK data, dirty : handles' = [handles EXCEPT ![h] = NewHandle(mode, IdOf(n), data, dirty)]
    BY <1>3 DEF OpenExisting
  <2> QED
    BY <1>1, <2>1, NewHandleHasRead
<1>4. ASSUME NEW h \in Handles, NEW n \in Names, NEW mode \in Modes, OpenNew(h, n, mode)
      PROVE  ReadersHaveRead'
  <2> DEFINE attrs == << Create(NewId(n), [name |-> n, data |-> <<>>]) >>
             g == NewHandle(mode, NewId(n), <<>>, FALSE)
  <2>1. handles' = [FixOthers(h, attrs) EXCEPT ![h] = g]
    BY <1>4 DEF OpenNew
  <2>2. DOMAIN attrs = 1 .. 1 /\ 1 \in 1 .. 3
    OBVIOUS
  <2>3. HasRead(g)
    BY NewHandleHasRead
  <2> HIDE DEF attrs, g
  <2>4. \A k \in Handles : handles'[k] = IF k = h THEN g ELSE FixIds(handles[k], attrs)
    BY <2>1 DEF FixOthers
  <2>5. \A k \in Handles : HasRead(FixIds(handles[k], attrs))
    BY <1>0, <2>2, IdsAreFixed DEF ReadersHaveRead
  <2>6. \A k \in Handles : HasRead(handles'[k])
    BY <2>3, <2>4, <2>5
  <2> QED
    BY <2>6 DEF ReadersHaveRead, HasRead
<1>5. ASSUME NEW h \in Handles, NEW s \in Strings, LuaFileWrite(h, s) \/ WriteFails(h, s)
      PROVE  ReadersHaveRead'
  <2> DEFINE f == handles[h]
  <2>1. f \in Files /\ f.mode # "r"
    BY <1>0, <1>5 DEF LuaFileWrite, WriteFails, MayWrite, IsOpen
  <2>2. PICK t, e : handles' = [handles EXCEPT ![h] = [Appended(f, t) EXCEPT !.erred = e]]
    <3>1. CASE LuaFileWrite(h, s)
      BY <1>0, <3>1 DEF LuaFileWrite
    <3>2. CASE WriteFails(h, s)
      BY <1>0, <3>2 DEF WriteFails
    <3> QED
      BY <1>5, <3>1, <3>2
  <2> HIDE DEF f
  <2>3. [Appended(f, t) EXCEPT !.erred = e].mode = f.mode
    BY <2>1 DEF Appended, Files
  <2>4. HasRead([Appended(f, t) EXCEPT !.erred = e])
    BY <2>1, <2>3 DEF HasRead
  <2> QED
    BY <1>1, <2>2, <2>4
<1>6. ASSUME NEW h \in Handles, LuaFileRead(h)
      PROVE  ReadersHaveRead'
  <2> DEFINE f == handles[h]
             got == IF f.mode = "r" THEN Append(f.got, Result(f.data, f.pos)) ELSE f.got
             g == [f EXCEPT !.got = got, !.pos = AfterLine(f.data, f.pos)]
  <2>1. Tracks(f, dir) /\ f \in Files
    BY <1>6, HandleIsOpen DEF LuaFileRead
  <2>2. CASE f.pos = Len(f.data)
    <3>1. UNCHANGED handles
      BY <1>6, <2>2 DEF LuaFileRead
    <3> QED
      BY <3>1 DEF ReadersHaveRead, HasRead
  <2>3. CASE f.pos # Len(f.data)
    <3>1. handles' = [handles EXCEPT ![h] = g]
      BY <1>0, <1>6, <2>3 DEF LuaFileRead
    <3>2. f.pos \in Nat /\ f.pos < Len(f.data) /\ f.data \in Seq(Char) /\ f.got \in Seq(Seq(Char))
      BY <2>1, <2>3 DEF Tracks, Files, Texts
    <3>3. HasRead(f) /\ f # Closed
      BY <1>6 DEF ReadersHaveRead, LuaFileRead, IsOpen
    <3> HIDE DEF f
    <3>4. g.mode = f.mode /\ g.data = f.data /\ g.got = got /\ g.pos = AfterLine(f.data, f.pos)
      BY <2>1 DEF Files
    <3> HIDE DEF g
    <3>5. HasRead(g)
      <4>1. CASE f.mode = "r"
        <5>1. got = Append(f.got, Result(f.data, f.pos)) /\ ReadSoFar(f.data, f.pos, f.got)
          BY <3>3, <4>1 DEF HasRead
        <5> HIDE DEF got
        <5>2. ReadSoFar(f.data, AfterLine(f.data, f.pos), got)
          BY <3>2, <5>1, OneLineMore
        <5> QED
          BY <3>4, <5>2 DEF HasRead
      <4>2. CASE f.mode # "r"
        BY <3>4, <4>2 DEF HasRead
      <4> QED
        BY <4>1, <4>2
    <3> QED
      BY <1>1, <3>1, <3>5
  <2> QED
    BY <2>2, <2>3
<1>7. ASSUME NEW h \in Handles, LuaFileClose(h)
      PROVE  ReadersHaveRead'
  <2>1. handles' = [handles EXCEPT ![h] = Closed] /\ HasRead(Closed)
    BY <1>7 DEF LuaFileClose, HasRead
  <2> QED
    BY <1>1, <2>1
<1>8. ASSUME NEW n \in Names, LuaFileRemove(n)
      PROVE  ReadersHaveRead'
  <2> DEFINE attrs == << Delete(IdOf(n)) >>
  <2>1. handles' = [k \in Handles |-> FixIds(handles[k], attrs)]
    BY <1>8 DEF LuaFileRemove
  <2>2. DOMAIN attrs = 1 .. 1 /\ 1 \in 1 .. 3
    OBVIOUS
  <2> HIDE DEF attrs
  <2> QED
    BY <1>2, <2>1, <2>2
<1>9. ASSUME NEW from \in Names, NEW to \in Names, LuaFileRename(from, to)
      PROVE  ReadersHaveRead'
  <2> DEFINE attrs == RenameAttrs(from, to)
  <2>1. handles' = [k \in Handles |-> FixIds(handles[k], attrs)]
    BY <1>9 DEF LuaFileRename
  <2>2. \E n \in 1 .. 3 : DOMAIN attrs = 1 .. n
    <3>1. CASE Exists(to)
      <4>1. DOMAIN attrs = 1 .. 3 /\ 3 \in 1 .. 3
        BY <3>1 DEF RenameAttrs
      <4> QED
        BY <4>1
    <3>2. CASE ~Exists(to)
      <4>1. DOMAIN attrs = 1 .. 2 /\ 2 \in 1 .. 3
        BY <3>2 DEF RenameAttrs
      <4> QED
        BY <4>1
    <3> QED
      BY <3>1, <3>2
  <2> HIDE DEF attrs
  <2> QED
    BY <1>2, <2>1, <2>2
<1>10. CASE Restart
  <2>1. \A k \in Handles : handles'[k] = Closed
    BY <1>10 DEF Restart
  <2> QED
    BY <2>1 DEF ReadersHaveRead, HasRead
<1>11. CASE UNCHANGED vars
  BY <1>11 DEF vars, ReadersHaveRead, HasRead
<1> QED
  BY <1>3, <1>4, <1>5, <1>6, <1>7, <1>8, <1>9, <1>10, <1>11 DEF Next

(* A reader of a file of short lines has got what the file holds up to its *)
(* place, line by line, whatever other handles do to the directory.        *)
THEOREM LinesComeBack == Spec => []LinesAreReadBack
<1>1. Init => ReadersHaveRead
  BY DEF Init, ReadersHaveRead, HasRead
<1>2. IInv /\ ReadersHaveRead /\ [Next]_vars => ReadersHaveRead'
  BY ReadersNext
<1>3. ReadersHaveRead => LinesAreReadBack
  BY DEF ReadersHaveRead, HasRead, ReadSoFar, LinesAreReadBack, IsOpen
<1> QED
  BY <1>1, <1>2, <1>3, Invariance, PTL DEF Spec
=============================================================================
