------------------------- MODULE AdbHandshakeProofs -------------------------
(***************************************************************************)
(* Theorems about AdbKeyStore and AdbHandshake, for any keys, tabs and     *)
(* attempts and any number of faults: no key is lost, a deleted one is     *)
(* gone, and the user is asked only about keys the phone does not know.    *)
(***************************************************************************)
EXTENDS AdbHandshake, SequenceTheorems, WellFoundedInduction, TLAPS

-----------------------------------------------------------------------------
(* Lists of keys                                                           *)

\* Induction on numbers, for a set instead of a predicate.
LEMMA Induction ==
    ASSUME NEW T, 0 \in T, \A n \in Nat : n \in T => n + 1 \in T
    PROVE  Nat \subseteq T
<1> SUFFICES ASSUME Nat \ T # {} PROVE FALSE
  OBVIOUS
<1>1. PICK x \in Nat \ T : \A y \in Nat \ T : ~(<<y, x>> \in OpToRel(<, Nat))
  BY WFMin, NatLessThanWellFounded
<1>2. \A y \in Nat \ T : ~(y < x)
  BY <1>1 DEF OpToRel
<1>3. x # 0 /\ x \in Nat
  BY <1>1
<1>4. x - 1 \in Nat /\ x - 1 < x
  BY <1>3
<1>5. x - 1 \in T
  BY <1>2, <1>4
<1>6. (x - 1) + 1 \in T
  BY <1>4, <1>5
<1>7. (x - 1) + 1 = x
  BY <1>3
<1>8. QED
  BY <1>1, <1>6, <1>7

\* Appending adds one entry, and no other.
LEMMA HasAppend ==
    ASSUME NEW E, NEW q \in Seq(E), NEW e \in E
    PROVE  Append(q, e) \in Seq(E) /\ \A x : Has(Append(q, e), x) <=> Has(q, x) \/ x = e
<1> DEFINE r == Append(q, e)
<1>1. /\ r \in Seq(E) /\ Len(r) = Len(q) + 1 /\ Len(q) \in Nat
      /\ \A i \in 1..Len(q) : r[i] = q[i]
      /\ r[Len(q) + 1] = e /\ DOMAIN r = 1..Len(r) /\ DOMAIN q = 1..Len(q)
  OBVIOUS
<1> HIDE DEF r
<1>2. ASSUME NEW x PROVE Has(r, x) <=> Has(q, x) \/ x = e
  <2>1. ASSUME NEW i \in DOMAIN r, r[i] = x PROVE Has(q, x) \/ x = e
    <3>1. i \in 1..Len(q) \/ i = Len(q) + 1
      BY <1>1
    <3>2. QED
      BY <1>1, <2>1, <3>1 DEF Has
  <2>2. ASSUME NEW i \in DOMAIN q, q[i] = x PROVE Has(r, x)
    <3>1. i \in DOMAIN r /\ r[i] = x
      BY <1>1, <2>2
    <3>2. QED
      BY <3>1, Zenon DEF Has
  <2>3. ASSUME x = e PROVE Has(r, x)
    <3>1. Len(q) + 1 \in DOMAIN r
      BY <1>1
    <3>2. QED
      BY <1>1, <2>3, <3>1, Zenon DEF Has
  <2>4. QED
    BY <2>1, <2>2, <2>3, Zenon DEF Has
<1>3. QED
  BY <1>1, <1>2 DEF r

\* What entry n adds to those kept of the entries before it.
KeepEntry(s, S, n, q) == IF s[n] \in S THEN Append(q, s[n]) ELSE q

\* Keeping one entry more: nothing but that entry comes in.
LEMMA OneMore ==
    ASSUME NEW E, NEW s \in Seq(E), NEW S, NEW n \in 1..Len(s), NEW q \in Seq(E \cap S)
    PROVE  /\ KeepEntry(s, S, n, q) \in Seq(E \cap S)
           /\ \A x : Has(KeepEntry(s, S, n, q), x) <=> Has(q, x) \/ (x \in S /\ x = s[n])
<1>1. CASE s[n] \in S
  <2>1. s[n] \in E
    BY ElementOfSeq, Zenon
  <2>2. s[n] \in E \cap S
    BY <1>1, <2>1
  <2>3. Append(q, s[n]) \in Seq(E \cap S) /\ \A x : Has(Append(q, s[n]), x) <=> Has(q, x) \/ x = s[n]
    BY <2>2, HasAppend, ZenonT(60)
  <2>4. QED
    BY <1>1, <2>3, Zenon DEF KeepEntry
<1>2. CASE s[n] \notin S
  BY <1>2, Zenon DEF KeepEntry
<1>3. QED
  BY <1>1, <1>2

\* Kept() answers a list of just those entries that are in S.
LEMMA KeptHas ==
    ASSUME NEW E, NEW s \in Seq(E), NEW S
    PROVE  /\ Kept(s, S) \in Seq(E \cap S)
           /\ \A x : Has(Kept(s, S), x) <=> x \in S /\ Has(s, x)
<1> DEFINE Body(h) == [n \in 0..Len(s) |-> IF n = 0 THEN <<>> ELSE KeepEntry(s, S, n, h[n - 1])]
           kept == CHOOSE h : h = Body(h)
           Upto(n, f) == /\ f \in [0..n -> Seq(E \cap S)] /\ f[0] = <<>>
                         /\ \A i \in 1..n : f[i] = KeepEntry(s, S, i, f[i - 1])
<1>0. Len(s) \in Nat /\ DOMAIN s = 1..Len(s)
  OBVIOUS
<1>1. ASSUME NEW n \in 1..Len(s), NEW q \in Seq(E \cap S) PROVE KeepEntry(s, S, n, q) \in Seq(E \cap S)
  BY OneMore
<1> DEFINE T == {n \in Nat : n <= Len(s) => \E f : Upto(n, f)}
<1>2. 0 \in T
  <2>0. <<>> \in Seq(E \cap S)
    OBVIOUS
  <2>1. Upto(0, [i \in 0..0 |-> <<>>])
    BY <2>0
  <2>2. QED
    BY <2>1
<1>3. ASSUME NEW n \in Nat, n \in T PROVE n + 1 \in T
  <2>1. SUFFICES ASSUME n + 1 <= Len(s) PROVE \E f : Upto(n + 1, f)
    <3> HIDE DEF Upto
    <3>1. n + 1 \in Nat
      OBVIOUS
    <3>2. QED
      BY <3>1, Zenon
  <2>0. n <= Len(s)
    BY <1>0, <2>1
  <2>2. PICK f : Upto(n, f)
    <3> HIDE DEF Upto
    <3>1. QED
      BY <1>3, <2>0, Zenon
  <2> DEFINE g == [i \in 0..(n + 1) |-> IF i = n + 1 THEN KeepEntry(s, S, n + 1, f[n]) ELSE f[i]]
  <2>3. KeepEntry(s, S, n + 1, f[n]) \in Seq(E \cap S)
    <3>1. n + 1 \in 1..Len(s) /\ n \in 0..n
      BY <1>0, <2>1
    <3>2. f[n] \in Seq(E \cap S)
      BY <2>2, <3>1
    <3>3. QED
      BY <1>1, <3>1, <3>2
  <2>4. \A i \in 0..(n + 1) : i = n + 1 \/ (i \in 0..n /\ i # n + 1)
    OBVIOUS
  <2>5. g \in [0..(n + 1) -> Seq(E \cap S)]
    BY <2>2, <2>3, <2>4
  <2>6. g[0] = <<>>
    BY <2>2
  <2>7. ASSUME NEW i \in 1..(n + 1) PROVE g[i] = KeepEntry(s, S, i, g[i - 1])
    <3>1. i \in 0..(n + 1) /\ i - 1 \in 0..n /\ i - 1 # n + 1 /\ i - 1 \in 0..(n + 1)
      OBVIOUS
    <3>2. g[i - 1] = f[i - 1]
      BY <3>1
    <3>3. CASE i = n + 1
      BY <3>1, <3>2, <3>3
    <3>4. CASE i # n + 1
      <4>1. i \in 1..n /\ g[i] = f[i]
        BY <3>1, <3>4
      <4>2. QED
        BY <2>2, <3>2, <4>1
    <3>5. QED
      BY <3>3, <3>4
  <2>8. QED
    <3> HIDE DEF g
    <3>1. QED
      BY <2>5, <2>6, <2>7
<1>4. \E f : f = Body(f)
  <2>1. Len(s) \in T
    <3> HIDE DEF T
    <3>1. QED
      BY <1>0, <1>2, <1>3, Induction
  <2>2. PICK f : Upto(Len(s), f)
    BY <1>0, <2>1
  <2>3. \A i \in 0..Len(s) : i = 0 \/ i \in 1..Len(s)
    BY <1>0
  <2>4. \A i \in 0..Len(s) : f[i] = Body(f)[i]
    BY <1>0, <2>2, <2>3
  <2>5. f = Body(f)
    BY <2>2, <2>4
  <2>6. QED
    <3> HIDE DEF Body
    <3>1. QED
      BY <2>5
<1>5. kept = Body(kept)
  <2> HIDE DEF Body
  <2>1. QED
    BY <1>4
<1> DEFINE Among(n, x) == \E i \in 1..n : s[i] = x
           Right(n) == /\ kept[n] \in Seq(E \cap S)
                       /\ \A x : Has(kept[n], x) <=> x \in S /\ Among(n, x)
           R == {n \in Nat : n <= Len(s) => Right(n)}
<1>10. Kept(s, S) = kept[Len(s)]
  BY DEF Kept, kept, KeepEntry
<1> HIDE DEF kept
<1>6. \A n \in 0..Len(s) : kept[n] = IF n = 0 THEN <<>> ELSE KeepEntry(s, S, n, kept[n - 1])
  BY <1>5
<1>7. 0 \in R
  <2>1. kept[0] = <<>>
    BY <1>0, <1>6
  <2>2. <<>> \in Seq(E \cap S) /\ DOMAIN <<>> = {}
    OBVIOUS
  <2>3. \A x : ~Has(kept[0], x) /\ ~Among(0, x)
    BY <2>1, <2>2 DEF Has
  <2>4. QED
    BY <2>1, <2>2, <2>3
<1>8. ASSUME NEW n \in Nat, n \in R PROVE n + 1 \in R
  <2>1. SUFFICES ASSUME n + 1 <= Len(s) PROVE Right(n + 1)
    <3> HIDE DEF Right
    <3>1. QED
      OBVIOUS
  <2>2. n + 1 \in 1..Len(s) /\ n + 1 \in 0..Len(s) /\ n + 1 # 0 /\ (n + 1) - 1 = n /\ n <= Len(s)
    BY <1>0, <2>1
  <2>3. Right(n)
    <3> HIDE DEF Right
    <3>1. QED
      BY <1>8, <2>2
  <2>4. kept[n + 1] = KeepEntry(s, S, n + 1, kept[n])
    BY <1>6, <2>2
  <2>5. /\ kept[n + 1] \in Seq(E \cap S)
        /\ \A x : Has(kept[n + 1], x) <=> Has(kept[n], x) \/ (x \in S /\ x = s[n + 1])
    <3>1. kept[n] \in Seq(E \cap S)
      BY <2>3
    <3>2. ASSUME NEW q \in Seq(E \cap S), NEW m \in 1..Len(s)
          PROVE  /\ KeepEntry(s, S, m, q) \in Seq(E \cap S)
                 /\ \A x : Has(KeepEntry(s, S, m, q), x) <=> Has(q, x) \/ (x \in S /\ x = s[m])
      BY OneMore, Zenon
    <3>3. QED
      BY <2>2, <2>4, <3>1, <3>2, Zenon
  <2>6. ASSUME NEW x PROVE Among(n + 1, x) <=> Among(n, x) \/ x = s[n + 1]
    <3>1. \A i \in 1..(n + 1) : i \in 1..n \/ i = n + 1
      OBVIOUS
    <3>2. 1..n \subseteq 1..(n + 1) /\ n + 1 \in 1..(n + 1)
      OBVIOUS
    <3>3. QED
      BY <3>1, <3>2
  <2>7. QED
    <3> HIDE DEF Among
    <3>1. \A x : Has(kept[n], x) <=> x \in S /\ Among(n, x)
      BY <2>3
    <3>2. QED
      BY <2>5, <2>6, <3>1
<1>9. Len(s) \in R
  <2> HIDE DEF R
  <2>1. QED
    BY <1>0, <1>7, <1>8, Induction
<1>11. Right(Len(s))
  <2> HIDE DEF Right
  <2>1. QED
    BY <1>0, <1>9
<1>12. \A x : Among(Len(s), x) <=> Has(s, x)
  BY <1>0 DEF Has
<1>13. QED
  BY <1>10, <1>11, <1>12

\* The first and the last entry of a list, and the list of one key.
LEMMA Entries ==
    ASSUME NEW E, NEW q \in Seq(E)
    PROVE  /\ \A x : Has(q, x) => x \in E
           /\ q # <<>> => Last(q) \in E
           /\ \A e \in E : <<e>> \in Seq(E) /\ <<e>> # <<>> /\ \A x : Has(<<e>>, x) <=> x = e
<1>1. ASSUME NEW x, Has(q, x) PROVE x \in E
  <2>1. PICK i \in DOMAIN q : q[i] = x
    BY <1>1, Zenon DEF Has
  <2>2. i \in 1..Len(q)
    BY <2>1
  <2>3. QED
    BY <2>1, <2>2, ElementOfSeq, Zenon
<1>2. ASSUME q # <<>> PROVE Last(q) \in E
  <2>1. Len(q) \in 1..Len(q)
    BY <1>2
  <2>2. QED
    BY <2>1, ElementOfSeq, Zenon DEF Last
<1>3. ASSUME NEW e \in E PROVE <<e>> \in Seq(E) /\ <<e>> # <<>> /\ \A x : Has(<<e>>, x) <=> x = e
  <2>1. <<e>> \in Seq(E) /\ <<e>> # <<>> /\ DOMAIN <<e>> = {1} /\ <<e>>[1] = e
    BY <1>3
  <2>2. QED
    BY <2>1 DEF Has
<1>4. QED
  BY <1>1, <1>2, <1>3

-----------------------------------------------------------------------------
(* The list of keys in storage                                             *)

Actions == [kind : {"none", "generate", "import"}, key : Keys \cup {NoItem}]

\* The list is a list.
ItemTypes ==
    /\ v2 \in Seq(Keys \cup {Corrupt}) \cup {NoItem}
    /\ legacy \in Keys \cup {Corrupt, NoItem}
    /\ made \in SUBSET NewKeys

\* What the tabs have listed, begun and asked about are keys.
PageTypes ==
    /\ listed \in [Tabs -> Seq(Keys)]
    /\ action \in [Tabs -> Actions]
    /\ \A t \in Tabs : action[t].kind # "none" => action[t].key \in Keys
    /\ pendingDelete \in [Tabs -> Keys \cup {NoItem}]

\* The old item goes when the list is written.
OneItem == v2 = NoItem \/ legacy = NoItem

\* A step loses no key, unless it is deleted.
Keeps == \A k \in InStorage \ InStorage' : \E t \in Tabs : Deletes(t, k)

\* A key that is deleted is nowhere any more.
Rids ==
    \A t \in Tabs : (\E k \in Keys : Deletes(t, k) /\ ~Has(listed'[t], k) /\ Has(listed[t], k))
          => pendingDelete[t] \notin InStorage'

\* What every step does to the list.
StoreStep == ItemTypes' /\ PageTypes' /\ (OneItem => OneItem') /\ Keeps /\ (OneItem => Rids)

\* The list that is read is that of the keys in storage.
LEMMA StoredList ==
    ASSUME ItemTypes
    PROVE  /\ Stored \in Seq(Keys) /\ Adopted \in Seq(Keys) /\ (v2 = NoItem => Stored = Adopted)
           /\ \A k : Has(Stored, k) => k \in Keys
           /\ \A k : v2 = NoItem => (Has(Stored, k) <=> k \in Keys /\ legacy = k)
           /\ \A k : v2 # NoItem => (Has(Stored, k) <=> k \in Keys /\ Has(v2, k))
<1>1. /\ Adopted \in Seq(Keys)
      /\ \A k : Has(Adopted, k) <=> k \in Keys /\ legacy = k
  <2>1. CASE legacy = NoItem
    <3>1. Adopted = <<>> /\ <<>> \in Seq(Keys) /\ DOMAIN <<>> = {}
      BY <2>1 DEF Adopted
    <3>2. \A k \in Keys : k # legacy
      BY <2>1, KeyAssumption
    <3>3. QED
      BY <3>1, <3>2 DEF Has
  <2>2. CASE legacy # NoItem
    <3> DEFINE E == Keys \cup {Corrupt}
    <3>1. legacy \in E /\ E \cap Keys = Keys
      BY <2>2 DEF ItemTypes
    <3> HIDE DEF E
    <3>2. <<legacy>> \in Seq(E) /\ \A x : Has(<<legacy>>, x) <=> x = legacy
      BY <3>1, <<>> \in Seq(E), Entries, Zenon
    <3>3. Adopted = Kept(<<legacy>>, Keys)
      BY <2>2 DEF Adopted, Parse
    <3>4. /\ Kept(<<legacy>>, Keys) \in Seq(E \cap Keys)
          /\ \A x : Has(Kept(<<legacy>>, Keys), x) <=> x \in Keys /\ Has(<<legacy>>, x)
      BY <3>2, KeptHas, Zenon
    <3>5. QED
      BY <3>1, <3>2, <3>3, <3>4
  <2>3. QED
    BY <2>1, <2>2
<1>2. ASSUME v2 # NoItem
      PROVE  Stored \in Seq(Keys) /\ \A k : Has(Stored, k) <=> k \in Keys /\ Has(v2, k)
  <2> DEFINE E == Keys \cup {Corrupt}
  <2>1. v2 \in Seq(E) /\ E \cap Keys = Keys
    BY <1>2 DEF ItemTypes
  <2> HIDE DEF E
  <2>2. Stored = Kept(v2, Keys)
    BY <1>2 DEF Stored, Parse
  <2>3. /\ Kept(v2, Keys) \in Seq(E \cap Keys)
        /\ \A x : Has(Kept(v2, Keys), x) <=> x \in Keys /\ Has(v2, x)
    BY <2>1, KeptHas, Zenon
  <2>4. QED
    BY <2>1, <2>2, <2>3
<1>3. v2 = NoItem => Stored = Adopted
  BY DEF Stored
<1>4. Stored \in Seq(Keys)
  BY <1>1, <1>2, <1>3
<1>5. QED
  BY <1>1, <1>2, <1>3, <1>4

\* What is in storage is what is listed, and the old key if it has not been dropped.
LEMMA StorageList ==
    ASSUME ItemTypes PROVE \A k : k \in InStorage <=> Has(Stored, k) \/ (k \in Keys /\ legacy = k)
  BY StoredList DEF InStorage

\* A list of keys is an item.
LEMMA ListIsItem == ASSUME NEW q \in Seq(Keys) PROVE q \in Seq(Keys \cup {Corrupt}) /\ q # NoItem
<1>1. q \in Seq(Keys \cup {Corrupt})
  OBVIOUS
<1>2. QED
  BY <1>1, KeyAssumption

\* A list that is written is what is stored, with an old key that there should not be.
LEMMA Wrote ==
    ASSUME ItemTypes, NEW q \in Seq(Keys), WriteBack(q), made' \in SUBSET NewKeys
    PROVE  /\ ItemTypes' /\ (OneItem => OneItem')
           /\ \A k : k \in InStorage' <=> Has(q, k) \/ (k \in Keys /\ v2 # NoItem /\ legacy = k)
<1>1. v2' = q /\ q \in Seq(Keys \cup {Corrupt}) /\ q # NoItem
  BY ListIsItem DEF WriteBack
<1>2. legacy' = IF v2 = NoItem THEN NoItem ELSE legacy
  BY DEF WriteBack, DropLegacy
<1>3. ItemTypes'
  BY <1>1, <1>2 DEF ItemTypes
<1>4. OneItem => OneItem'
  BY <1>1, <1>2 DEF OneItem
<1>5. \A x : Has(q, x) => x \in Keys
  BY Entries, Zenon
<1>6. InStorage' = {k \in Keys : legacy' = k \/ Has(q, k)}
  BY <1>1 DEF InStorage, Has
<1>7. NoItem \notin Keys
  BY KeyAssumption
<1>8. QED
  BY <1>2, <1>3, <1>4, <1>5, <1>6, <1>7

\* Reading changes nothing that is stored.
LEMMA Read ==
    ASSUME ItemTypes, ReadOnly, made' \in SUBSET NewKeys
    PROVE  ItemTypes' /\ (OneItem => OneItem') /\ \A k : k \in InStorage' <=> k \in InStorage
<1>1. CASE v2 = NoItem
  <2>1. PICK q : q = Adopted
    OBVIOUS
  <2>2. q \in Seq(Keys) /\ \A k : Has(q, k) <=> Has(Stored, k)
    BY <1>1, <2>1, StoredList
  <2>3. WriteBack(q)
    BY <1>1, <2>1 DEF ReadOnly, WriteBack
  <2>4. /\ ItemTypes' /\ (OneItem => OneItem')
        /\ \A k : k \in InStorage' <=> Has(q, k) \/ (k \in Keys /\ v2 # NoItem /\ legacy = k)
    BY <2>2, <2>3, Wrote
  <2>5. \A k : k \in InStorage <=> Has(Stored, k)
    BY <1>1, StorageList, StoredList
  <2>6. QED
    BY <1>1, <2>2, <2>4, <2>5
<1>2. CASE v2 # NoItem
  <2>1. UNCHANGED <<v2, legacy>>
    BY <1>2 DEF ReadOnly, DropLegacy
  <2>2. InStorage' = InStorage
    BY <2>1 DEF InStorage, Has
  <2>3. QED
    BY <2>1, <2>2 DEF ItemTypes, OneItem
<1>3. QED
  BY <1>1, <1>2

\* Nor does writing that fails.
LEMMA Threw ==
    ASSUME ItemTypes, WriteThrows, made' \in SUBSET NewKeys
    PROVE  ItemTypes' /\ (OneItem => OneItem') /\ \A k : k \in InStorage' <=> k \in InStorage
<1>1. CASE ReadOnly
  BY <1>1, Read
<1>2. CASE UNCHANGED <<v2, legacy>>
  <2>1. InStorage' = InStorage
    BY <1>2 DEF InStorage, Has
  <2>2. QED
    BY <1>2, <2>1 DEF ItemTypes, OneItem
<1>3. QED
  BY <1>1, <1>2 DEF WriteThrows

\* A key is added to the list as it is stored.
LEMMA Added ==
    ASSUME ItemTypes, NEW key \in Keys, NEW q, q = Append(Stored, key), WriteBack(q), made' \in SUBSET NewKeys
    PROVE  /\ ItemTypes' /\ (OneItem => OneItem')
           /\ q \in Seq(Keys) /\ Has(q, key)
           /\ \A k : k \in InStorage => k \in InStorage'
<1>1. PICK s : s = Stored
  OBVIOUS
<1>2. s \in Seq(Keys) /\ \A k : Has(Stored, k) <=> Has(s, k)
  BY <1>1, StoredList
<1>3. q \in Seq(Keys) /\ \A x : Has(q, x) <=> Has(s, x) \/ x = key
  BY <1>1, <1>2, HasAppend
<1>4. /\ ItemTypes' /\ (OneItem => OneItem')
      /\ \A k : k \in InStorage' <=> Has(q, k) \/ (k \in Keys /\ v2 # NoItem /\ legacy = k)
  BY <1>3, Wrote
<1>5. \A k : k \in InStorage => Has(s, k) \/ (k \in Keys /\ v2 # NoItem /\ legacy = k)
  BY <1>2, StorageList, StoredList
<1>6. QED
  BY <1>3, <1>4, <1>5

\* Without a dialog that closes nothing is deleted.
LEMMA NoDialog ==
    ASSUME PageTypes, NEW t \in Tabs,
           \A u \in Tabs \ {t} : pendingDelete'[u] = pendingDelete[u],
           pendingDelete[t] = NoItem \/ pendingDelete'[t] = pendingDelete[t],
           \A k : k \in InStorage => k \in InStorage'
    PROVE  Keeps /\ Rids
<1>1. \A u \in Tabs, k \in Keys : ~Deletes(u, k)
  BY KeyAssumption DEF Deletes, PageTypes
<1>2. QED
  BY <1>1 DEF Keeps, Rids

\* A tab that shows a list of keys.
LEMMA Shown ==
    ASSUME PageTypes, NEW t \in Tabs, NEW q \in Seq(Keys), Show(t, q)
    PROVE  listed' \in [Tabs -> Seq(Keys)] /\ listed'[t] = q /\ \A u \in Tabs \ {t} : listed'[u] = listed[u]
  BY DEF PageTypes, Show

\* What runs on the settings page loses no key, and a deleted key is gone.
LEMMA RenderKeeps ==
    ASSUME ItemTypes, PageTypes, NEW t \in Tabs, Render(t)
    PROVE  StoreStep
<1>1. UNCHANGED <<made, action, pendingDelete>> /\ made' \in SUBSET NewKeys
  BY DEF Render, ItemTypes
<1>2. CASE ReadOnly /\ Show(t, Stored)
  <2>1. PICK s : s = Stored
    OBVIOUS
  <2>2. s \in Seq(Keys) /\ Show(t, s)
    BY <1>2, <2>1, StoredList
  <2>3. listed' \in [Tabs -> Seq(Keys)]
    BY <2>2, Shown
  <2>4. ItemTypes' /\ (OneItem => OneItem') /\ \A k : k \in InStorage' <=> k \in InStorage
    BY <1>1, <1>2, Read
  <2>5. PageTypes'
    BY <1>1, <2>3 DEF PageTypes
  <2>6. QED
    BY <1>1, <2>4, <2>5, NoDialog DEF StoreStep
<1>3. CASE UNCHANGED <<v2, legacy, listed>>
  <2>1. ItemTypes' /\ (OneItem => OneItem') /\ PageTypes'
    BY <1>1, <1>3 DEF ItemTypes, OneItem, PageTypes
  <2>2. InStorage' = InStorage
    BY <1>3 DEF InStorage, Has
  <2>3. QED
    BY <1>1, <2>1, <2>2, NoDialog DEF StoreStep
<1>4. QED
  BY <1>2, <1>3 DEF Render

\* While keys there are to generate, the next is one of them.
LEMMA FreshIsNew == ASSUME made \in SUBSET NewKeys, NewKeys # made PROVE Fresh \in NewKeys /\ Fresh \in Keys
<1>1. \E key \in NewKeys : key \notin made
  OBVIOUS
<1>2. QED
  BY <1>1 DEF Fresh, Keys

\* A tab that begins an action.
LEMMA StartKeeps ==
    ASSUME ItemTypes, PageTypes, NEW t \in Tabs, StartGenerate(t) \/ StartImport(t)
    PROVE  StoreStep
<1>1. UNCHANGED <<v2, legacy, listed, pendingDelete>>
  BY DEF StartGenerate, StartImport, storeVars
<1>2. InStorage' = InStorage /\ (OneItem => OneItem')
  BY <1>1 DEF InStorage, Has, OneItem
<1>3. \E a \in Actions : a.key \in Keys /\ action' = [action EXCEPT ![t] = a] /\ made' \in SUBSET NewKeys
  <2>1. CASE StartGenerate(t)
    <3>1. PICK a : a = [kind |-> "generate", key |-> Fresh]
      OBVIOUS
    <3>2. Fresh \in NewKeys /\ Fresh \in Keys
      BY <2>1, FreshIsNew DEF StartGenerate, ItemTypes
    <3>3. a \in Actions /\ a.key \in Keys
      BY <3>1, <3>2 DEF Actions
    <3>4. action' = [action EXCEPT ![t] = a] /\ made' \in SUBSET NewKeys
      BY <2>1, <3>1, <3>2 DEF StartGenerate, ItemTypes
    <3>5. QED
      BY <3>3, <3>4
  <2>2. CASE StartImport(t)
    <3>1. PICK key \in PemKeys : action' = [action EXCEPT ![t] = [kind |-> "import", key |-> key]]
      BY <2>2 DEF StartImport
    <3>2. PICK a : a = [kind |-> "import", key |-> key]
      OBVIOUS
    <3>3. a \in Actions /\ a.key \in Keys
      BY <3>2 DEF Actions, Keys
    <3>4. made' \in SUBSET NewKeys
      BY <2>2 DEF StartImport, storeVars, ItemTypes
    <3>5. QED
      BY <3>1, <3>2, <3>3, <3>4
  <2>3. QED
    BY <2>1, <2>2
<1>4. ItemTypes' /\ PageTypes'
  BY <1>1, <1>3 DEF ItemTypes, PageTypes
<1>5. QED
  BY <1>1, <1>2, <1>4, NoDialog DEF StoreStep

\* A tab whose action is over.
LEMMA FinishedKeeps ==
    ASSUME PageTypes, NEW t \in Tabs, Finished(t), listed' \in [Tabs -> Seq(Keys)] PROVE PageTypes'
<1>1. Idle \in Actions /\ Idle.kind = "none"
  BY DEF Idle, Actions
<1>2. action' = [action EXCEPT ![t] = Idle] /\ pendingDelete' = pendingDelete
  BY DEF Finished
<1> HIDE DEF Idle
<1>3. action' \in [Tabs -> Actions]
  BY <1>1, <1>2 DEF PageTypes
<1>4. \A u \in Tabs : action'[u].kind # "none" => action'[u].key \in Keys
  BY <1>1, <1>2 DEF PageTypes
<1>5. QED
  BY <1>2, <1>3, <1>4 DEF PageTypes

\* generate() and importPem(), however they end.
LEMMA AddKeyKeeps ==
    ASSUME ItemTypes, PageTypes, NEW t \in Tabs, AddKey(t)
    PROVE  StoreStep
<1>1. Finished(t) /\ made' \in SUBSET NewKeys /\ pendingDelete' = pendingDelete
  BY DEF AddKey, Finished, ItemTypes
<1>2. PICK key : key = action[t].key
  OBVIOUS
<1>3. key \in Keys
  BY <1>2 DEF AddKey, PageTypes
<1>4. PICK q : q = Append(Stored, key)
  OBVIOUS
<1>5. \/ WriteBack(q) /\ Show(t, q)
      \/ WriteThrows /\ UNCHANGED listed
  BY <1>2, <1>4 DEF AddKey, CurrentList
<1>6. CASE WriteBack(q) /\ Show(t, q)
  <2>1. /\ ItemTypes' /\ (OneItem => OneItem')
        /\ q \in Seq(Keys) /\ \A k : k \in InStorage => k \in InStorage'
    BY <1>1, <1>3, <1>4, <1>6, Added
  <2>2. listed' \in [Tabs -> Seq(Keys)]
    BY <1>6, <2>1, Shown
  <2>3. PageTypes'
    BY <1>1, <2>2, FinishedKeeps
  <2>4. QED
    BY <1>1, <2>1, <2>3, NoDialog DEF StoreStep
<1>7. CASE WriteThrows /\ UNCHANGED listed
  <2>1. ItemTypes' /\ (OneItem => OneItem') /\ \A k : k \in InStorage' <=> k \in InStorage
    BY <1>1, <1>7, Threw
  <2>2. PageTypes'
    BY <1>1, <1>7, FinishedKeeps DEF PageTypes
  <2>3. QED
    BY <1>1, <2>1, <2>2, NoDialog DEF StoreStep
<1>8. QED
  BY <1>5, <1>6, <1>7

\* importPem() of a key that is there, and of a file that is none.
LEMMA RefusedKeeps ==
    ASSUME ItemTypes, PageTypes, NEW t \in Tabs, AlreadyListed(t) \/ RefuseFile(t)
    PROVE  StoreStep
<1>1. Finished(t) /\ made' \in SUBSET NewKeys /\ pendingDelete' = pendingDelete
  BY DEF AlreadyListed, RefuseFile, Finished, ItemTypes
<1>2. CASE AlreadyListed(t)
  <2>1. PICK s : s = Stored
    OBVIOUS
  <2>2. s \in Seq(Keys) /\ Show(t, s) /\ ReadOnly
    BY <1>2, <2>1, StoredList DEF AlreadyListed, CurrentList
  <2>3. listed' \in [Tabs -> Seq(Keys)]
    BY <2>2, Shown
  <2>4. ItemTypes' /\ (OneItem => OneItem') /\ \A k : k \in InStorage' <=> k \in InStorage
    BY <1>1, <2>2, Read
  <2>5. PageTypes'
    BY <1>1, <2>3, FinishedKeeps
  <2>6. QED
    BY <1>1, <2>4, <2>5, NoDialog DEF StoreStep
<1>3. CASE RefuseFile(t)
  <2>1. UNCHANGED <<v2, legacy, listed>>
    BY <1>3 DEF RefuseFile
  <2>2. ItemTypes' /\ (OneItem => OneItem') /\ InStorage' = InStorage
    BY <1>1, <2>1 DEF ItemTypes, OneItem, InStorage, Has
  <2>3. PageTypes'
    BY <1>1, <2>1, FinishedKeeps DEF PageTypes
  <2>4. QED
    BY <1>1, <2>2, <2>3, NoDialog DEF StoreStep
<1>4. QED
  BY <1>2, <1>3

\* The dialog opens.
LEMMA AskDeleteKeeps ==
    ASSUME ItemTypes, PageTypes, NEW t \in Tabs, AskDelete(t)
    PROVE  StoreStep
<1>1. UNCHANGED <<v2, legacy, made, listed, action>> /\ pendingDelete[t] = NoItem
  BY DEF AskDelete, storeVars
<1>2. ItemTypes' /\ (OneItem => OneItem') /\ InStorage' = InStorage
  BY <1>1 DEF ItemTypes, OneItem, InStorage, Has
<1>3. PICK i \in DOMAIN listed[t] : pendingDelete' = [pendingDelete EXCEPT ![t] = listed[t][i]]
  BY DEF AskDelete
<1>4. PICK key : key = listed[t][i]
  OBVIOUS
<1>5. key \in Keys
  <2>1. listed[t] \in Seq(Keys) /\ Has(listed[t], key)
    BY <1>3, <1>4, Zenon DEF Has, PageTypes
  <2>2. QED
    BY <2>1, Entries, Zenon
<1>6. pendingDelete' = [pendingDelete EXCEPT ![t] = key]
  BY <1>3, <1>4
<1>7. PageTypes'
  BY <1>1, <1>5, <1>6 DEF PageTypes
<1>8. \A u \in Tabs \ {t} : pendingDelete'[u] = pendingDelete[u]
  BY <1>6 DEF PageTypes
<1>9. QED
  BY <1>1, <1>2, <1>7, <1>8, NoDialog DEF StoreStep

\* The dialog closes, and nothing is deleted.
LEMMA CancelDeleteKeeps ==
    ASSUME ItemTypes, PageTypes, NEW t \in Tabs, CancelDelete(t)
    PROVE  StoreStep
<1>1. UNCHANGED <<v2, legacy, made, listed, action>> /\ pendingDelete' = [pendingDelete EXCEPT ![t] = NoItem]
  BY DEF CancelDelete, CloseDelete, storeVars
<1>2. ItemTypes' /\ (OneItem => OneItem') /\ PageTypes' /\ InStorage' = InStorage
  BY <1>1 DEF ItemTypes, OneItem, PageTypes, InStorage, Has
<1>3. QED
  BY <1>1, <1>2 DEF Keeps, Rids, StoreStep

\* remove() takes the key away, all of it, and no other.
LEMMA ConfirmDeleteKeeps ==
    ASSUME ItemTypes, PageTypes, NEW t \in Tabs, ConfirmDelete(t)
    PROVE  StoreStep
<1>1. PICK key : key = pendingDelete[t]
  OBVIOUS
<1>2. /\ key \in Keys /\ made' = made /\ made' \in SUBSET NewKeys /\ action' = action
      /\ pendingDelete' = [pendingDelete EXCEPT ![t] = NoItem]
  BY <1>1 DEF ConfirmDelete, CloseDelete, PageTypes, ItemTypes
<1>3. /\ pendingDelete' \in [Tabs -> Keys \cup {NoItem}] /\ pendingDelete'[t] = NoItem
      /\ \A u \in Tabs \ {t} : pendingDelete'[u] = pendingDelete[u]
  BY <1>2 DEF PageTypes
<1>4. Deletes(t, key) /\ \A u \in Tabs, k \in Keys : Deletes(u, k) => u = t /\ k = key
  BY <1>1, <1>2, <1>3, KeyAssumption DEF Deletes
<1>5. PICK s : s = Stored
  OBVIOUS
<1>6. PICK kept : kept = Without(Stored, key)
  OBVIOUS
<1>7. s \in Seq(Keys) /\ \A k : Has(Stored, k) <=> Has(s, k)
  BY <1>5, StoredList
<1>8. kept \in Seq(Keys) /\ \A x : Has(kept, x) <=> x \in Keys \ {key} /\ Has(s, x)
  <2>1. kept = Kept(s, Keys \ {key}) /\ Keys \cap (Keys \ {key}) \subseteq Keys
    BY <1>5, <1>6 DEF Without
  <2>2. /\ Kept(s, Keys \ {key}) \in Seq(Keys \cap (Keys \ {key}))
        /\ \A x : Has(Kept(s, Keys \ {key}), x) <=> x \in Keys \ {key} /\ Has(s, x)
    BY <1>7, KeptHas, Zenon
  <2>3. kept \in Seq(Keys)
    BY <2>1, <2>2
  <2>4. QED
    BY <2>1, <2>2, <2>3
<1>9. \/ kept = s /\ ReadOnly /\ Show(t, kept)
      \/ WriteBack(kept) /\ Show(t, kept)
      \/ WriteThrows /\ UNCHANGED listed
  BY <1>1, <1>5, <1>6 DEF ConfirmDelete
<1>10. CASE kept = s /\ ReadOnly /\ Show(t, kept)
  <2>1. ItemTypes' /\ (OneItem => OneItem') /\ \A k : k \in InStorage' <=> k \in InStorage
    BY <1>2, <1>10, Read
  <2>2. listed' \in [Tabs -> Seq(Keys)]
    BY <1>8, <1>10, Shown
  <2>3. PageTypes'
    BY <1>2, <1>3, <2>2 DEF PageTypes
  <2>4. key \notin InStorage \/ (legacy = key /\ v2 # NoItem)
    BY <1>7, <1>8, <1>10, StorageList, StoredList
  <2>5. OneItem => key \notin InStorage
    BY <1>2, <2>4, KeyAssumption DEF OneItem
  <2>6. QED
    BY <1>1, <1>4, <2>1, <2>3, <2>5 DEF Keeps, Rids, StoreStep
<1>11. CASE WriteBack(kept) /\ Show(t, kept)
  <2>1. /\ ItemTypes' /\ (OneItem => OneItem')
        /\ \A k : k \in InStorage' <=> Has(kept, k) \/ (k \in Keys /\ v2 # NoItem /\ legacy = k)
    BY <1>2, <1>8, <1>11, Wrote
  <2>2. listed' \in [Tabs -> Seq(Keys)]
    BY <1>8, <1>11, Shown
  <2>3. PageTypes'
    BY <1>2, <1>3, <2>2 DEF PageTypes
  <2>4. \A k : k \in InStorage => Has(s, k) \/ (k \in Keys /\ v2 # NoItem /\ legacy = k)
    BY <1>7, StorageList, StoredList
  <2>5. \A k : k \in InStorage => k \in InStorage' \/ k = key
    BY <1>8, <2>1, <2>4 DEF InStorage
  <2>6. OneItem => key \notin InStorage'
    BY <1>2, <1>8, <2>1, KeyAssumption DEF OneItem
  <2>7. QED
    BY <1>1, <1>4, <2>1, <2>3, <2>5, <2>6 DEF Keeps, Rids, StoreStep
<1>12. CASE WriteThrows /\ UNCHANGED listed
  <2>1. ItemTypes' /\ (OneItem => OneItem') /\ \A k : k \in InStorage' <=> k \in InStorage
    BY <1>2, <1>12, Threw
  <2>2. PageTypes'
    BY <1>2, <1>3, <1>12 DEF PageTypes
  <2>3. QED
    BY <1>12, <2>1, <2>2 DEF Keeps, Rids, StoreStep
<1>13. QED
  BY <1>9, <1>10, <1>11, <1>12

\* Every step of a settings page.
LEMMA SettingsKeeps ==
    ASSUME ItemTypes, PageTypes, NEW t \in Tabs, Settings(t) PROVE StoreStep
<1>1. CASE Render(t)
  BY <1>1, RenderKeeps
<1>2. CASE StartGenerate(t) \/ StartImport(t)
  BY <1>2, StartKeeps
<1>3. CASE AddKey(t)
  BY <1>3, AddKeyKeeps
<1>4. CASE AlreadyListed(t) \/ RefuseFile(t)
  BY <1>4, RefusedKeeps
<1>5. CASE AskDelete(t)
  BY <1>5, AskDeleteKeeps
<1>6. CASE CancelDelete(t)
  BY <1>6, CancelDeleteKeeps
<1>7. CASE ConfirmDelete(t)
  BY <1>7, ConfirmDeleteKeeps
<1>8. QED
  BY <1>1, <1>2, <1>3, <1>4, <1>5, <1>6, <1>7 DEF Settings

\* Steps that leave the list and the pages alone.
LEMMA StoreStays == ASSUME ItemTypes, PageTypes, UNCHANGED <<storeVars, pageVars>> PROVE StoreStep
<1>1. UNCHANGED <<v2, legacy, made, listed, action, pendingDelete>>
  BY DEF storeVars, pageVars
<1>2. ItemTypes' /\ PageTypes' /\ (OneItem => OneItem') /\ InStorage' = InStorage
  BY <1>1 DEF ItemTypes, PageTypes, OneItem, InStorage, Has
<1>3. \A t \in Tabs, k \in Keys : ~Deletes(t, k)
  BY <1>1, KeyAssumption DEF Deletes
<1>4. QED
  BY <1>2, <1>3 DEF StoreStep, Keeps, Rids

\* Steps of Adb.connect(), which read the list or add a key, and no page is part of.
LEMMA StoreRead ==
    ASSUME ItemTypes, PageTypes, ReadOnly \/ WriteThrows, UNCHANGED pageVars, made' \in SUBSET NewKeys
    PROVE  StoreStep
<1>1. UNCHANGED <<listed, action, pendingDelete>>
  BY DEF pageVars
<1>2. ItemTypes' /\ (OneItem => OneItem') /\ \A k : k \in InStorage' <=> k \in InStorage
  BY Read, Threw
<1>3. PageTypes'
  BY <1>1 DEF PageTypes
<1>4. \A t \in Tabs, k \in Keys : ~Deletes(t, k)
  BY <1>1, KeyAssumption DEF Deletes
<1>5. QED
  BY <1>2, <1>3, <1>4 DEF StoreStep, Keeps, Rids

\* The first key, of which loadOrCreate() makes a list.
LEMMA StoreAdded ==
    ASSUME ItemTypes, PageTypes, NEW key \in Keys, NEW q, q = Append(Stored, key), WriteBack(q),
           UNCHANGED pageVars, made' \in SUBSET NewKeys
    PROVE  StoreStep
<1>1. UNCHANGED <<listed, action, pendingDelete>>
  BY DEF pageVars
<1>2. ItemTypes' /\ (OneItem => OneItem') /\ \A k : k \in InStorage => k \in InStorage'
  BY Added
<1>3. PageTypes'
  BY <1>1 DEF PageTypes
<1>4. \A t \in Tabs, k \in Keys : ~Deletes(t, k)
  BY <1>1, KeyAssumption DEF Deletes
<1>5. QED
  BY <1>2, <1>3, <1>4 DEF StoreStep, Keeps, Rids

\* A first start finds what FirstItems allows.
LEMMA InitStoreTypes ==
    ASSUME InitStore
    PROVE  /\ ItemTypes /\ PageTypes
           /\ (\A items \in FirstItems : items.v2 = NoItem \/ items.legacy = NoItem) => OneItem
<1>1. PICK items \in FirstItems :
         /\ v2 = items.v2 /\ legacy = items.legacy
         /\ made = NewKeys \cap ({items.legacy} \cup (IF items.v2 = NoItem THEN {} ELSE ToSet(items.v2)))
  BY DEF InitStore
<1>2. ItemTypes
  BY <1>1, ItemAssumption DEF ItemTypes
<1>3. /\ listed = [t \in Tabs |-> <<>>] /\ action = [t \in Tabs |-> Idle]
      /\ pendingDelete = [t \in Tabs |-> NoItem]
  BY DEF InitStore
<1>4. Idle \in Actions /\ Idle.kind = "none" /\ <<>> \in Seq(Keys)
  BY DEF Idle, Actions
<1> HIDE DEF Idle
<1>5. PageTypes
  BY <1>3, <1>4 DEF PageTypes
<1>6. QED
  BY <1>1, <1>2, <1>5 DEF OneItem

-----------------------------------------------------------------------------
(* Types of the link                                                       *)

PacketTypes == [cmd : {"none", "CNXN", "AUTH", "STLS"}, size : Nat, token : Nat]

ConnTypes ==
    [pc : {"unused", "generating", "connecting", "failed", "online", "lost"},
     keys : Seq(Keys), had : SUBSET Keys, keyIndex : Nat, fresh : Keys \cup {NoItem}, usb : Nat,
     loop : {"none", "header", "payload", "writing", "dead"}, left : Nat, sound : BOOLEAN,
     packet : PacketTypes]

TransferTypes == [part : {"header", "payload"}, size : Nat, of : PacketTypes]

RequestTypes ==
    [from : Attempts, cmd : {"CNXN", "SIGNATURE", "RSAPUBLICKEY"}, key : Keys \cup {NoItem}, token : Nat]

PhoneTypes ==
    [known : SUBSET Keys, secure : BOOLEAN, online : BOOLEAN, token : Nat,
     prompt : Keys \cup {NoItem}, denied : BOOLEAN]

\* What a connect() has that reads: keys, those stored at the click among them.
Reads(c) ==
    c.pc \notin {"unused", "generating"} /\ c.keys # <<>> /\ \A k \in c.had : Has(c.keys, k)

Started == {i \in Attempts : Reads(conn[i])}

\* A loop runs, and a transferIn() waits, only for an attempt that has started.
LinkTypes ==
    /\ conn \in [Attempts -> ConnTypes]
    /\ \A i \in Attempts : conn[i].pc = "generating" => conn[i].fresh \in Keys
    /\ \A i \in Attempts : Alive(i) => i \in Started
    /\ posted \in Seq(Started) /\ toHost \in Seq(TransferTypes) /\ toPhone \in Seq(RequestTypes)
    /\ phone \in PhoneTypes /\ unplugs \in Nat /\ overlapped \in BOOLEAN

HeaderOf(p) == [part |-> "header", size |-> HeaderSize, of |-> p]
PayloadOf(p) == [part |-> "payload", size |-> p.size, of |-> p]

\* A list of two in two parts.
LEMMA TwoParts == ASSUME NEW x, NEW y PROVE <<x>> \o <<y>> = <<x, y>>
<1> DEFINE p == <<x>>
           q == <<y>>
           r == <<x, y>>
           S == {x, y}
<1>1. /\ p \in Seq(S) /\ Len(p) = 1 /\ p[1] = x /\ q \in Seq(S) /\ Len(q) = 1 /\ q[1] = y
      /\ r \in Seq(S) /\ Len(r) = 2 /\ r[1] = x /\ r[2] = y
  OBVIOUS
<1> HIDE DEF p, q, r, S
<1>2. /\ p \o q \in Seq(S) /\ Len(p \o q) = 2
      /\ \A i \in 1..2 : (p \o q)[i] = IF i <= 1 THEN p[i] ELSE q[i - 1]
  <2>1. /\ p \o q \in Seq(S) /\ Len(p \o q) = Len(p) + Len(q)
        /\ \A i \in 1..Len(p) + Len(q) : (p \o q)[i] = IF i <= Len(p) THEN p[i] ELSE q[i - Len(p)]
    BY <1>1, ConcatProperties, Zenon
  <2>2. QED
    BY <1>1, <2>1
<1>3. \A i \in 1..2 : i = 1 \/ i = 2
  OBVIOUS
<1>4. \A i \in 1..2 : (p \o q)[i] = r[i]
  BY <1>1, <1>2, <1>3
<1>5. p \o q = r
  BY <1>1, <1>2, <1>4, SeqEqual
<1>6. QED
  BY <1>5 DEF p, q, r

\* The transfers of a packet.
LEMMA TransfersOf ==
    ASSUME NEW p, p.size \in Nat
    PROVE  /\ Transfers(p) # <<>> /\ <<>> \o Transfers(p) = Transfers(p)
           /\ Head(Transfers(p)) = HeaderOf(p)
           /\ p.size > 0 => Tail(Transfers(p)) = <<PayloadOf(p)>>
           /\ p.size = 0 => Tail(Transfers(p)) = <<>>
<1>1. CASE p.size > 0
  <2>1. Transfers(p) = <<HeaderOf(p)>> \o <<PayloadOf(p)>>
    BY <1>1 DEF Transfers, HeaderOf, PayloadOf
  <2>2. PICK x, y : x = HeaderOf(p) /\ y = PayloadOf(p)
    OBVIOUS
  <2>3. Transfers(p) = <<x, y>>
    BY <2>1, <2>2, TwoParts, Zenon
  <2>4. <<x, y>> # <<>> /\ <<>> \o <<x, y>> = <<x, y>> /\ Head(<<x, y>>) = x /\ Tail(<<x, y>>) = <<y>>
    OBVIOUS
  <2>5. p.size # 0
    BY <1>1
  <2>6. QED
    BY <2>2, <2>3, <2>4, <2>5
<1>2. CASE ~(p.size > 0)
  <2>1. Transfers(p) = <<HeaderOf(p)>> \o <<>>
    BY <1>2 DEF Transfers, HeaderOf
  <2>2. PICK x : x = HeaderOf(p)
    OBVIOUS
  <2>3. Transfers(p) = <<x>>
    BY <2>1, <2>2
  <2>4. <<x>> # <<>> /\ <<>> \o <<x>> = <<x>> /\ Head(<<x>>) = x /\ Tail(<<x>>) = <<>>
    OBVIOUS
  <2>5. QED
    BY <1>2, <2>2, <2>3, <2>4
<1>3. QED
  BY <1>1, <1>2

\* The packets of adbd.
LEMMA ThePackets ==
    ASSUME NEW token \in Nat
    PROVE  /\ {Auth(token), Banner, Odd, NoPacket} \subseteq PacketTypes
           /\ Auth(token).cmd = "AUTH" /\ Banner.cmd = "CNXN" /\ Odd.cmd = "STLS"
           /\ Auth(token).size > 0 /\ Banner.size > 0 /\ Odd.size = 0 /\ Auth(token).token = token
           /\ Auth(token) # Banner /\ Auth(token) # Odd /\ HeaderSize \in Nat \ {0}
  BY TransferAssumption DEF PacketTypes, Auth, Banner, Odd, NoPacket, Packet

\* The loop's next transferIn().
LEMMA ReadOnIs ==
    ASSUME NEW c \in ConnTypes, NEW part \in {"header", "payload"}, NEW size \in Nat,
           NEW d, d = ReadOn(c, part, size)
    PROVE  /\ d \in ConnTypes /\ d.loop = part /\ d.left = size /\ d.sound
           /\ d.pc = c.pc /\ d.keys = c.keys /\ d.had = c.had /\ d.keyIndex = c.keyIndex
<1>1. d = [c EXCEPT !.loop = part, !.left = size, !.sound = TRUE]
  BY DEF ReadOn
<1>2. d \in ConnTypes
  BY <1>1 DEF ConnTypes
<1>3. /\ d.loop = part /\ d.left = size /\ d.sound
      /\ d.pc = c.pc /\ d.keys = c.keys /\ d.had = c.had /\ d.keyIndex = c.keyIndex
  BY <1>1 DEF ConnTypes
<1>4. QED
  BY <1>2, <1>3

\* #fail() ends the loop.
LEMMA FailedIs ==
    ASSUME NEW c \in ConnTypes
    PROVE  /\ Failed(c) \in ConnTypes /\ Failed(c).loop = "dead"
           /\ c.pc \notin {"unused", "generating"} => Failed(c).pc \notin {"unused", "generating"}
           /\ Failed(c).keys = c.keys /\ Failed(c).had = c.had
<1>1. PICK pc : pc = IF c.pc = "connecting" THEN "failed" ELSE IF c.pc = "online" THEN "lost" ELSE c.pc
  OBVIOUS
<1>2. /\ pc \in {"unused", "generating", "connecting", "failed", "online", "lost"}
      /\ c.pc \notin {"unused", "generating"} => pc \notin {"unused", "generating"}
  BY <1>1 DEF ConnTypes
<1>3. PICK d : d = [c EXCEPT !.loop = "dead", !.pc = pc]
  OBVIOUS
<1>4. Failed(c) = d
  BY <1>1, <1>3 DEF Failed, ConnTypes
<1>5. d \in ConnTypes /\ d.loop = "dead" /\ d.pc = pc /\ d.keys = c.keys /\ d.had = c.had
  BY <1>2, <1>3 DEF ConnTypes
<1>6. QED
  BY <1>2, <1>4, <1>5

\* Only one attempt changes.
LEMMA OneChanges ==
    ASSUME conn \in [Attempts -> ConnTypes], NEW i \in Attempts, NEW d \in ConnTypes,
           conn' = [conn EXCEPT ![i] = d]
    PROVE  /\ conn' \in [Attempts -> ConnTypes] /\ conn'[i] = d
           /\ \A j \in Attempts \ {i} : conn'[j] = conn[j] /\ Alive(j)' = Alive(j)
  BY DEF Alive

\* One attempt goes on.
LEMMA ConnSteps ==
    ASSUME LinkTypes, NEW i \in Attempts, NEW d \in ConnTypes, conn' = [conn EXCEPT ![i] = d],
           d.pc = "generating" => d.fresh \in Keys,
           i \in Started \/ d.loop \in {"header", "payload", "writing"} => Reads(d)
    PROVE  /\ conn' \in [Attempts -> ConnTypes]
           /\ \A j \in Attempts : conn'[j].pc = "generating" => conn'[j].fresh \in Keys
           /\ \A j \in Attempts : Alive(j)' => j \in Started'
           /\ Started \subseteq Started' /\ (Reads(d) => i \in Started')
<1>1. /\ conn' \in [Attempts -> ConnTypes] /\ conn'[i] = d
      /\ \A j \in Attempts \ {i} : conn'[j] = conn[j] /\ Alive(j)' = Alive(j)
  BY OneChanges DEF LinkTypes
<1>2. Reads(conn[i])' <=> Reads(d)
  BY <1>1 DEF Reads, Has
<1>3. \A j \in Attempts \ {i} : Reads(conn[j])' <=> Reads(conn[j])
  BY <1>1 DEF Reads, Has
<1>4. Started \subseteq Started' /\ (Reads(d) => i \in Started')
  BY <1>2, <1>3 DEF Started
<1>5. Alive(i)' => i \in Started'
  BY <1>1, <1>4 DEF Alive
<1>6. \A j \in Attempts \ {i} : Alive(j)' => j \in Started'
  BY <1>1, <1>4 DEF LinkTypes
<1>7. \A j \in Attempts : conn'[j].pc = "generating" => conn'[j].fresh \in Keys
  BY <1>1 DEF LinkTypes
<1>8. QED
  BY <1>1, <1>4, <1>5, <1>6, <1>7

\* Queues of transferIn()s, while attempts go on.
LEMMA PostedTypes ==
    ASSUME NEW q \in Seq(Started), NEW S, Started \subseteq S, NEW i \in S
    PROVE  /\ q \in Seq(S) /\ Append(q, i) \in Seq(S)
           /\ q # <<>> => Tail(q) \in Seq(S) /\ Append(Tail(q), i) \in Seq(S)
  OBVIOUS

\* A packet's transfers.
LEMMA TransfersTypes ==
    ASSUME NEW p \in PacketTypes, NEW q \in Seq(TransferTypes)
    PROVE  q \o Transfers(p) \in Seq(TransferTypes)
<1>1. p.size \in Nat /\ HeaderSize \in Nat
  BY TransferAssumption DEF PacketTypes
<1>2. HeaderOf(p) \in TransferTypes /\ PayloadOf(p) \in TransferTypes
  BY <1>1 DEF HeaderOf, PayloadOf, TransferTypes
<1> DEFINE h == <<HeaderOf(p)>>
           r == IF p.size > 0 THEN <<PayloadOf(p)>> ELSE <<>>
<1>3. h \in Seq(TransferTypes)
  BY <1>2
<1>4. r \in Seq(TransferTypes)
  BY <1>2
<1>5. Transfers(p) = h \o r
  BY DEF Transfers, HeaderOf, PayloadOf
<1> HIDE DEF h, r
<1>6. h \o r \in Seq(TransferTypes)
  BY <1>3, <1>4, ConcatProperties, Zenon
<1>7. QED
  BY <1>5, <1>6, ConcatProperties, Zenon

\* A request, in the queue.
LEMMA SendTypes ==
    ASSUME LinkTypes, NEW i \in Attempts, NEW cmd \in {"CNXN", "SIGNATURE", "RSAPUBLICKEY"},
           NEW key \in Keys \cup {NoItem}, NEW token \in Nat, Send(i, cmd, key, token)
    PROVE  toPhone' \in Seq(RequestTypes)
<1>1. PICK x : x = [from |-> i, cmd |-> cmd, key |-> key, token |-> token]
  OBVIOUS
<1>2. x \in RequestTypes
  BY <1>1 DEF RequestTypes
<1>3. toPhone' = Append(toPhone, x)
  BY <1>1 DEF Send
<1>4. QED
  BY <1>2, <1>3 DEF LinkTypes

\* Nothing of the link changes.
LEMMA LinkStaysTyped == ASSUME LinkTypes, UNCHANGED <<conn, linkVars, overlapped, unplugs>> PROVE LinkTypes'
<1>1. UNCHANGED <<conn, posted, toHost, toPhone, phone, overlapped, unplugs>>
  BY DEF linkVars
<1>2. Started' = Started /\ \A i \in Attempts : Alive(i)' = Alive(i)
  BY <1>1 DEF Started, Reads, Has, Alive
<1>3. QED
  BY <1>1, <1>2 DEF LinkTypes

\* The page does not change.
LEMMA PhoneTyped ==
    ASSUME LinkTypes, UNCHANGED <<conn, posted, overlapped, unplugs>>, phone' \in PhoneTypes,
           toHost' \in Seq(TransferTypes), toPhone' \in Seq(RequestTypes)
    PROVE  LinkTypes'
<1>1. Started' = Started /\ \A i \in Attempts : Alive(i)' = Alive(i)
  BY DEF Started, Reads, Has, Alive
<1>2. QED
  BY <1>1 DEF LinkTypes

\* Written().
LEMMA WrittenTyped == ASSUME LinkTypes, NEW i \in Attempts, Written(i) PROVE LinkTypes'
<1>1. conn[i] \in ConnTypes /\ HeaderSize \in Nat /\ i \in Started
  BY TransferAssumption DEF LinkTypes, Written, Alive
<1>2. PICK d : d = ReadOn(conn[i], "header", HeaderSize)
  OBVIOUS
<1>3. /\ d \in ConnTypes /\ d.loop = "header" /\ d.pc = conn[i].pc
      /\ d.keys = conn[i].keys /\ d.had = conn[i].had
  BY <1>1, <1>2 DEF ReadOn, ConnTypes
<1>4. Reads(d)
  BY <1>1, <1>3 DEF Started, Reads
<1>5. conn' = [conn EXCEPT ![i] = d] /\ d.pc # "generating"
  BY <1>2, <1>4 DEF Written, Reads
<1>6. /\ conn' \in [Attempts -> ConnTypes]
      /\ \A j \in Attempts : conn'[j].pc = "generating" => conn'[j].fresh \in Keys
      /\ \A j \in Attempts : Alive(j)' => j \in Started'
      /\ Started \subseteq Started' /\ i \in Started'
  BY <1>3, <1>4, <1>5, ConnSteps
<1>7. posted' \in Seq(Started')
  <2>1. PICK S : S = Started'
    OBVIOUS
  <2>2. Append(posted, i) \in Seq(S)
    BY <1>6, <2>1, PostedTypes DEF LinkTypes
  <2>3. QED
    BY <2>1, <2>2 DEF Written
<1>8. UNCHANGED <<toHost, toPhone, phone, overlapped, unplugs>>
  BY DEF Written
<1>9. QED
  BY <1>6, <1>7, <1>8 DEF LinkTypes

\* An attempt that has no loop, and gets none.
LEMMA IdleTyped ==
    ASSUME LinkTypes, NEW i \in Attempts, i \notin Started, NEW d \in ConnTypes,
           conn' = [conn EXCEPT ![i] = d],
           d.pc = "generating" => d.fresh \in Keys, d.loop \in {"none", "dead"},
           UNCHANGED <<linkVars, overlapped, unplugs>>
    PROVE  LinkTypes'
<1>1. UNCHANGED <<posted, toHost, toPhone, phone, overlapped, unplugs>>
  BY DEF linkVars
<1>2. d.loop \notin {"header", "payload", "writing"}
  OBVIOUS
<1>3. /\ conn' \in [Attempts -> ConnTypes]
      /\ \A j \in Attempts : conn'[j].pc = "generating" => conn'[j].fresh \in Keys
      /\ \A j \in Attempts : Alive(j)' => j \in Started'
      /\ Started \subseteq Started'
  BY <1>2, ConnSteps
<1>4. posted \in Seq(Started')
  <2>1. PICK S : S = Started'
    OBVIOUS
  <2>2. Started \subseteq S /\ posted \in Seq(Started)
    BY <1>3, <2>1 DEF LinkTypes
  <2>3. posted \in Seq(S)
    BY <2>2
  <2>4. QED
    BY <2>1, <2>3
<1>5. QED
  BY <1>1, <1>3, <1>4 DEF LinkTypes

Connecting(pc, keys, stored) ==
    [Unused EXCEPT !.pc = pc, !.keys = keys, !.had = ToSet(stored), !.loop = "header", !.left = HeaderSize]

\* The record of an attempt that starts.
LEMMA ConnectRecord ==
    ASSUME NEW pc \in {"connecting", "failed"}, NEW keys \in Seq(Keys), NEW stored \in Seq(Keys), NEW d,
           d = Connecting(pc, keys, stored)
    PROVE  /\ d \in ConnTypes /\ d.pc = pc /\ d.keys = keys /\ d.had = ToSet(stored) /\ d.keyIndex = 0
           /\ d.loop = "header" /\ d.left = HeaderSize /\ d.sound
<1>1. NoPacket \in PacketTypes /\ HeaderSize \in Nat /\ <<>> \in Seq(Keys)
  BY TransferAssumption DEF NoPacket, Packet, PacketTypes
<1>2. \A k : k \in ToSet(stored) => Has(stored, k)
  BY DEF ToSet, Has
<1>3. ToSet(stored) \in SUBSET Keys
  BY <1>2, Entries, Zenon
<1> DEFINE had == ToSet(stored)
<1>4. d = [pc |-> pc, keys |-> keys, had |-> had, keyIndex |-> 0, fresh |-> NoItem,
           usb |-> 0, loop |-> "header", left |-> HeaderSize, sound |-> TRUE, packet |-> NoPacket]
  BY DEF Unused, Connecting
<1>5. had \in SUBSET Keys
  BY <1>3
<1>6. QED
  <2> HIDE DEF had
  <2>1. d \in ConnTypes
    BY <1>1, <1>4, <1>5 DEF ConnTypes
  <2>2. /\ d.pc = pc /\ d.keys = keys /\ d.had = had /\ d.keyIndex = 0
        /\ d.loop = "header" /\ d.left = HeaderSize /\ d.sound
    BY <1>4
  <2>3. QED
    BY <2>1, <2>2 DEF had

\* connect() starts a loop.
LEMMA ConnectTyped ==
    ASSUME LinkTypes, NEW i \in Attempts, NEW keys \in Seq(Keys), keys # <<>>, NEW stored \in Seq(Keys),
           \A k : Has(stored, k) => Has(keys, k),
           Connect(i, keys, stored), UNCHANGED <<phone, toHost, unplugs>>
    PROVE  LinkTypes'
<1>1. PICK pc \in {"connecting", "failed"} :
         /\ conn' = [conn EXCEPT ![i] =
                [Unused EXCEPT !.pc = pc, !.keys = keys, !.had = ToSet(stored),
                               !.loop = "header", !.left = HeaderSize]]
         /\ IF pc = "failed" THEN Fault /\ UNCHANGED toPhone
            ELSE Send(i, "CNXN", NoItem, 0) /\ UNCHANGED faults
  BY DEF Connect
<1>2. PICK d : d = Connecting(pc, keys, stored)
  OBVIOUS
<1>3. d \in ConnTypes /\ d.pc = pc /\ d.keys = keys /\ d.had = ToSet(stored)
  BY <1>2, ConnectRecord
<1>4. Reads(d) /\ d.pc # "generating"
  BY <1>3 DEF Reads, ToSet, Has
<1>5. conn' = [conn EXCEPT ![i] = d]
  BY <1>1, <1>2 DEF Connecting
<1>6. /\ conn' \in [Attempts -> ConnTypes]
      /\ \A j \in Attempts : conn'[j].pc = "generating" => conn'[j].fresh \in Keys
      /\ \A j \in Attempts : Alive(j)' => j \in Started'
      /\ Started \subseteq Started' /\ i \in Started'
  BY <1>3, <1>4, <1>5, ConnSteps
<1>7. posted' \in Seq(Started')
  <2>1. PICK S : S = Started'
    OBVIOUS
  <2>2. Append(posted, i) \in Seq(S)
    BY <1>6, <2>1, PostedTypes DEF LinkTypes
  <2>3. QED
    BY <2>1, <2>2 DEF Connect
<1>8. toPhone' \in Seq(RequestTypes)
  <2>1. CASE UNCHANGED toPhone
    BY <2>1 DEF LinkTypes
  <2>2. CASE Send(i, "CNXN", NoItem, 0)
    BY <2>2, SendTypes
  <2>3. QED
    BY <1>1, <2>1, <2>2
<1>9. overlapped' \in BOOLEAN
  BY Zenon DEF Connect
<1>10. QED
  BY <1>6, <1>7, <1>8, <1>9 DEF LinkTypes

\* The loop whose transferIn() is answered goes on or ends.
LEMMA LoopTyped ==
    ASSUME LinkTypes, posted # <<>>, NEW i, i = Head(posted), NEW d \in ConnTypes,
           conn' = [conn EXCEPT ![i] = d], d.keys = conn[i].keys, d.had = conn[i].had,
           conn[i].pc \notin {"unused", "generating"} => d.pc \notin {"unused", "generating"},
           posted' = Tail(posted) \/ posted' = Append(Tail(posted), i),
           toHost' \in Seq(TransferTypes), toPhone' \in Seq(RequestTypes),
           UNCHANGED <<phone, overlapped, unplugs>>
    PROVE  LinkTypes'
<1>1. i \in Started /\ i \in Attempts
  <2>1. PICK S : S = Started
    OBVIOUS
  <2>2. posted \in Seq(S) /\ Head(posted) \in S
    <3>1. posted \in Seq(S)
      BY <2>1 DEF LinkTypes
    <3>2. QED
      BY <3>1
  <2>3. QED
    BY <2>1, <2>2 DEF Started
<1>2. Reads(d) /\ d.pc # "generating"
  BY <1>1 DEF Started, Reads
<1>3. /\ conn' \in [Attempts -> ConnTypes]
      /\ \A j \in Attempts : conn'[j].pc = "generating" => conn'[j].fresh \in Keys
      /\ \A j \in Attempts : Alive(j)' => j \in Started'
      /\ Started \subseteq Started' /\ i \in Started'
  BY <1>1, <1>2, ConnSteps
<1>4. posted' \in Seq(Started')
  <2>1. PICK S : S = Started'
    OBVIOUS
  <2>2. Tail(posted) \in Seq(S) /\ Append(Tail(posted), i) \in Seq(S)
    BY <1>3, <2>1, PostedTypes DEF LinkTypes
  <2>3. QED
    BY <2>1, <2>2
<1>5. QED
  BY <1>3, <1>4 DEF LinkTypes

\* A packet that is handled, sound or not.
LEMMA HandleTyped ==
    ASSUME LinkTypes, posted # <<>>, NEW i, i = Head(posted), conn[i] \in ConnTypes, conn[i].keys # <<>>,
           i \in Attempts, NEW p \in PacketTypes, NEW sound \in BOOLEAN, Handle(i, p, sound),
           toHost' \in Seq(TransferTypes), UNCHANGED <<phone, overlapped, unplugs>>
    PROVE  LinkTypes'
<1>1. PICK c : c = conn[i]
  OBVIOUS
<1>2. c \in ConnTypes /\ HeaderSize \in Nat /\ toPhone \in Seq(RequestTypes)
  BY <1>1, TransferAssumption DEF LinkTypes
<1>3. CASE HandleConnect(i)
  <2>1. PICK e : e = ReadOn(c, "header", HeaderSize)
    OBVIOUS
  <2>2. e \in ConnTypes /\ e.pc = c.pc /\ e.keys = c.keys /\ e.had = c.had
    BY <1>2, <2>1 DEF ReadOn, ConnTypes
  <2>3. PICK d : d = Connected(e)
    OBVIOUS
  <2>4. /\ d \in ConnTypes /\ d.keys = c.keys /\ d.had = c.had
        /\ c.pc \notin {"unused", "generating"} => d.pc \notin {"unused", "generating"}
    BY <2>2, <2>3 DEF Connected, ConnTypes
  <2>5. conn' = [conn EXCEPT ![i] = d] /\ posted' = Append(Tail(posted), i) /\ toPhone' = toPhone
    BY <1>1, <1>3, <2>1, <2>3, Zenon DEF HandleConnect
  <2>6. QED
    BY <1>1, <1>2, <2>4, <2>5, LoopTyped
<1>4. CASE \E token \in Nat : HandleAuth(i, token)
  <2>1. PICK token \in Nat : HandleAuth(i, token)
    BY <1>4
  <2>2. PICK keys, index : keys = c.keys /\ index = c.keyIndex
    OBVIOUS
  <2>3. keys \in Seq(Keys) /\ keys # <<>> /\ index \in Nat /\ Len(keys) \in Nat
    BY <1>1, <1>2, <2>2 DEF ConnTypes
  <2>4. PICK n \in Nat : n = index + 1
    BY <2>3
  <2>5. PICK d : d = [c EXCEPT !.keyIndex = n, !.loop = "writing"]
    OBVIOUS
  <2>6. d \in ConnTypes /\ d.keys = c.keys /\ d.had = c.had /\ d.pc = c.pc
    BY <1>2, <2>5 DEF ConnTypes
  <2>7. conn' = [conn EXCEPT ![i] = d] /\ posted' = Tail(posted)
    BY <1>1, <1>2, <2>1, <2>2, <2>4, <2>5 DEF HandleAuth, NextIndex, LinkTypes, ConnTypes
  <2>8. toPhone' \in Seq(RequestTypes)
    <3>1. CASE index < Len(keys)
      <4>1. n \in 1..Len(keys)
        BY <2>3, <2>4, <3>1
      <4>2. PICK key : key = keys[n]
        OBVIOUS
      <4>3. key \in Keys
        BY <2>3, <4>1, <4>2, ElementOfSeq, Zenon
      <4>4. Send(i, "SIGNATURE", key, token)
        BY <1>1, <2>1, <2>2, <2>4, <3>1, <4>2 DEF HandleAuth
      <4>5. QED
        BY <4>3, <4>4, SendTypes
    <3>2. CASE ~(index < Len(keys))
      <4>1. PICK key : key = Last(keys)
        OBVIOUS
      <4>2. key \in Keys
        BY <2>3, <4>1, Entries
      <4>3. Send(i, "RSAPUBLICKEY", key, 0)
        BY <1>1, <2>1, <2>2, <3>2, <4>1 DEF HandleAuth
      <4>4. QED
        BY <4>2, <4>3, SendTypes
    <3>3. QED
      BY <3>1, <3>2
  <2>9. QED
    BY <1>1, <2>6, <2>7, <2>8, LoopTyped
<1>5. CASE Dies(i)
  <2>1. PICK d : d = Failed(c)
    OBVIOUS
  <2>2. /\ d \in ConnTypes /\ d.keys = c.keys /\ d.had = c.had
        /\ c.pc \notin {"unused", "generating"} => d.pc \notin {"unused", "generating"}
    BY <1>2, <2>1, FailedIs
  <2>3. conn' = [conn EXCEPT ![i] = d] /\ posted' = Tail(posted) /\ toPhone' = toPhone
    BY <1>1, <1>5, <2>1 DEF Dies
  <2>4. QED
    BY <1>1, <1>2, <2>2, <2>3, LoopTyped
<1>6. p.token \in Nat
  BY DEF PacketTypes
<1>7. PICK token : token = IF sound THEN p.token ELSE 0
  OBVIOUS
<1>8. token \in Nat
  BY <1>6, <1>7
<1>9. HandleConnect(i) \/ HandleAuth(i, token) \/ Dies(i)
  BY <1>7, Zenon DEF Handle
<1>10. QED
  BY <1>3, <1>4, <1>5, <1>8, <1>9

\* A transfer of adbd, for whichever loop it is.
LEMMA ReceiveTyped == ASSUME LinkTypes, Receive PROVE LinkTypes'
<1>1. posted # <<>> /\ toHost # <<>> /\ toHost' = Tail(toHost) /\ UNCHANGED <<phone, overlapped, unplugs>>
  BY DEF Receive
<1>2. PICK i : i = Head(posted)
  OBVIOUS
<1>3. i \in Attempts /\ Reads(conn[i])
  <2>1. PICK S : S = Started
    OBVIOUS
  <2>2. posted \in Seq(S)
    BY <2>1 DEF LinkTypes
  <2>3. Head(posted) \in S
    BY <1>1, <2>2
  <2>4. QED
    BY <1>2, <2>1, <2>3 DEF Started
<1>4. PICK x : x = Head(toHost)
  OBVIOUS
<1>5. x \in TransferTypes /\ toHost' \in Seq(TransferTypes)
  <2>1. toHost \in Seq(TransferTypes)
    BY DEF LinkTypes
  <2>2. QED
    BY <1>1, <1>4, <2>1
<1>6. PICK c : c = conn[i]
  OBVIOUS
<1>7. c \in ConnTypes /\ c.keys # <<>> /\ toPhone \in Seq(RequestTypes)
  BY <1>3, <1>6 DEF LinkTypes, Reads
<1>8. PICK sound : sound = (c.sound /\ x.part = c.loop /\ (c.loop = "payload" => x.of = c.packet))
  OBVIOUS
<1>9. sound \in BOOLEAN
  BY <1>8
<1>10. x.size \in Nat /\ x.of \in PacketTypes /\ x.of.size \in Nat /\ c.left \in Nat /\ c.packet \in PacketTypes
  BY <1>5, <1>7 DEF TransferTypes, PacketTypes, ConnTypes
<1> DEFINE More == /\ conn' = [conn EXCEPT ![i].left = @ - x.size, ![i].sound = sound]
                   /\ posted' = Append(Tail(posted), i) /\ UNCHANGED toPhone
           Body == /\ conn' = [conn EXCEPT ![i] =
                                 [ReadOn(@, "payload", x.of.size) EXCEPT !.packet = x.of]]
                   /\ posted' = Append(Tail(posted), i) /\ UNCHANGED toPhone
<1>11. IF x.size < c.left THEN More
       ELSE IF x.size > c.left \/ (c.loop = "header" /\ ~sound) THEN Dies(i)
       ELSE IF c.loop = "header" /\ x.of.size > 0 THEN Body
       ELSE Handle(i, IF c.loop = "header" THEN x.of ELSE c.packet, sound)
  BY <1>2, <1>4, <1>6, <1>8, Zenon DEF Receive
<1>12. (More /\ x.size < c.left) \/ Dies(i) \/ Body \/ Handle(i, x.of, sound) \/ Handle(i, c.packet, sound)
  <2> HIDE DEF More, Body
  <2>1. QED
    BY <1>11, Zenon
<1>13. CASE More /\ x.size < c.left
  <2>1. PICK n \in Nat : n = c.left - x.size
    BY <1>10, <1>13
  <2>2. PICK d : d = [c EXCEPT !.left = n, !.sound = sound]
    OBVIOUS
  <2>3. d \in ConnTypes /\ d.keys = c.keys /\ d.had = c.had /\ d.pc = c.pc
    BY <1>7, <1>9, <2>2 DEF ConnTypes
  <2>4. conn' = [conn EXCEPT ![i] = d]
    BY <1>3, <1>6, <1>7, <1>13, <2>1, <2>2 DEF LinkTypes, ConnTypes
  <2>5. QED
    BY <1>1, <1>2, <1>5, <1>6, <1>7, <1>13, <2>3, <2>4, LoopTyped
<1>14. CASE Body
  <2>1. PICK e : e = ReadOn(c, "payload", x.of.size)
    OBVIOUS
  <2>2. e \in ConnTypes /\ e.pc = c.pc /\ e.keys = c.keys /\ e.had = c.had
    BY <1>7, <1>10, <2>1 DEF ReadOn, ConnTypes
  <2>3. PICK d : d = [e EXCEPT !.packet = x.of]
    OBVIOUS
  <2>4. d \in ConnTypes /\ d.keys = c.keys /\ d.had = c.had /\ d.pc = c.pc
    BY <1>10, <2>2, <2>3 DEF ConnTypes
  <2>5. conn' = [conn EXCEPT ![i] = d]
    BY <1>6, <1>14, <2>1, <2>3, Zenon
  <2>6. QED
    BY <1>1, <1>2, <1>5, <1>6, <1>7, <1>14, <2>4, <2>5, LoopTyped
<1> HIDE DEF More, Body
<1>15. CASE Dies(i)
  <2>1. PICK d : d = Failed(c)
    OBVIOUS
  <2>2. /\ d \in ConnTypes /\ d.keys = c.keys /\ d.had = c.had
        /\ c.pc \notin {"unused", "generating"} => d.pc \notin {"unused", "generating"}
    BY <1>7, <2>1, FailedIs
  <2>3. conn' = [conn EXCEPT ![i] = d] /\ posted' = Tail(posted) /\ toPhone' = toPhone
    BY <1>6, <1>15, <2>1 DEF Dies
  <2>4. QED
    BY <1>1, <1>2, <1>5, <1>6, <1>7, <2>2, <2>3, LoopTyped
<1>16. ASSUME NEW p \in PacketTypes, Handle(i, p, sound) PROVE LinkTypes'
  BY <1>1, <1>2, <1>3, <1>5, <1>6, <1>7, <1>9, <1>16, HandleTyped
<1>17. QED
  BY <1>10, <1>12, <1>13, <1>14, <1>15, <1>16

\* adbd takes a packet and may answer it.
LEMMA PhoneTakesTyped == ASSUME LinkTypes, PhoneTakes PROVE LinkTypes'
<1>1. toPhone # <<>> /\ toPhone' = Tail(toPhone) /\ UNCHANGED <<conn, posted, overlapped, unplugs>>
  BY DEF PhoneTakes
<1>2. PICK x : x = Head(toPhone)
  OBVIOUS
<1>3. x \in RequestTypes /\ toPhone' \in Seq(RequestTypes)
  <2>1. toPhone \in Seq(RequestTypes)
    BY DEF LinkTypes
  <2>2. QED
    BY <1>1, <1>2, <2>1
<1>4. phone \in PhoneTypes /\ toHost \in Seq(TransferTypes) /\ phone.token + 1 \in Nat
  BY DEF LinkTypes, PhoneTypes
<1>5. CASE AskAuth
  <2>1. PICK n \in Nat : n = phone.token + 1
    BY <1>4
  <2>2. PICK p : p = Auth(n)
    OBVIOUS
  <2>3. p \in PacketTypes
    BY <2>2, ThePackets
  <2>4. phone' \in PhoneTypes
    BY <1>4, <1>5 DEF AskAuth, PhoneTypes
  <2>5. toHost' = toHost \o Transfers(p)
    BY <1>5, <2>1, <2>2 DEF AskAuth, Answer
  <2>6. QED
    BY <1>1, <1>3, <1>4, <2>3, <2>4, <2>5, TransfersTypes, PhoneTyped
<1>6. Banner \in PacketTypes /\ Odd \in PacketTypes
  BY <1>4, ThePackets
<1>7. CASE GoOnline
  <2>1. phone' \in PhoneTypes /\ toHost' = toHost \o Transfers(Banner)
    BY <1>4, <1>7 DEF GoOnline, Answer, PhoneTypes
  <2>2. QED
    BY <1>1, <1>3, <1>4, <1>6, <2>1, TransfersTypes, PhoneTyped
<1>8. CASE Answer(Odd) /\ UNCHANGED phone
  <2>1. phone' \in PhoneTypes /\ toHost' = toHost \o Transfers(Odd)
    BY <1>4, <1>8 DEF Answer
  <2>2. QED
    BY <1>1, <1>3, <1>4, <1>6, <2>1, TransfersTypes, PhoneTyped
<1>9. CASE toHost' = toHost /\ phone' = [phone EXCEPT !.prompt = x.key, !.denied = FALSE]
  <2>1. x.key \in Keys \cup {NoItem}
    BY <1>3 DEF RequestTypes
  <2>2. phone' \in PhoneTypes
    BY <1>4, <1>9, <2>1 DEF PhoneTypes
  <2>3. QED
    BY <1>1, <1>3, <1>4, <1>9, <2>2, PhoneTyped
<1>10. QED
  BY <1>2, <1>5, <1>7, <1>8, <1>9 DEF PhoneTakes

\* The user decides.
LEMMA UserTyped == ASSUME LinkTypes, UserAccepts \/ UserDenies PROVE LinkTypes'
<1>1. /\ UNCHANGED <<conn, posted, toPhone, overlapped, unplugs>> /\ phone.prompt # NoItem
      /\ phone \in PhoneTypes /\ toHost \in Seq(TransferTypes) /\ toPhone' \in Seq(RequestTypes)
  BY DEF UserAccepts, UserDenies, LinkTypes
<1>2. CASE UserAccepts
  <2>1. PICK always \in BOOLEAN :
          phone' = [phone EXCEPT !.online = TRUE, !.prompt = NoItem,
                       !.known = IF always THEN @ \cup {phone.prompt} ELSE @]
    BY <1>2 DEF UserAccepts
  <2>2. PICK known \in SUBSET Keys : known = IF always THEN phone.known \cup {phone.prompt} ELSE phone.known
    BY <1>1 DEF PhoneTypes
  <2>3. phone' = [phone EXCEPT !.online = TRUE, !.prompt = NoItem, !.known = known]
    BY <1>1, <2>1, <2>2 DEF PhoneTypes
  <2>4. phone' \in PhoneTypes
    BY <1>1, <2>3 DEF PhoneTypes
  <2>5. Banner \in PacketTypes
    BY TransferAssumption DEF Banner, Packet, PacketTypes
  <2>6. toHost' \in Seq(TransferTypes)
    BY <1>1, <1>2, <2>5, TransfersTypes DEF UserAccepts, Answer
  <2>7. QED
    BY <1>1, <2>4, <2>6, PhoneTyped
<1>3. CASE UserDenies
  <2>1. phone' \in PhoneTypes /\ toHost' = toHost
    BY <1>1, <1>3 DEF UserDenies, PhoneTypes
  <2>2. QED
    BY <1>1, <2>1, PhoneTyped
<1>4. QED
  BY <1>2, <1>3

\* The cable is pulled.
LEMMA UnplugTyped == ASSUME LinkTypes, Unplug PROVE LinkTypes'
<1>1. /\ conn' = [i \in Attempts |-> IF Alive(i) THEN Failed(conn[i]) ELSE conn[i]]
      /\ posted' = <<>> /\ toHost' = <<>> /\ toPhone' = <<>> /\ unplugs' = unplugs + 1
      /\ phone' = [phone EXCEPT !.online = FALSE, !.prompt = NoItem, !.denied = FALSE]
      /\ overlapped' = overlapped
  BY DEF Unplug
<1>2. \A i \in Attempts : conn[i] \in ConnTypes
  BY DEF LinkTypes
<1>3. ASSUME NEW i \in Attempts
      PROVE  /\ conn'[i] \in ConnTypes /\ ~Alive(i)'
             /\ conn'[i].pc = "generating" => conn'[i].fresh \in Keys
  <2>1. CASE Alive(i)
    <3>1. PICK d : d = Failed(conn[i])
      OBVIOUS
    <3>2. conn[i].pc \notin {"unused", "generating"}
      BY <2>1 DEF LinkTypes, Started, Reads
    <3>3. d \in ConnTypes /\ d.loop = "dead" /\ d.pc \notin {"unused", "generating"}
      BY <1>2, <3>1, <3>2, FailedIs
    <3>4. conn'[i] = d
      BY <1>1, <2>1, <3>1
    <3>5. QED
      BY <3>3, <3>4 DEF Alive
  <2>2. CASE ~Alive(i)
    <3>1. conn'[i] = conn[i]
      BY <1>1, <2>2
    <3>2. QED
      BY <1>2, <2>2, <3>1 DEF LinkTypes, Alive
  <2>3. QED
    BY <2>1, <2>2
<1>4. conn' \in [Attempts -> ConnTypes]
  BY <1>1, <1>3
<1>5. phone' \in PhoneTypes
  BY <1>1 DEF LinkTypes, PhoneTypes
<1>6. unplugs' \in Nat /\ overlapped' \in BOOLEAN
  BY <1>1 DEF LinkTypes
<1>7. posted' \in Seq(Started') /\ toHost' \in Seq(TransferTypes) /\ toPhone' \in Seq(RequestTypes)
  <2>1. \A S : <<>> \in Seq(S)
    OBVIOUS
  <2>2. QED
    BY <1>1, <2>1, Zenon
<1>8. QED
  BY <1>3, <1>4, <1>5, <1>6, <1>7 DEF LinkTypes

-----------------------------------------------------------------------------
(* Loop and adbd take turns                                                *)

\* The first n keys are none that the phone knows.
Tried(i, n) == \A m \in 1..Len(conn[i].keys) : m <= n => conn[i].keys[m] \notin phone.known

\* Where the loop of attempt i is between two packets.
AtHeader(i) ==
    \/ conn[i].loop = "header" /\ posted = <<i>> /\ conn[i].left = HeaderSize /\ conn[i].sound
    \/ conn[i].loop = "writing" /\ posted = <<>>

\* A packet for adbd: the first, a signature by the last key tried, or the key
\* itself once all have been.
Asks(i) ==
    /\ AtHeader(i) /\ toHost = <<>> /\ phone.prompt = NoItem
    /\ \E x \in RequestTypes :
          /\ toPhone = <<x>> /\ x.from = i
          /\ x.cmd = "CNXN" => conn[i].keyIndex = 0
          /\ x.cmd = "SIGNATURE" =>
                /\ conn[i].keyIndex \in 1..Len(conn[i].keys)
                /\ x.key = conn[i].keys[conn[i].keyIndex] /\ x.token = phone.token
                /\ Tried(i, conn[i].keyIndex - 1)
          /\ x.cmd = "RSAPUBLICKEY" => x.key \in Keys

\* The answer, of which the header may have been read.
Answered(i) ==
    /\ toPhone = <<>> /\ phone.prompt = NoItem
    /\ \E p \in {Auth(phone.token), Banner, Odd} :
          /\ p = Auth(phone.token) => Tried(i, conn[i].keyIndex)
          /\ \/ AtHeader(i) /\ toHost = Transfers(p)
             \/ /\ p.size > 0 /\ toHost = <<[part |-> "payload", size |-> p.size, of |-> p]>>
                /\ conn[i].loop = "payload" /\ posted = <<i>>
                /\ conn[i].packet = p /\ conn[i].left = p.size /\ conn[i].sound

\* The phone is online, or waits for its user, or has not been asked.
Waits(i) == AtHeader(i) /\ toHost = <<>> /\ toPhone = <<>>

Alone(i) == Alive(i) /\ \A j \in Attempts \ {i} : ~Alive(j)

Deserted ==
    /\ \A i \in Attempts : ~Alive(i)
    /\ posted = <<>> /\ toHost = <<>> /\ toPhone = <<>> /\ phone.prompt = NoItem

\* As long as no two loops have shared the endpoint, one loop and adbd take turns.
Calm ==
    Deserted \/ \E i \in Attempts : Alone(i) /\ (Asks(i) \/ Answered(i) \/ Waits(i))

TurnInv == ~overlapped => Calm

\* What a step of the link must do: the turns go on unless two loops have met,
\* and the user is asked about keys that the phone does not know.
Prompts == \A i \in Attempts : Offers(i) => conn[i].had \cap phone.known = {}
TurnStep == (~overlapped' => Calm') /\ Prompts

\* The loop that is alone takes a step, after which it is alone or gone.
LEMMA LoopSteps ==
    ASSUME LinkTypes, NEW i \in Attempts, Alone(i), NEW d \in ConnTypes, conn' = [conn EXCEPT ![i] = d]
    PROVE  /\ conn'[i] = d
           /\ d.loop \in {"header", "payload", "writing"} => Alone(i)'
           /\ d.loop = "dead" => \A j \in Attempts : ~Alive(j)'
<1>1. /\ conn'[i] = d
      /\ \A j \in Attempts \ {i} : conn'[j] = conn[j] /\ Alive(j)' = Alive(j)
  BY OneChanges DEF LinkTypes
<1>2. Alive(i)' <=> d.loop \in {"header", "payload", "writing"}
  BY <1>1 DEF Alive
<1>3. QED
  BY <1>1, <1>2 DEF Alone

\* Nothing is offered when nothing is sent.
LEMMA NothingSent == ASSUME toPhone' = toPhone \/ toPhone' = <<>> PROVE Prompts
  BY DEF Prompts, Offers

\* Calm in words of the attempt whose turn it is.
LEMMA TurnKept ==
    ASSUME Prompts,
           \/ Deserted'
           \/ \E i \in Attempts : Alone(i)' /\ (Asks(i)' \/ Answered(i)' \/ Waits(i)')
    PROVE  TurnStep
  BY DEF TurnStep, Calm

\* Nothing of the link changes.
LEMMA LinkStays == ASSUME Calm, UNCHANGED <<conn, linkVars>> PROVE TurnStep
<1>1. UNCHANGED <<conn, posted, toHost, toPhone, phone>>
  BY DEF linkVars
<1>2. Deserted' = Deserted
  BY <1>1 DEF Alive, Deserted
<1>3. ASSUME NEW i \in Attempts
      PROVE  /\ Alone(i) => Alone(i)'
             /\ Asks(i) => Asks(i)'
             /\ Answered(i) => Answered(i)'
             /\ Waits(i) => Waits(i)'
  BY <1>1 DEF Alone, Alive, Asks, Answered, Waits, AtHeader, Tried
<1>4. QED
  BY <1>1, <1>2, <1>3, NothingSent, TurnKept DEF Calm

\* The loop reads on when its write has been taken.
LEMMA WrittenKeeps == ASSUME LinkTypes, Calm, NEW i \in Attempts, Written(i) PROVE TurnStep
<1>1. Alive(i) /\ ~Deserted
  BY DEF Written, Alive, Deserted
<1>2. Alone(i) /\ (Asks(i) \/ Answered(i) \/ Waits(i))
  BY <1>1 DEF Calm, Alone
<1>3. conn[i] \in ConnTypes /\ HeaderSize \in Nat
  BY TransferAssumption DEF LinkTypes
<1>4. PICK d : d = ReadOn(conn[i], "header", HeaderSize)
  OBVIOUS
<1>5. /\ d \in ConnTypes /\ d.loop = "header" /\ d.left = HeaderSize /\ d.sound /\ d.pc = conn[i].pc
       /\ d.keys = conn[i].keys /\ d.had = conn[i].had /\ d.keyIndex = conn[i].keyIndex
  BY <1>3, <1>4, ReadOnIs
<1>6. conn' = [conn EXCEPT ![i] = d]
  BY <1>4 DEF Written
<1>7. conn'[i] = d /\ Alone(i)'
  BY <1>2, <1>5, <1>6, LoopSteps
<1>8. UNCHANGED <<toHost, toPhone, phone>> /\ posted' = Append(posted, i)
  BY DEF Written
<1>9. conn[i].loop = "writing"
  BY DEF Written
<1>10. AtHeader(i)'
  <2>1. posted = <<>>
    BY <1>2, <1>9 DEF Asks, Answered, Waits, AtHeader
  <2>2. posted' = <<i>>
    BY <1>8, <2>1
  <2>3. QED
    BY <1>5, <1>7, <2>2 DEF AtHeader
<1>11. \A n : Tried(i, n) => Tried(i, n)'
  BY <1>5, <1>7, <1>8 DEF Tried
<1>12. CASE Asks(i)
  <2>1. PICK x \in RequestTypes :
          /\ toPhone = <<x>> /\ x.from = i
          /\ x.cmd = "CNXN" => conn[i].keyIndex = 0
          /\ x.cmd = "SIGNATURE" =>
                /\ conn[i].keyIndex \in 1..Len(conn[i].keys)
                /\ x.key = conn[i].keys[conn[i].keyIndex] /\ x.token = phone.token
                /\ Tried(i, conn[i].keyIndex - 1)
          /\ x.cmd = "RSAPUBLICKEY" => x.key \in Keys
    BY <1>12 DEF Asks
  <2>2. Asks(i)'
    BY <1>5, <1>7, <1>8, <1>10, <1>11, <1>12, <2>1 DEF Asks
  <2>3. QED
    BY <1>7, <1>8, <2>2, NothingSent, TurnKept
<1>13. CASE Answered(i)
  <2>1. PICK p \in {Auth(phone.token), Banner, Odd} :
          /\ p = Auth(phone.token) => Tried(i, conn[i].keyIndex)
          /\ \/ AtHeader(i) /\ toHost = Transfers(p)
             \/ /\ p.size > 0 /\ toHost = <<[part |-> "payload", size |-> p.size, of |-> p]>>
                /\ conn[i].loop = "payload" /\ posted = <<i>>
                /\ conn[i].packet = p /\ conn[i].left = p.size /\ conn[i].sound
    BY <1>13 DEF Answered
  <2>2. toHost' = Transfers(p)
    BY <1>8, <1>9, <2>1
  <2>3. p = Auth(phone'.token) => Tried(i, conn[i].keyIndex)'
    BY <1>5, <1>7, <1>8, <2>1 DEF Tried
  <2>4. p \in {Auth(phone'.token), Banner, Odd} /\ toPhone' = <<>> /\ phone'.prompt = NoItem
    BY <1>8, <1>13, <2>1 DEF Answered
  <2>6. conn'[i].keyIndex = conn[i].keyIndex
    BY <1>5, <1>7
  <2>7. Answered(i)'
    BY <1>10, <2>2, <2>3, <2>4, <2>6 DEF Answered, Tried
  <2>5. QED
    BY <1>7, <1>8, <2>7, NothingSent, TurnKept
<1>14. CASE Waits(i)
  <2>1. Waits(i)'
    BY <1>8, <1>10, <1>14 DEF Waits
  <2>2. QED
    BY <1>7, <1>8, <2>1, NothingSent, TurnKept
<1>15. QED
  BY <1>2, <1>12, <1>13, <1>14

\* An attempt that has no loop, and gets none, changes nothing for the others.
LEMMA IdleKeeps ==
    ASSUME LinkTypes, Calm, NEW i \in Attempts, ~Alive(i), NEW d \in ConnTypes, conn' = [conn EXCEPT ![i] = d],
           d.loop \in {"none", "dead"}, UNCHANGED linkVars
    PROVE  TurnStep
<1>1. UNCHANGED <<posted, toHost, toPhone, phone>>
  BY DEF linkVars
<1>2. conn'[i] = d /\ \A j \in Attempts \ {i} : conn'[j] = conn[j] /\ Alive(j)' = Alive(j)
  BY OneChanges DEF LinkTypes
<1>3. ~Alive(i)'
  BY <1>2 DEF Alive
<1>5. Deserted => Deserted'
  BY <1>1, <1>2, <1>3 DEF Deserted
<1>6. ASSUME NEW j \in Attempts, Alone(j) PROVE Alone(j)' /\ conn'[j] = conn[j]
  BY <1>2, <1>3, <1>6 DEF Alone
<1>7. ASSUME NEW j \in Attempts, conn'[j] = conn[j]
      PROVE  /\ Asks(j) => Asks(j)'
             /\ Answered(j) => Answered(j)'
             /\ Waits(j) => Waits(j)'
  BY <1>1, <1>7 DEF Asks, Answered, Waits, AtHeader, Tried
<1>8. QED
  BY <1>1, <1>5, <1>6, <1>7, NothingSent, TurnKept DEF Calm

\* connect() starts a loop, which is alone unless another one is there.
LEMMA ConnectKeeps ==
    ASSUME LinkTypes, Calm, NEW i \in Attempts, ~Alive(i), NEW keys \in Seq(Keys), NEW stored \in Seq(Keys),
           Connect(i, keys, stored), UNCHANGED <<phone, toHost>>
    PROVE  TurnStep
<1>1. PICK pc \in {"connecting", "failed"} :
         /\ conn' = [conn EXCEPT ![i] =
                [Unused EXCEPT !.pc = pc, !.keys = keys, !.had = ToSet(stored),
                               !.loop = "header", !.left = HeaderSize]]
         /\ IF pc = "failed" THEN Fault /\ UNCHANGED toPhone
            ELSE Send(i, "CNXN", NoItem, 0) /\ UNCHANGED faults
  BY DEF Connect
<1>2. PICK d : d = Connecting(pc, keys, stored)
  OBVIOUS
<1>6. /\ d \in ConnTypes /\ d.keyIndex = 0 /\ d.loop = "header" /\ d.left = HeaderSize /\ d.sound
  BY <1>2, ConnectRecord
<1>7. conn' = [conn EXCEPT ![i] = d]
  BY <1>1, <1>2 DEF Connecting
<1>8. conn'[i] = d /\ \A j \in Attempts \ {i} : conn'[j] = conn[j] /\ Alive(j)' = Alive(j)
  BY <1>6, <1>7, OneChanges DEF LinkTypes
<1>9. Alive(i)'
  BY <1>6, <1>8 DEF Alive
<1>11. PICK x : x = [from |-> i, cmd |-> "CNXN", key |-> NoItem, token |-> 0]
  OBVIOUS
<1>12. toPhone' = toPhone \/ toPhone' = Append(toPhone, x)
  BY <1>1, <1>11 DEF Send
<1>13. Prompts
  <2>1. CASE toPhone' = toPhone
    BY <2>1, NothingSent
  <2>2. CASE toPhone' = Append(toPhone, x)
    <3>1. Last(toPhone').cmd = "CNXN"
      <4>1. toPhone = <<>> \/ \E y : toPhone = <<y>>
        BY DEF Calm, Deserted, Asks, Answered, Waits
      <4>2. ASSUME NEW y, toPhone = <<y>> PROVE Last(toPhone') = x
        BY <2>2, <4>2 DEF Last
      <4>3. ASSUME toPhone = <<>> PROVE Last(toPhone') = x
        BY <2>2, <4>3 DEF Last
      <4>4. QED
        BY <1>11, <4>1, <4>2, <4>3
    <3>2. QED
      BY <3>1 DEF Prompts, Offers
  <2>3. QED
    BY <1>12, <2>1, <2>2
<1>14. ASSUME ~overlapped' PROVE Alone(i)' /\ (Asks(i)' \/ Waits(i)')
  <2>1. \A j \in Attempts \ {i} : ~Alive(j)
    BY <1>14 DEF Connect
  <2>2. Alone(i)'
    BY <1>8, <1>9, <2>1 DEF Alone
  <2>3. Deserted
    BY <1>9, <2>1 DEF Calm, Alone
  <2>4. posted' = <<i>> /\ toHost' = <<>> /\ phone'.prompt = NoItem
    BY <2>3 DEF Deserted, Connect
  <2>5. AtHeader(i)'
    BY <1>6, <1>8, <2>4 DEF AtHeader
  <2>6. CASE toPhone' = toPhone
    BY <2>2, <2>3, <2>4, <2>5, <2>6 DEF Waits, Deserted
  <2>7. CASE toPhone' = Append(toPhone, x)
    <3>1. toPhone' = <<x>>
      BY <2>3, <2>7 DEF Deserted
    <3>2. x \in RequestTypes /\ x.from = i /\ x.cmd = "CNXN"
      BY <1>11 DEF RequestTypes
    <3>3. Asks(i)'
      BY <1>6, <1>8, <2>4, <2>5, <3>1, <3>2 DEF Asks
    <3>4. QED
      BY <2>2, <3>3
  <2>8. QED
    BY <1>12, <2>6, <2>7
<1>15. QED
  BY <1>13, <1>14 DEF TurnStep, Calm

\* Turns alone: the phone has answered, or it could not be read.
LEMMA ReceivesAnswer ==
    ASSUME LinkTypes, Calm, posted # <<>>, toHost # <<>>
    PROVE  \E i \in Attempts : Alone(i) /\ Answered(i)
<1>1. ~Deserted
  BY DEF Deserted
<1>2. PICK i \in Attempts : Alone(i) /\ (Asks(i) \/ Answered(i) \/ Waits(i))
  BY <1>1 DEF Calm
<1>3. QED
  BY <1>2 DEF Asks, Waits

\* What a transfer that fits does to the loop.
LEMMA ReceiveIs ==
    ASSUME Receive, NEW i \in Attempts, posted = <<i>>, NEW x, Head(toHost) = x,
           NEW c, c = conn[i], x.size = c.left, c.left \in Nat, c.sound,
           x.part = c.loop, c.loop = "payload" => x.of = c.packet
    PROVE  /\ toHost' = Tail(toHost) /\ UNCHANGED phone
           /\ c.loop = "header" /\ x.of.size > 0 =>
                /\ conn' = [conn EXCEPT ![i] = [ReadOn(c, "payload", x.of.size) EXCEPT !.packet = x.of]]
                /\ posted' = <<i>> /\ UNCHANGED toPhone
           /\ c.loop = "header" /\ ~(x.of.size > 0) => Handle(i, x.of, TRUE)
           /\ c.loop # "header" => Handle(i, c.packet, TRUE)
<1>1. Head(posted) = i /\ Append(Tail(posted), i) = <<i>>
  BY Head(<<i>>) = i, Tail(<<i>>) = <<>>, Append(<<>>, i) = <<i>>
<1>2. ~(x.size > c.left) /\ ~(x.size < c.left)
  OBVIOUS
<1>3. toHost' = Tail(toHost) /\ UNCHANGED phone
  BY DEF Receive
<1>4. PICK sound : sound = (c.sound /\ x.part = c.loop /\ (c.loop = "payload" => x.of = c.packet))
  OBVIOUS
<1>5. sound = TRUE
  BY <1>4
<1> DEFINE More == /\ conn' = [conn EXCEPT ![i].left = @ - x.size, ![i].sound = sound]
                   /\ posted' = Append(Tail(posted), i) /\ UNCHANGED toPhone
           Body == /\ conn' = [conn EXCEPT ![i] =
                                 [ReadOn(@, "payload", x.of.size) EXCEPT !.packet = x.of]]
                   /\ posted' = Append(Tail(posted), i) /\ UNCHANGED toPhone
<1>6. IF x.size < c.left THEN More
      ELSE IF x.size > c.left \/ (c.loop = "header" /\ ~sound) THEN Dies(i)
      ELSE IF c.loop = "header" /\ x.of.size > 0 THEN Body
      ELSE Handle(i, IF c.loop = "header" THEN x.of ELSE c.packet, sound)
  BY <1>1, <1>4, Zenon DEF Receive
<1> HIDE DEF More, Body
<1>7. IF c.loop = "header" /\ x.of.size > 0 THEN Body
      ELSE Handle(i, IF c.loop = "header" THEN x.of ELSE c.packet, TRUE)
  BY <1>2, <1>5, <1>6
<1>8. CASE c.loop = "header" /\ x.of.size > 0
  <2>1. /\ conn' = [conn EXCEPT ![i] = [ReadOn(c, "payload", x.of.size) EXCEPT !.packet = x.of]]
        /\ posted' = <<i>> /\ UNCHANGED toPhone
    BY <1>1, <1>7, <1>8, Zenon DEF Body
  <2>2. QED
    BY <1>3, <1>8, <2>1, Zenon
<1>9. CASE ~(c.loop = "header" /\ x.of.size > 0)
  <2>1. Handle(i, IF c.loop = "header" THEN x.of ELSE c.packet, TRUE)
    BY <1>7, <1>9, Zenon
  <2>2. QED
    BY <1>3, <1>9, <2>1, Zenon
<1>10. QED
  BY <1>8, <1>9

\* #handleConnect(), by the loop that is alone.
LEMMA ConnectedKeeps ==
    ASSUME LinkTypes, Calm, NEW i \in Attempts, Alone(i), posted = <<i>>, toPhone = <<>>, toHost' = <<>>,
           UNCHANGED phone, HandleConnect(i)
    PROVE  TurnStep
<1>1. conn[i] \in ConnTypes /\ HeaderSize \in Nat
  BY TransferAssumption DEF LinkTypes
<1>2. PICK c : c = ReadOn(conn[i], "header", HeaderSize)
  OBVIOUS
<1>3. c \in ConnTypes /\ c.loop = "header" /\ c.left = HeaderSize /\ c.sound
  BY <1>1, <1>2 DEF ReadOn, ConnTypes
<1>4. PICK d : d = Connected(c)
  OBVIOUS
<1>5. d \in ConnTypes /\ d.loop = "header" /\ d.left = HeaderSize /\ d.sound
  BY <1>3, <1>4 DEF Connected, ConnTypes
<1>6. conn' = [conn EXCEPT ![i] = d]
  BY <1>2, <1>4, Zenon DEF HandleConnect
<1>7. posted' = <<i>> /\ toPhone' = <<>>
  BY Tail(<<i>>) = <<>>, Append(<<>>, i) = <<i>> DEF HandleConnect
<1>8. conn'[i] = d /\ Alone(i)'
  BY <1>5, <1>6, LoopSteps
<1>9. Waits(i)'
  BY <1>5, <1>7, <1>8 DEF Waits, AtHeader
<1>10. QED
  BY <1>7, <1>8, <1>9, NothingSent, TurnKept

\* A packet that is neither A_CNXN nor A_AUTH ends the loop.
LEMMA DiesKeeps ==
    ASSUME LinkTypes, Calm, NEW i \in Attempts, Alone(i), posted = <<i>>, toPhone = <<>>, toHost' = <<>>,
           phone.prompt = NoItem, UNCHANGED phone, Dies(i)
    PROVE  TurnStep
<1>1. PICK d : d = Failed(conn[i])
  OBVIOUS
<1>2. conn[i] \in ConnTypes
  BY DEF LinkTypes
<1>3. d \in ConnTypes /\ d.loop = "dead"
  BY <1>1, <1>2, FailedIs
<1>4. conn' = [conn EXCEPT ![i] = d] /\ posted' = <<>> /\ toPhone' = <<>>
  BY <1>1, Tail(<<i>>) = <<>> DEF Dies
<1>5. \A j \in Attempts : ~Alive(j)'
  BY <1>3, <1>4, LoopSteps
<1>6. Deserted'
  BY <1>4, <1>5 DEF Deserted
<1>7. QED
  BY <1>4, <1>6, NothingSent, TurnKept

\* #handleAuth(): the next key signs, or the last is offered.
LEMMA AuthKeeps ==
    ASSUME LinkTypes, Calm, NEW i \in Attempts, Alone(i), posted = <<i>>, toPhone = <<>>, toHost' = <<>>,
           phone.prompt = NoItem, UNCHANGED phone, Tried(i, conn[i].keyIndex),
           NEW token, token = phone.token, HandleAuth(i, token)
    PROVE  TurnStep
<1>1. PICK c : c = conn[i]
  OBVIOUS
<1>2. /\ c \in ConnTypes /\ c.keys \in Seq(Keys) /\ c.keyIndex \in Nat /\ token \in Nat /\ c.keys # <<>>
      /\ \A k \in c.had : Has(c.keys, k)
  BY <1>1 DEF LinkTypes, Started, Reads, Alone, ConnTypes, PhoneTypes
<1>3. PICK keys, index : keys = c.keys /\ index = c.keyIndex
  OBVIOUS
<1>4. /\ keys \in Seq(Keys) /\ index \in Nat /\ keys # <<>> /\ Len(keys) \in Nat
      /\ \A m \in 1..Len(keys) : m <= index => keys[m] \notin phone.known
  BY <1>1, <1>2, <1>3 DEF Tried
<1>5. PICK d : d = [c EXCEPT !.keyIndex = index + 1, !.loop = "writing"]
  OBVIOUS
<1>6. /\ d \in ConnTypes /\ d.loop = "writing" /\ d.keyIndex = index + 1
      /\ d.keys = c.keys /\ d.had = c.had /\ d.pc = c.pc
  <2>1. c \in ConnTypes
    BY <1>2
  <2>2. PICK n \in Nat : n = index + 1
    BY <1>4
  <2>3. d = [c EXCEPT !.keyIndex = n, !.loop = "writing"]
    BY <1>5, <2>2
  <2>4. QED
    BY <2>1, <2>2, <2>3 DEF ConnTypes
<1>7. conn' = [conn EXCEPT ![i] = d]
  BY <1>1, <1>2, <1>3, <1>5 DEF HandleAuth, NextIndex, LinkTypes, ConnTypes
<1>8. conn'[i] = d /\ Alone(i)'
  BY <1>6, <1>7, LoopSteps
<1>9. AtHeader(i)'
  BY <1>6, <1>8, Tail(<<i>>) = <<>> DEF HandleAuth, AtHeader
<1>11. CASE index < Len(keys)
  <2>1. PICK x : x = [from |-> i, cmd |-> "SIGNATURE", key |-> keys[index + 1], token |-> token]
    OBVIOUS
  <2>2. toPhone' = <<x>>
    <3>1. toPhone' = Append(<<>>, x)
      BY <1>1, <1>3, <1>11, <2>1 DEF HandleAuth, Send
    <3>2. QED
      BY <3>1
  <2>3. index + 1 \in 1..Len(keys)
    BY <1>4, <1>11
  <2>4. keys[index + 1] \in Keys
    BY <1>4, <2>3, ElementOfSeq, Zenon
  <2>5. /\ x \in RequestTypes /\ x.from = i
        /\ x.cmd = "SIGNATURE" /\ x.key = keys[index + 1] /\ x.token = token
    BY <1>2, <2>1, <2>4 DEF RequestTypes
  <2>6. Tried(i, index)'
    BY <1>3, <1>4, <1>6, <1>8 DEF Tried
  <2>7. (index + 1) - 1 = index
    BY <1>4
  <2>8. Asks(i)'
    BY <1>3, <1>6, <1>8, <1>9, <2>2, <2>3, <2>5, <2>6, <2>7 DEF Asks, Tried
  <2>9. Prompts
    <3>1. Last(toPhone') = x
      BY <2>2 DEF Last
    <3>2. QED
      BY <2>5, <3>1 DEF Prompts, Offers
  <2>10. QED
    BY <1>8, <2>8, <2>9, TurnKept
<1>12. CASE ~(index < Len(keys))
  <2>1. PICK x : x = [from |-> i, cmd |-> "RSAPUBLICKEY", key |-> Last(keys), token |-> 0]
    OBVIOUS
  <2>2. toPhone' = <<x>>
    <3>1. toPhone' = Append(<<>>, x)
      BY <1>1, <1>3, <1>12, <2>1 DEF HandleAuth, Send
    <3>2. QED
      BY <3>1
  <2>3. Last(keys) \in Keys
    BY <1>4, Entries
  <2>4. x \in RequestTypes /\ x.cmd = "RSAPUBLICKEY" /\ x.from = i /\ x.key \in Keys
    BY <2>1, <2>3 DEF RequestTypes
  <2>5. Asks(i)'
    BY <1>8, <1>9, <2>2, <2>4 DEF Asks
  <2>6. conn[i].had \cap phone.known = {}
    <3>1. \A m \in 1..Len(keys) : keys[m] \notin phone.known
      BY <1>4, <1>12
    <3>2. \A k \in c.had : \E m \in 1..Len(keys) : keys[m] = k
      BY <1>2, <1>3 DEF Has
    <3>3. QED
      BY <1>1, <3>1, <3>2
  <2>7. Prompts
    <3>1. Last(toPhone') = x
      BY <2>2 DEF Last
    <3>2. QED
      BY <2>4, <2>6, <3>1 DEF Prompts, Offers
  <2>8. QED
    BY <1>8, <2>5, <2>7, TurnKept
<1>13. QED
  BY <1>11, <1>12

\* readPacket(): the header of an answer, or its payload and what it leads to.
LEMMA ReceiveKeeps == ASSUME LinkTypes, Calm, Receive PROVE TurnStep
<1>1. posted # <<>> /\ toHost # <<>>
  BY DEF Receive
<1>2. PICK i \in Attempts : Alone(i) /\ Answered(i)
  BY <1>1, ReceivesAnswer
<1>3. PICK p \in {Auth(phone.token), Banner, Odd} :
          /\ p = Auth(phone.token) => Tried(i, conn[i].keyIndex)
          /\ \/ AtHeader(i) /\ toHost = Transfers(p)
             \/ /\ p.size > 0 /\ toHost = <<[part |-> "payload", size |-> p.size, of |-> p]>>
                /\ conn[i].loop = "payload" /\ posted = <<i>>
                /\ conn[i].packet = p /\ conn[i].left = p.size /\ conn[i].sound
  BY <1>2 DEF Answered
<1>4. toPhone = <<>> /\ phone.prompt = NoItem
  BY <1>2 DEF Answered
<1>5. phone.token \in Nat /\ conn[i] \in ConnTypes
  BY DEF LinkTypes, PhoneTypes
<1>6. /\ p \in PacketTypes /\ p.size \in Nat
      /\ p = Auth(phone.token) => p.cmd = "AUTH" /\ p.size > 0 /\ p.token = phone.token
      /\ p = Banner => p.cmd = "CNXN" /\ p.size > 0
      /\ p = Odd => p.cmd = "STLS" /\ p.size = 0
  <2>1. /\ {Auth(phone.token), Banner, Odd} \subseteq PacketTypes
        /\ Auth(phone.token).cmd = "AUTH" /\ Banner.cmd = "CNXN" /\ Odd.cmd = "STLS"
        /\ Auth(phone.token).size > 0 /\ Banner.size > 0 /\ Odd.size = 0
        /\ Auth(phone.token).token = phone.token
    BY <1>5, ThePackets
  <2>2. p \in PacketTypes
    BY <2>1
  <2>3. QED
    BY <2>1, <2>2 DEF PacketTypes
<1>7. posted = <<i>>
  BY <1>1, <1>3 DEF AtHeader
<1>8. CASE AtHeader(i) /\ toHost = Transfers(p)
  <2>1. conn[i].loop = "header" /\ conn[i].left = HeaderSize /\ conn[i].sound /\ HeaderSize \in Nat
    BY <1>1, <1>8, TransferAssumption DEF AtHeader
  <2>2. PICK x : x = HeaderOf(p)
    OBVIOUS
  <2>3. /\ Head(toHost) = x
        /\ p.size > 0 => Tail(toHost) = <<PayloadOf(p)>>
        /\ p.size = 0 => Tail(toHost) = <<>>
    BY <1>6, <1>8, <2>2, TransfersOf
  <2>4. x.size = HeaderSize /\ x.part = "header" /\ x.of = p
    BY <2>2 DEF HeaderOf
  <2>5. PICK c : c = conn[i]
    OBVIOUS
  <2>6. c.loop = "header" /\ c.loop # "payload" /\ c.sound /\ c.left \in Nat /\ x.size = c.left /\ x.part = c.loop
    BY <2>1, <2>4, <2>5
  <2>7. /\ toHost' = Tail(toHost) /\ UNCHANGED phone
        /\ p.size > 0 =>
             /\ conn' = [conn EXCEPT ![i] = [ReadOn(c, "payload", p.size) EXCEPT !.packet = p]]
             /\ posted' = <<i>> /\ UNCHANGED toPhone
        /\ ~(p.size > 0) => Handle(i, p, TRUE)
    <3>1. /\ toHost' = Tail(toHost) /\ UNCHANGED phone
          /\ c.loop = "header" /\ x.of.size > 0 =>
               /\ conn' = [conn EXCEPT ![i] = [ReadOn(c, "payload", x.of.size) EXCEPT !.packet = x.of]]
               /\ posted' = <<i>> /\ UNCHANGED toPhone
          /\ c.loop = "header" /\ ~(x.of.size > 0) => Handle(i, x.of, TRUE)
      BY <1>7, <2>3, <2>5, <2>6, ReceiveIs, ZenonT(60)
    <3>2. QED
      BY <2>4, <2>6, <3>1, Zenon
  <2>8. CASE p.size > 0
    <3>0. PICK e : e = ReadOn(c, "payload", p.size)
      OBVIOUS
    <3>1. /\ e \in ConnTypes /\ e.loop = "payload" /\ e.left = p.size /\ e.sound /\ e.pc = c.pc
          /\ e.keys = c.keys /\ e.had = c.had /\ e.keyIndex = c.keyIndex
      <4>1. c \in ConnTypes /\ p.size \in Nat
        BY <1>5, <1>6, <2>5
      <4>2. QED
        BY <3>0, <4>1 DEF ReadOn, ConnTypes
    <3>2. PICK d : d = [e EXCEPT !.packet = p]
      OBVIOUS
    <3>3. /\ d \in ConnTypes /\ d.loop = "payload" /\ d.left = p.size /\ d.sound /\ d.pc = c.pc
          /\ d.keys = c.keys /\ d.had = c.had /\ d.keyIndex = c.keyIndex /\ d.packet = p
      BY <1>6, <3>1, <3>2 DEF ConnTypes
    <3>4. conn' = [conn EXCEPT ![i] = d]
      BY <2>7, <2>8, <3>0, <3>2
    <3>5. conn'[i] = d /\ Alone(i)'
      BY <1>2, <3>3, <3>4, LoopSteps
    <3>6. toPhone' = <<>> /\ phone' = phone /\ posted' = <<i>>
      BY <1>4, <2>7, <2>8
    <3>7. toHost' = <<[part |-> "payload", size |-> p.size, of |-> p]>>
      BY <2>3, <2>7, <2>8 DEF PayloadOf
    <3>8. p = Auth(phone'.token) => Tried(i, conn[i].keyIndex)'
      BY <1>3, <2>5, <3>3, <3>5, <3>6 DEF Tried
    <3>9. conn'[i].keyIndex = conn[i].keyIndex
      BY <2>5, <3>3, <3>5
    <3>10. Answered(i)'
      <4>1. p \in {Auth(phone'.token), Banner, Odd}
        BY <3>6
      <4>2. QED
        BY <1>4, <2>8, <3>3, <3>5, <3>6, <3>7, <3>8, <3>9, <4>1 DEF Answered, Tried
    <3>11. QED
      BY <3>5, <3>6, <3>10, NothingSent, TurnKept
  <2>9. CASE ~(p.size > 0)
    <3>1. p.cmd = "STLS" /\ p.size = 0
      BY <1>6, <2>9
    <3>2. Dies(i)
      BY <2>7, <2>9, <3>1 DEF Handle
    <3>3. toHost' = <<>>
      BY <2>3, <2>7, <3>1
    <3>4. QED
      BY <1>2, <1>4, <1>7, <2>7, <3>2, <3>3, DiesKeeps
  <2>10. QED
    BY <2>8, <2>9
<1>9. CASE /\ p.size > 0 /\ toHost = <<[part |-> "payload", size |-> p.size, of |-> p]>>
           /\ conn[i].loop = "payload" /\ posted = <<i>>
           /\ conn[i].packet = p /\ conn[i].left = p.size /\ conn[i].sound
  <2>1. PICK x : x = [part |-> "payload", size |-> p.size, of |-> p]
    OBVIOUS
  <2>2. Head(toHost) = x /\ Tail(toHost) = <<>>
    BY <1>9, <2>1, Head(<<x>>) = x, Tail(<<x>>) = <<>>
  <2>3. PICK c : c = conn[i]
    OBVIOUS
  <2>4. /\ c.loop = "payload" /\ c.loop # "header" /\ c.sound /\ c.left \in Nat /\ c.packet = p
        /\ x.size = c.left /\ x.part = c.loop /\ x.of = c.packet
    BY <1>6, <1>9, <2>1, <2>3
  <2>5. /\ toHost' = <<>> /\ UNCHANGED phone
        /\ Handle(i, p, TRUE)
    BY <1>7, <2>2, <2>3, <2>4, ReceiveIs
  <2>6. CASE p = Banner
    <3>1. HandleConnect(i)
      BY <1>6, <2>5, <2>6 DEF Handle
    <3>2. QED
      BY <1>2, <1>4, <1>7, <2>5, <3>1, ConnectedKeeps
  <2>7. CASE p = Auth(phone.token)
    <3>1. PICK token : token = phone.token
      OBVIOUS
    <3>2. HandleAuth(i, token)
      BY <1>6, <2>5, <2>7, <3>1 DEF Handle
    <3>3. QED
      BY <1>2, <1>3, <1>4, <1>7, <2>5, <2>7, <3>1, <3>2, AuthKeeps
  <2>8. p # Odd
    BY <1>6, <1>9
  <2>9. QED
    BY <2>6, <2>7, <2>8
<1>10. QED
  BY <1>3, <1>8, <1>9

\* A click with keys stored.
LEMMA AddDeviceKeeps ==
    ASSUME ItemTypes, PageTypes, LinkTypes, NEW i \in Attempts, AddDevice(i)
    PROVE  StoreStep /\ LinkTypes' /\ (Calm => TurnStep)
<1>1. PICK s : s = Stored
  OBVIOUS
<1>2. s \in Seq(Keys) /\ s # <<>>
  BY <1>1, StoredList DEF AddDevice
<1>3. StoreStep
  BY StoreRead DEF AddDevice, Clicked, ItemTypes
<1>4. Connect(i, s, s) /\ UNCHANGED <<phone, toHost, unplugs>> /\ conn[i].pc = "unused"
  BY <1>1 DEF AddDevice, Clicked, KeysToTry
<1>5. LinkTypes'
  BY <1>2, <1>4, ConnectTyped
<1>6. ~Alive(i)
  BY <1>4 DEF LinkTypes, Started, Reads
<1>7. ASSUME Calm PROVE TurnStep
  BY <1>2, <1>4, <1>6, <1>7, ConnectKeeps
<1>8. QED
  BY <1>3, <1>5, <1>7

\* A click without.
LEMMA AddDeviceFirstKeyKeeps ==
    ASSUME ItemTypes, PageTypes, LinkTypes, NEW i \in Attempts, AddDeviceFirstKey(i)
    PROVE  StoreStep /\ LinkTypes' /\ (Calm => TurnStep)
<1>1. PICK key : key = Fresh
  OBVIOUS
<1>2. key \in NewKeys /\ key \in Keys /\ made' = made \cup {key}
  BY <1>1, FreshIsNew DEF AddDeviceFirstKey, ItemTypes
<1>3. StoreStep
  <2>1. made' \in SUBSET NewKeys
    BY <1>2 DEF ItemTypes
  <2>2. QED
    BY <2>1, StoreRead DEF AddDeviceFirstKey, Clicked
<1>4. PICK d : d = [Unused EXCEPT !.pc = "generating", !.fresh = key, !.usb = unplugs]
  OBVIOUS
<1>5. NoPacket \in PacketTypes /\ unplugs \in Nat /\ <<>> \in Seq(Keys)
  BY ThePackets DEF LinkTypes
<1>6. d = [pc |-> "generating", keys |-> <<>>, had |-> {}, keyIndex |-> 0, fresh |-> key,
           usb |-> unplugs, loop |-> "none", left |-> 0, sound |-> TRUE, packet |-> NoPacket]
  BY <1>4 DEF Unused
<1>7. d \in ConnTypes /\ d.loop = "none" /\ d.fresh = key
  BY <1>2, <1>5, <1>6 DEF ConnTypes
<1>8. conn' = [conn EXCEPT ![i] = d]
  BY <1>1, <1>4 DEF AddDeviceFirstKey
<1>9. i \notin Started /\ ~Alive(i)
  BY DEF LinkTypes, Started, Reads, AddDeviceFirstKey, Clicked
<1>10. UNCHANGED <<linkVars, overlapped, unplugs>>
  BY DEF AddDeviceFirstKey, Clicked, linkVars
<1>11. LinkTypes'
  BY <1>2, <1>7, <1>8, <1>9, <1>10, IdleTyped
<1>12. ASSUME Calm PROVE TurnStep
  BY <1>7, <1>8, <1>9, <1>10, <1>12, IdleKeeps
<1>13. QED
  BY <1>3, <1>11, <1>12

\* The first key is there.
LEMMA FirstKeyKeeps ==
    ASSUME ItemTypes, PageTypes, LinkTypes, NEW i \in Attempts, FirstKey(i)
    PROVE  StoreStep /\ LinkTypes' /\ (Calm => TurnStep)
<1>1. PICK key : key = conn[i].fresh
  OBVIOUS
<1>2. PICK q : q = Append(Stored, key)
  OBVIOUS
<1>3. conn[i].pc = "generating" /\ UNCHANGED <<pageVars, made, phone, toHost, unplugs>>
  BY DEF FirstKey
<1>4. key \in Keys /\ made' \in SUBSET NewKeys
  BY <1>1, <1>3 DEF ItemTypes, LinkTypes
<1>5. StoreStep
  <2>1. CASE WriteBack(q)
    BY <1>2, <1>3, <1>4, <2>1, StoreAdded
  <2>2. CASE WriteThrows
    BY <1>3, <1>4, <2>2, StoreRead
  <2>3. QED
    BY <1>1, <1>2, <2>1, <2>2 DEF FirstKey
<1>6. i \notin Started /\ ~Alive(i)
  BY <1>3 DEF LinkTypes, Started, Reads
<1>7. PICK keys : keys = <<key>>
  OBVIOUS
<1>8. CASE Connect(i, keys, keys)
  <2>1. keys \in Seq(Keys) /\ keys # <<>>
    BY <1>4, <1>7
  <2>2. LinkTypes'
    BY <1>3, <1>8, <2>1, ConnectTyped
  <2>3. ASSUME Calm PROVE TurnStep
    BY <1>3, <1>6, <1>8, <2>1, <2>3, ConnectKeeps
  <2>4. QED
    BY <1>5, <2>2, <2>3
<1>9. CASE /\ conn' = [conn EXCEPT ![i] = [Unused EXCEPT !.pc = "failed", !.loop = "dead"]]
           /\ UNCHANGED <<posted, toPhone, overlapped>>
  <2>1. PICK d : d = [Unused EXCEPT !.pc = "failed", !.loop = "dead"]
    OBVIOUS
  <2>2. NoPacket \in PacketTypes /\ <<>> \in Seq(Keys)
    BY ThePackets
  <2>3. d = [pc |-> "failed", keys |-> <<>>, had |-> {}, keyIndex |-> 0, fresh |-> NoItem,
             usb |-> 0, loop |-> "dead", left |-> 0, sound |-> TRUE, packet |-> NoPacket]
    BY <2>1 DEF Unused
  <2>4. d \in ConnTypes /\ d.loop = "dead" /\ d.pc = "failed"
    BY <2>2, <2>3 DEF ConnTypes
  <2>5. conn' = [conn EXCEPT ![i] = d]
    BY <1>9, <2>1
  <2>6. UNCHANGED <<linkVars, overlapped, unplugs>>
    BY <1>3, <1>9 DEF linkVars
  <2>7. LinkTypes'
    BY <1>6, <2>4, <2>5, <2>6, IdleTyped
  <2>8. ASSUME Calm PROVE TurnStep
    BY <1>6, <2>4, <2>5, <2>6, <2>8, IdleKeeps
  <2>9. QED
    BY <1>5, <2>7, <2>8
<1>10. QED
  BY <1>1, <1>7, <1>8, <1>9 DEF FirstKey

-----------------------------------------------------------------------------
(* adbd, its user and the cable                                            *)

\* The phone and what it sends change, the page does not.
LEMMA PhoneSteps ==
    ASSUME NEW i \in Attempts, Alone(i), UNCHANGED conn, toPhone' = <<>>, Answered(i)' \/ Waits(i)'
    PROVE  TurnStep
<1>1. Alone(i)'
  BY DEF Alone, Alive
<1>2. QED
  BY <1>1, NothingSent, TurnKept

\* An answer to a loop that is between two packets.
LEMMA Answers ==
    ASSUME NEW i \in Attempts, AtHeader(i), UNCHANGED <<conn, posted>>, NEW p, p.size \in Nat,
           toHost = <<>>, Answer(p), toPhone' = <<>>, phone'.prompt = NoItem,
           p \in {Auth(phone'.token), Banner, Odd}, NEW n, n = conn[i].keyIndex,
           p = Auth(phone'.token) => Tried(i, n)'
    PROVE  Answered(i)'
<1>1. toHost' = Transfers(p)
  BY TransfersOf DEF Answer
<1>2. AtHeader(i)' /\ conn'[i].keyIndex = n
  BY DEF AtHeader
<1>3. QED
  BY <1>1, <1>2 DEF Answered, Tried

\* adbd answers what the loop asks.
LEMMA PhoneTakesKeeps == ASSUME LinkTypes, Calm, PhoneTakes PROVE TurnStep
<1>1. PICK i \in Attempts : Alone(i) /\ Asks(i)
  BY DEF PhoneTakes, Calm, Deserted, Answered, Waits
<1>2. PICK x \in RequestTypes :
          /\ toPhone = <<x>> /\ x.from = i
          /\ x.cmd = "CNXN" => conn[i].keyIndex = 0
          /\ x.cmd = "SIGNATURE" =>
                /\ conn[i].keyIndex \in 1..Len(conn[i].keys)
                /\ x.key = conn[i].keys[conn[i].keyIndex] /\ x.token = phone.token
                /\ Tried(i, conn[i].keyIndex - 1)
          /\ x.cmd = "RSAPUBLICKEY" => x.key \in Keys
  BY <1>1 DEF Asks
<1>3. AtHeader(i) /\ toHost = <<>> /\ phone.prompt = NoItem
  BY <1>1 DEF Asks
<1>4. /\ phone \in PhoneTypes /\ phone.token \in Nat /\ conn[i] \in ConnTypes /\ conn[i].keyIndex \in Nat
      /\ phone.token + 1 \in Nat
  BY DEF LinkTypes, PhoneTypes, ConnTypes
<1>5. Head(toPhone) = x /\ toPhone' = <<>> /\ UNCHANGED <<conn, posted>>
  BY <1>2, Head(<<x>>) = x, Tail(<<x>>) = <<>> DEF PhoneTakes
<1>6. PICK n \in Nat : n = conn[i].keyIndex
  BY <1>4
<1>7. ASSUME AskAuth,
             \A m \in 1..Len(conn[i].keys) : m <= n => conn[i].keys[m] \notin phone.known
      PROVE  Answered(i)'
  <2>1. /\ phone'.token = phone.token + 1 /\ phone'.known = phone.known
        /\ phone'.prompt = NoItem
    BY <1>3, <1>4, <1>7 DEF AskAuth, PhoneTypes
  <2>2. PICK p : p = Auth(phone.token + 1)
    OBVIOUS
  <2>3. p.size \in Nat /\ Answer(p) /\ p = Auth(phone'.token)
    BY <1>7, <2>1, <2>2, TransferAssumption DEF AskAuth, Auth, Packet
  <2>4. Tried(i, n)'
    BY <1>5, <1>7, <2>1 DEF Tried
  <2>5. QED
    BY <1>3, <1>5, <1>6, <2>1, <2>3, <2>4, Answers
<1>8. ASSUME GoOnline PROVE Answered(i)'
  <2>1. phone'.prompt = NoItem /\ phone'.token = phone.token
    BY <1>3, <1>4, <1>8 DEF GoOnline, PhoneTypes
  <2>2. Banner.size \in Nat /\ Answer(Banner) /\ Banner # Auth(phone'.token)
    BY <1>4, <1>8, <2>1, ThePackets DEF GoOnline, PacketTypes
  <2>3. QED
    BY <1>3, <1>5, <1>6, <2>1, <2>2, Answers
<1>9. CASE x.cmd = "CNXN"
  <2>1. n = 0
    BY <1>2, <1>6, <1>9
  <2>2. CASE Answer(Odd) /\ UNCHANGED phone
    <3>1. Odd.size \in Nat /\ Odd # Auth(phone'.token) /\ phone'.prompt = NoItem
      BY <1>3, <1>4, <2>2, ThePackets DEF PacketTypes
    <3>2. Answered(i)'
      BY <1>3, <1>5, <1>6, <2>2, <3>1, Answers
    <3>3. QED
      BY <1>1, <1>5, <3>2, PhoneSteps
  <2>3. CASE AskAuth
    <3>1. \A m \in 1..Len(conn[i].keys) : m <= n => conn[i].keys[m] \notin phone.known
      BY <2>1
    <3>2. QED
      BY <1>1, <1>5, <1>7, <2>3, <3>1, PhoneSteps
  <2>4. CASE GoOnline
    BY <1>1, <1>5, <1>8, <2>4, PhoneSteps
  <2>5. QED
    BY <1>5, <1>9, <2>2, <2>3, <2>4 DEF PhoneTakes
<1>10. CASE x.cmd = "SIGNATURE"
  <2>1. CASE AskAuth /\ ~(x.key \in phone.known /\ x.token = phone.token)
    <3>1. conn[i].keys[n] \notin phone.known
      BY <1>2, <1>6, <1>10, <2>1
    <3>2. \A m \in 1..Len(conn[i].keys) : m <= n - 1 => conn[i].keys[m] \notin phone.known
      BY <1>2, <1>6, <1>10 DEF Tried
    <3>3. Len(conn[i].keys) \in Nat
      BY <1>4 DEF ConnTypes
    <3>4. \A m \in 1..Len(conn[i].keys) : m <= n => m <= n - 1 \/ m = n
      BY <3>3
    <3>5. \A m \in 1..Len(conn[i].keys) : m <= n => conn[i].keys[m] \notin phone.known
      BY <3>1, <3>2, <3>4
    <3>6. QED
      BY <1>1, <1>5, <1>7, <2>1, <3>5, PhoneSteps
  <2>2. CASE GoOnline
    BY <1>1, <1>5, <1>8, <2>2, PhoneSteps
  <2>3. QED
    BY <1>5, <1>10, <2>1, <2>2 DEF PhoneTakes
<1>11. CASE x.cmd = "RSAPUBLICKEY"
  <2>1. x.key \in Keys /\ phone' = [phone EXCEPT !.prompt = x.key, !.denied = FALSE] /\ toHost' = toHost
    BY <1>2, <1>5, <1>11 DEF PhoneTakes
  <2>2. Waits(i)'
    BY <1>3, <1>5, <2>1 DEF Waits, AtHeader
  <2>3. QED
    BY <1>1, <1>5, <2>2, PhoneSteps
<1>12. x.cmd \in {"CNXN", "SIGNATURE", "RSAPUBLICKEY"}
  BY <1>2 DEF RequestTypes
<1>13. QED
  BY <1>9, <1>10, <1>11, <1>12

\* The user accepts the key or does not.
LEMMA UserKeeps == ASSUME LinkTypes, Calm, UserAccepts \/ UserDenies PROVE TurnStep
<1>1. phone.prompt # NoItem
  BY DEF UserAccepts, UserDenies
<1>2. PICK i \in Attempts : Alone(i) /\ Waits(i)
  BY <1>1 DEF Calm, Deserted, Asks, Answered
<1>3. phone \in PhoneTypes /\ phone.token \in Nat /\ phone.prompt \in Keys
  BY <1>1 DEF LinkTypes, PhoneTypes
<1>4. AtHeader(i) /\ toHost = <<>> /\ toPhone = <<>>
  BY <1>2 DEF Waits
<1>5. UNCHANGED <<conn, posted, toPhone>> /\ toPhone' = <<>>
  BY <1>4 DEF UserAccepts, UserDenies
<1>6. CASE UserAccepts
  <2>1. PICK always \in BOOLEAN :
          phone' = [phone EXCEPT !.online = TRUE, !.prompt = NoItem,
                       !.known = IF always THEN @ \cup {phone.prompt} ELSE @]
    BY <1>6 DEF UserAccepts
  <2>2. PICK known \in SUBSET Keys : known = IF always THEN phone.known \cup {phone.prompt} ELSE phone.known
    BY <1>3 DEF PhoneTypes
  <2>3. phone' = [phone EXCEPT !.online = TRUE, !.prompt = NoItem, !.known = known]
    BY <1>3, <2>1, <2>2 DEF PhoneTypes
  <2>4. phone'.prompt = NoItem /\ phone'.token \in Nat
    BY <1>3, <2>3 DEF PhoneTypes
  <2>5. Banner.size \in Nat /\ Answer(Banner) /\ Banner # Auth(phone'.token)
    BY <1>6, <2>4, ThePackets DEF UserAccepts, PacketTypes
  <2>6. PICK n : n = conn[i].keyIndex
    OBVIOUS
  <2>7. Answered(i)'
    BY <1>4, <1>5, <2>4, <2>5, <2>6, Answers
  <2>8. QED
    BY <1>2, <1>5, <2>7, PhoneSteps
<1>7. CASE UserDenies
  <2>1. toHost' = toHost
    BY <1>7 DEF UserDenies
  <2>2. Waits(i)'
    BY <1>4, <1>5, <2>1 DEF Waits, AtHeader
  <2>3. QED
    BY <1>2, <1>5, <2>2, PhoneSteps
<1>8. QED
  BY <1>6, <1>7

\* The cable is pulled: every loop ends.
LEMMA UnplugKeeps == ASSUME LinkTypes, Unplug PROVE TurnStep
<1>1. /\ conn' = [i \in Attempts |-> IF Alive(i) THEN Failed(conn[i]) ELSE conn[i]]
      /\ posted' = <<>> /\ toHost' = <<>> /\ toPhone' = <<>>
      /\ phone' = [phone EXCEPT !.online = FALSE, !.prompt = NoItem, !.denied = FALSE]
  BY DEF Unplug
<1>2. ASSUME NEW i \in Attempts PROVE ~Alive(i)'
  <2>1. CASE Alive(i)
    <3>1. PICK c, d : c = conn[i] /\ d = Failed(c)
      OBVIOUS
    <3>2. c \in ConnTypes
      BY <3>1 DEF LinkTypes
    <3>3. d.loop = "dead" /\ conn'[i] = d
      BY <1>1, <2>1, <3>1, <3>2, FailedIs
    <3>4. QED
      BY <3>3 DEF Alive
  <2>2. CASE ~Alive(i)
    BY <1>1, <2>2 DEF Alive
  <2>3. QED
    BY <2>1, <2>2
<1>3. phone'.prompt = NoItem
  BY <1>1 DEF LinkTypes, PhoneTypes
<1>4. Deserted'
  BY <1>1, <1>2, <1>3 DEF Deserted
<1>5. QED
  BY <1>1, <1>4, NothingSent, TurnKept

-----------------------------------------------------------------------------
(* Every step                                                              *)

\* Nobody has clicked yet.
LEMMA InitKept ==
    ASSUME Init
    PROVE  /\ ItemTypes /\ PageTypes /\ LinkTypes /\ TurnInv
           /\ (\A items \in FirstItems : items.v2 = NoItem \/ items.legacy = NoItem) => OneItem
<1>1. /\ ItemTypes /\ PageTypes
      /\ (\A items \in FirstItems : items.v2 = NoItem \/ items.legacy = NoItem) => OneItem
  BY InitStoreTypes DEF Init
<1>2. PICK known \in Known, secure \in BOOLEAN :
        phone = [known |-> known, secure |-> secure, online |-> FALSE, token |-> 0,
                 prompt |-> NoItem, denied |-> FALSE]
  BY DEF Init, InitLink
<1>3. phone \in PhoneTypes /\ phone.prompt = NoItem
  BY <1>2, KnownAssumption DEF PhoneTypes
<1>4. NoPacket \in PacketTypes /\ <<>> \in Seq(Keys)
  BY ThePackets
<1>5. Unused \in ConnTypes /\ Unused.pc = "unused" /\ Unused.loop = "none"
  <2>1. PICK u : u = Unused
    OBVIOUS
  <2>2. u = [pc |-> "unused", keys |-> <<>>, had |-> {}, keyIndex |-> 0, fresh |-> NoItem,
             usb |-> 0, loop |-> "none", left |-> 0, sound |-> TRUE, packet |-> NoPacket]
    BY <2>1 DEF Unused
  <2>3. u \in ConnTypes /\ u.pc = "unused" /\ u.loop = "none"
    BY <1>4, <2>2 DEF ConnTypes
  <2>4. QED
    BY <2>1, <2>3
<1>6. /\ conn = [i \in Attempts |-> Unused] /\ posted = <<>> /\ toHost = <<>> /\ toPhone = <<>>
      /\ overlapped = FALSE /\ unplugs = 0
  BY DEF Init, InitLink
<1>7. /\ conn \in [Attempts -> ConnTypes]
      /\ \A i \in Attempts : conn[i].pc = "unused" /\ ~Alive(i)
  <2>1. PICK u : u = Unused
    OBVIOUS
  <2>2. \A i \in Attempts : conn[i] = u
    BY <1>6, <2>1
  <2>3. QED
    BY <1>5, <1>6, <2>1, <2>2 DEF Alive
<1>8. posted \in Seq(Started) /\ toHost \in Seq(TransferTypes) /\ toPhone \in Seq(RequestTypes)
  <2>1. \A S : <<>> \in Seq(S)
    OBVIOUS
  <2>2. QED
    BY <1>6, <2>1, Zenon
<1>9. LinkTypes
  BY <1>3, <1>6, <1>7, <1>8 DEF LinkTypes
<1>10. Deserted
  BY <1>3, <1>6, <1>7 DEF Deserted
<1>11. QED
  BY <1>1, <1>9, <1>10 DEF TurnInv, Calm

\* Whatever happens, the types are kept, the list is handled as it should be,
\* and turns are taken.
LEMMA NextKeeps ==
    ASSUME ItemTypes, PageTypes, LinkTypes, [Next]_hvars
    PROVE  StoreStep /\ LinkTypes' /\ (Calm => TurnStep)
<1>1. CASE SettingsStep
  <2>1. PICK t \in Tabs : Settings(t) /\ UNCHANGED <<conn, linkVars, overlapped, unplugs>>
    BY <1>1 DEF SettingsStep
  <2>2. StoreStep
    BY <2>1, SettingsKeeps
  <2>3. LinkTypes' /\ (Calm => TurnStep)
    BY <2>1, LinkStaysTyped, LinkStays
  <2>4. QED
    BY <2>2, <2>3
<1>2. ASSUME NEW i \in Attempts, Attempt(i) PROVE StoreStep /\ LinkTypes' /\ (Calm => TurnStep)
  <2>1. CASE AddDevice(i)
    BY <2>1, AddDeviceKeeps
  <2>2. CASE AddDeviceFirstKey(i)
    BY <2>2, AddDeviceFirstKeyKeeps
  <2>3. CASE FirstKey(i)
    BY <2>3, FirstKeyKeeps
  <2>4. CASE Written(i)
    BY <2>4, StoreStays, WrittenTyped, WrittenKeeps DEF Written
  <2>5. QED
    BY <1>2, <2>1, <2>2, <2>3, <2>4 DEF Attempt
<1>3. CASE Receive
  BY <1>3, StoreStays, ReceiveTyped, ReceiveKeeps DEF Receive
<1>4. CASE PhoneTakes
  BY <1>4, StoreStays, PhoneTakesTyped, PhoneTakesKeeps DEF PhoneTakes
<1>5. CASE UserAccepts \/ UserDenies
  BY <1>5, StoreStays, UserTyped, UserKeeps DEF UserAccepts, UserDenies
<1>6. CASE Unplug
  BY <1>6, StoreStays, UnplugTyped, UnplugKeeps DEF Unplug
<1>7. CASE UNCHANGED hvars
  BY <1>7, StoreStays, LinkStaysTyped, LinkStays DEF hvars
<1>8. QED
  BY <1>1, <1>2, <1>3, <1>4, <1>5, <1>6, <1>7 DEF Next

\* Two loops that have met have met for good.
LEMMA OverlapStays == ASSUME LinkTypes, [Next]_hvars PROVE overlapped => overlapped'
<1>1. UNCHANGED overlapped \/ \E i \in Attempts : \E keys, stored : Connect(i, keys, stored)
  BY DEF Next, SettingsStep, Attempt, AddDevice, AddDeviceFirstKey, FirstKey, Written, Receive,
         PhoneTakes, UserAccepts, UserDenies, Unplug, hvars
<1>2. QED
  BY <1>1, Zenon DEF Connect

-----------------------------------------------------------------------------
(* Theorems                                                                *)

\* The state of the key list, of the pages and of every connect() has its
\* types: a loop reads, and a transferIn() waits, only for an attempt that has
\* keys to try, those stored at the click among them.
THEOREM HandshakeTypes == Spec => [](ItemTypes /\ PageTypes /\ LinkTypes)
<1>1. Init => ItemTypes /\ PageTypes /\ LinkTypes
  BY InitKept
<1>2. ItemTypes /\ PageTypes /\ LinkTypes /\ [Next]_hvars => (ItemTypes /\ PageTypes /\ LinkTypes)'
  BY NextKeeps DEF StoreStep
<1>3. QED
  BY <1>1, <1>2, PTL DEF Spec

\* A stored key leaves storage only when its deletion is confirmed in some tab,
\* whatever the other tabs and Adb.connect() do in the meantime and wherever
\* setItem() throws.
THEOREM KeysStay == Spec => KeysLeaveOnlyByDeletion
<1>1. ItemTypes /\ PageTypes /\ LinkTypes /\ [Next]_hvars
        => [\A k \in InStorage \ InStorage' : \E t \in Tabs : Deletes(t, k)]_<<v2, legacy, pendingDelete>>
  BY NextKeeps DEF StoreStep, Keeps
<1>2. QED
  BY <1>1, HandshakeTypes, PTL DEF Spec, KeysLeaveOnlyByDeletion

\* A deleted key is nowhere in storage, if storage did not hold a list and the
\* old single key at once to begin with: #read() drops the old key when it has
\* written the list, and looks at it no more once there is a list.
THEOREM DeletedStaysGone ==
    (\A items \in FirstItems : items.v2 = NoItem \/ items.legacy = NoItem)
        => (Spec => DeletedIsGone)
<1> SUFFICES ASSUME \A items \in FirstItems : items.v2 = NoItem \/ items.legacy = NoItem
             PROVE  Spec => DeletedIsGone
  OBVIOUS
<1>1. Init => OneItem
  BY InitKept
<1>2. ItemTypes /\ PageTypes /\ LinkTypes /\ OneItem /\ [Next]_hvars => OneItem'
  BY NextKeeps DEF StoreStep
<1>3. ItemTypes /\ PageTypes /\ LinkTypes /\ OneItem /\ [Next]_hvars
        => [\A t \in Tabs : (\E k \in Keys : Deletes(t, k) /\ ~Has(listed'[t], k) /\ Has(listed[t], k))
              => pendingDelete[t] \notin InStorage']_<<v2, legacy, pendingDelete, listed>>
  BY NextKeeps DEF StoreStep, Rids, Deletes
<1>4. QED
  BY <1>1, <1>2, <1>3, HandshakeTypes, PTL DEF Spec, DeletedIsGone

\* As long as no two read loops have shared the endpoint, one loop and adbd
\* take turns, and the user is asked about a key only when the phone knows none
\* of those stored at the click.
THEOREM AskedOnlyIfUnknown == Spec => PromptOnlyIfUnknown
<1>1. Init => TurnInv
  BY InitKept
<1>2. ItemTypes /\ PageTypes /\ LinkTypes /\ TurnInv /\ [Next]_hvars => TurnInv'
  BY NextKeeps, OverlapStays DEF TurnInv, TurnStep
<1>3. ItemTypes /\ PageTypes /\ LinkTypes /\ TurnInv /\ [Next]_hvars
        => [\A i \in Attempts : Offers(i) /\ ~overlapped => conn[i].had \cap phone.known = {}]_hvars
  BY NextKeeps DEF TurnInv, TurnStep, Prompts
<1>4. QED
  BY <1>1, <1>2, <1>3, HandshakeTypes, PTL DEF Spec, PromptOnlyIfUnknown
=============================================================================
