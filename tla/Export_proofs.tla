---------------------------- MODULE Export_proofs ----------------------------
(***************************************************************************)
(* What the operators of module Export compute, for any cipher, any text   *)
(* and any names: the mapping of a cipher, its bag, the escaping of a      *)
(* value, the mangling of a name.                                          *)
(***************************************************************************)
EXTENDS Export, SequenceLemmas

-----------------------------------------------------------------------------
(* map_cipher: what is inserted has a name and a text, unless decryption   *)
(* failed.                                                                 *)
EntryType == [key : Names \cup {Failed}, text : Seq(Chars) \cup {Failed}]

LEMMA DecTyped ==
  ASSUME NEW T, NEW wire, NEW key, Given(wire), Carries(wire, T)
  PROVE  Dec(wire, key) \in T \cup {Failed}
<1>1. wire # Empty /\ wire.text \in T
  BY DEF Given, Carries
<1> QED
  BY <1>1 DEF Dec, DecryptSymmetric

LEMMA InsertTyped ==
  ASSUME NEW name \in Names, NEW wire, NEW key, Carries(wire, Seq(Chars))
  PROVE  InsertIf(name, wire, key) \in Seq(EntryType)
<1>1. CASE Given(wire)
  <2>1. Entry(name, Dec(wire, key)) \in EntryType
    BY <1>1, DecTyped DEF Entry, EntryType
  <2>2. InsertIf(name, wire, key) = <<Entry(name, Dec(wire, key))>>
    BY <1>1 DEF InsertIf
  <2> QED
    BY <2>1, <2>2, SingleTyped
<1>2. CASE ~ Given(wire)
  BY <1>2, EmptySeq DEF InsertIf
<1> QED
  BY <1>1, <1>2

LEMMA TypedTyped ==
  ASSUME NEW c, WellTyped(c), NEW key
  PROVE  TypedEntries(c.typed, key) \in Seq(EntryType)
<1> DEFINE ss == [i \in DOMAIN c.typed |-> InsertIf(c.typed[i].key, c.typed[i].wire, key)]
           n == Len(c.typed)
<1>1. n \in Nat /\ DOMAIN c.typed = 1..n
  BY LenProperties DEF WellTyped
<1>2. \A i \in 1..n : ss[i] \in Seq(EntryType)
  <2> TAKE i \in 1..n
  <2>1. c.typed[i] \in ToSet(c.typed)
    BY <1>1 DEF ToSet
  <2>2. c.typed[i].key \in Names /\ Carries(c.typed[i].wire, Seq(Chars))
    BY <2>1 DEF WellTyped
  <2>3. ss[i] = InsertIf(c.typed[i].key, c.typed[i].wire, key)
    BY <1>1
  <2> QED
    BY <2>2, <2>3, InsertTyped
<1>3. ss = [i \in 1..n |-> ss[i]]
  BY <1>1
<1>4. TypedEntries(c.typed, key) = FlattenSeq(ss)
  BY DEF TypedEntries
<1> HIDE DEF ss, n
<1> QED
  BY <1>1, <1>2, <1>3, <1>4, FlatIs, FlatTyped

LEMMA TextsTyped ==
  ASSUME NEW c, WellTyped(c), NEW key
  PROVE  Texts(c.uris, key) \in Seq(Seq(Chars) \cup {Failed})
<1> DEFINE T == Seq(Chars) \cup {Failed}
           ss == [i \in DOMAIN c.uris |->
                    IF Given(c.uris[i]) THEN <<Dec(c.uris[i], key)>> ELSE <<>>]
           n == Len(c.uris)
<1>1. n \in Nat /\ DOMAIN c.uris = 1..n
  BY LenProperties DEF WellTyped
<1>2. \A i \in 1..n : ss[i] \in Seq(T)
  <2> TAKE i \in 1..n
  <2>1. c.uris[i] \in ToSet(c.uris)
    BY <1>1 DEF ToSet
  <2>2. Carries(c.uris[i], Seq(Chars))
    BY <2>1 DEF WellTyped
  <2>3. ss[i] = IF Given(c.uris[i]) THEN <<Dec(c.uris[i], key)>> ELSE <<>>
    BY <1>1
  <2>4. Given(c.uris[i]) => Dec(c.uris[i], key) \in T
    BY <2>2, DecTyped
  <2> HIDE DEF T, ss
  <2> QED
    BY <2>3, <2>4, SingleTyped, EmptySeq
<1>3. ss = [i \in 1..n |-> ss[i]]
  BY <1>1
<1>4. Texts(c.uris, key) = FlattenSeq(ss)
  BY DEF Texts
<1> HIDE DEF ss, n
<1> QED
  BY <1>1, <1>2, <1>3, <1>4, FlatIs, FlatTyped

LEMMA JoinedTyped ==
  ASSUME NEW texts \in Seq(Seq(Chars) \cup {Failed})
  PROVE  Joined(texts) \in Seq(Chars) \cup {Failed}
<1> SUFFICES ASSUME Failed \notin ToSet(texts) PROVE Joined(texts) \in Seq(Chars)
  BY DEF Joined
<1> DEFINE ss == [i \in DOMAIN texts |->
                    IF i = 1 THEN texts[i] ELSE <<"nl">> \o texts[i]]
           n == Len(texts)
<1>1. n \in Nat /\ DOMAIN texts = 1..n
  BY LenProperties
<1>2. \A i \in 1..n : ss[i] \in Seq(Chars)
  <2> TAKE i \in 1..n
  <2>1. texts[i] \in ToSet(texts) /\ texts[i] \in Seq(Chars) \cup {Failed}
    BY <1>1, ElementOfSeq DEF ToSet
  <2>2. <<"nl">> \in Seq(Chars)
    BY SingleTyped DEF Chars
  <2>3. <<"nl">> \o texts[i] \in Seq(Chars)
    BY <2>1, <2>2, ConcatProperties
  <2> QED
    BY <1>1, <2>1, <2>3
<1>3. ss = [i \in 1..n |-> ss[i]]
  BY <1>1
<1>4. Joined(texts) = FlattenSeq(ss)
  BY DEF Joined
<1> HIDE DEF ss, n
<1> QED
  BY <1>1, <1>2, <1>3, <1>4, FlatIs, FlatTyped

LEMMA UriTyped ==
  ASSUME NEW c, WellTyped(c), NEW key
  PROVE  UriEntries(c.uris, key) \in Seq(EntryType)
<1> DEFINE texts == Texts(c.uris, key)
           T == Seq(Chars) \cup {Failed}
<1>1. texts \in Seq(T)
  BY TextsTyped
<1> HIDE DEF texts
<1>2. Len(texts) \in Nat
  BY <1>1, LenProperties
<1>3. CASE Len(texts) = 0
  BY <1>3, EmptySeq DEF UriEntries, texts
<1>4. CASE Len(texts) # 0
  <2>1. texts[1] \in T /\ Joined(texts) \in T
    <3>1. 1 \in 1..Len(texts)
      BY <1>2, <1>4
    <3>2. texts[1] \in T
      <4> HIDE DEF T
      <4> QED
        BY <1>1, <3>1, ElementOfSeq
    <3> QED
      BY <1>1, <3>2, JoinedTyped
  <2>2. Entry("uri", texts[1]) \in EntryType /\ Entry("uris", Joined(texts)) \in EntryType
    BY <2>1, NameOrderAssumption DEF Entry, EntryType
  <2>3. UriEntries(c.uris, key) = IF Len(texts) = 1 THEN <<Entry("uri", texts[1])>>
                                  ELSE <<Entry("uri", texts[1]), Entry("uris", Joined(texts))>>
    BY <1>4 DEF UriEntries, texts
  <2> HIDE DEF T
  <2>4. <<Entry("uri", texts[1])>> \in Seq(EntryType)
    BY <2>2, SingleTyped
  <2>5. <<Entry("uri", texts[1]), Entry("uris", Joined(texts))>> \in Seq(EntryType)
    BY <2>2
  <2> QED
    BY <2>3, <2>4, <2>5
<1> QED
  BY <1>3, <1>4

LEMMA CustomEntryTyped ==
  ASSUME NEW c, WellTyped(c), NEW f \in ToSet(c.custom), NEW key
  PROVE  CustomEntry(f, key) \in Seq(EntryType)
<1> DEFINE name == Dec(f.name, key)
           label == IF name = Failed THEN Failed ELSE name[1]
<1>1. /\ Carries(f.name, {<<>>} \cup {<<m>> : m \in Names})
      /\ Carries(f.wire, Seq(Chars))
  BY DEF WellTyped
<1>2. CASE ~ Given(f.name) \/ ~ Given(f.wire) \/ name = <<>>
  BY <1>2, EmptySeq DEF CustomEntry
<1>3. CASE Given(f.name) /\ Given(f.wire) /\ name # <<>>
  <2>1. name \in {<<>>} \cup {<<m>> : m \in Names} \cup {Failed}
    BY <1>1, <1>3, DecTyped
  <2>2. label \in Names \cup {Failed}
    <3> HIDE DEF name
    <3>1. CASE name = Failed
      BY <3>1
    <3>2. CASE name # Failed
      <4>1. PICK m \in Names : name = <<m>>
        BY <1>3, <2>1, <3>2
      <4> QED
        BY <3>2, <4>1
    <3> QED
      BY <3>1, <3>2
  <2>3. Dec(f.wire, key) \in Seq(Chars) \cup {Failed}
    BY <1>1, <1>3, DecTyped
  <2>4. Entry(label, Dec(f.wire, key)) \in EntryType
    BY <2>2, <2>3 DEF Entry, EntryType
  <2>5. CustomEntry(f, key) = <<Entry(label, Dec(f.wire, key))>>
    BY <1>3 DEF CustomEntry
  <2> HIDE DEF label
  <2> QED
    BY <2>4, <2>5, SingleTyped
<1> QED
  BY <1>2, <1>3

LEMMA CustomTyped ==
  ASSUME NEW c, WellTyped(c), NEW key
  PROVE  CustomEntries(c.custom, key) \in Seq(EntryType)
<1> DEFINE ss == [i \in DOMAIN c.custom |-> CustomEntry(c.custom[i], key)]
           n == Len(c.custom)
<1>1. n \in Nat /\ DOMAIN c.custom = 1..n
  BY LenProperties DEF WellTyped
<1>2. \A i \in 1..n : ss[i] \in Seq(EntryType)
  <2> TAKE i \in 1..n
  <2>1. c.custom[i] \in ToSet(c.custom) /\ ss[i] = CustomEntry(c.custom[i], key)
    BY <1>1 DEF ToSet
  <2> QED
    BY <2>1, CustomEntryTyped
<1>3. ss = [i \in 1..n |-> ss[i]]
  BY <1>1
<1>4. CustomEntries(c.custom, key) = FlattenSeq(ss)
  BY DEF CustomEntries
<1> HIDE DEF ss, n
<1> QED
  BY <1>1, <1>2, <1>3, <1>4, FlatIs, FlatTyped

LEMMA EntriesTyped ==
  ASSUME NEW c, WellTyped(c)
  PROVE  /\ BuiltIn(c) \in Seq(EntryType)
         /\ InsertIf("notes", c.notes, ItemKey(c)) \in Seq(EntryType)
         /\ CustomEntries(c.custom, ItemKey(c)) \in Seq(EntryType)
         /\ Entries(c) \in Seq(EntryType)
<1>1. BuiltIn(c) \in Seq(EntryType)
  BY TypedTyped, UriTyped, ConcatProperties DEF BuiltIn
<1>2. InsertIf("notes", c.notes, ItemKey(c)) \in Seq(EntryType)
  <2>1. "notes" \in Names /\ Carries(c.notes, Seq(Chars))
    BY NameOrderAssumption DEF WellTyped
  <2> QED
    BY <2>1, InsertTyped
<1>3. CustomEntries(c.custom, ItemKey(c)) \in Seq(EntryType)
  BY CustomTyped
<1>4. BuiltIn(c) \o InsertIf("notes", c.notes, ItemKey(c)) \in Seq(EntryType)
  BY <1>1, <1>2, ConcatProperties
<1>5. Entries(c) \in Seq(EntryType)
  BY <1>3, <1>4, ConcatProperties DEF Entries
<1> QED
  BY <1>1, <1>2, <1>3, <1>5

-----------------------------------------------------------------------------
(* The bag: the last insert of a name wins, so a custom field hides the    *)
(* notes and both hide the fields of the cipher's type.                    *)
LEMMA LatestIs ==
  ASSUME NEW list, NEW name, NEW i \in DOMAIN list, list[i].key = name,
         DOMAIN list \subseteq Nat,
         \A j \in DOMAIN list : list[j].key = name => j <= i
  PROVE  Latest(list, name) = list[i].text
<1> DEFINE under == {j \in DOMAIN list : list[j].key = name}
           last == CHOOSE k \in under : \A j \in under : j <= k
<1>1. i \in under /\ \A j \in under : j <= i
  OBVIOUS
<1>2. last \in under /\ \A j \in under : j <= last
  BY <1>1
<1>3. last = i
  <2>1. last <= i /\ i <= last /\ last \in Nat /\ i \in Nat
    BY <1>1, <1>2
  <2> QED
    BY <2>1
<1> QED
  BY <1>3 DEF Latest

LEMMA LatestExists ==
  ASSUME NEW S, NEW list \in Seq(S), NEW name \in KeysOf(list)
  PROVE  \E i \in DOMAIN list : /\ list[i].key = name
                                /\ \A j \in DOMAIN list : list[j].key = name => j <= i
                                /\ Latest(list, name) = list[i].text
<1> DEFINE under == {j \in DOMAIN list : list[j].key = name}
<1>1. Len(list) \in Nat /\ DOMAIN list = 1..Len(list)
  BY LenProperties
<1>2. under \in SUBSET (0..Len(list)) /\ under # {}
  <2>1. under \in SUBSET (0..Len(list))
    BY <1>1
  <2>2. PICK e \in ToSet(list) : e.key = name
    BY DEF KeysOf
  <2>3. PICK i \in DOMAIN list : e = list[i]
    BY DEF ToSet
  <2> QED
    BY <2>1, <2>2, <2>3
<1>3. PICK i \in under : \A j \in under : j <= i
  <2> HIDE DEF under
  <2> QED
    BY <1>1, <1>2, MostExists
<1>4. /\ i \in DOMAIN list /\ list[i].key = name
      /\ \A j \in DOMAIN list : list[j].key = name => j <= i
  BY <1>3
<1>5. DOMAIN list \subseteq Nat
  BY <1>1
<1> QED
  BY <1>4, <1>5, LatestIs

LEMMA KeysOfConcat ==
  ASSUME NEW S, NEW s \in Seq(S), NEW t \in Seq(S)
  PROVE  KeysOf(s \o t) = KeysOf(s) \cup KeysOf(t)
<1>1. ToSet(s \o t) = ToSet(s) \cup ToSet(t)
  BY ConcatMembers
<1> QED
  BY <1>1 DEF KeysOf

LEMMA LatestConcat ==
  ASSUME NEW S, NEW s \in Seq(S), NEW t \in Seq(S), NEW name
  PROVE  /\ name \in KeysOf(t) => Latest(s \o t, name) = Latest(t, name)
         /\ name \in KeysOf(s) \ KeysOf(t) => Latest(s \o t, name) = Latest(s, name)
<1> DEFINE r == s \o t
           m == Len(s)
           n == Len(t)
<1>1. m \in Nat /\ n \in Nat /\ DOMAIN s = 1..m /\ DOMAIN t = 1..n
  BY LenProperties
<1>2. r \in Seq(S) /\ Len(r) = m + n
  BY ConcatProperties
<1>3. \A i \in 1..(m + n) : r[i] = IF i <= m THEN s[i] ELSE t[i - m]
  BY ConcatProperties
<1> HIDE DEF r, m, n
<1>4. DOMAIN r = 1..(m + n) /\ DOMAIN r \subseteq Nat
  <2>1. DOMAIN r = 1..(m + n)
    BY <1>2, LenProperties
  <2> QED
    BY <1>1, <2>1
<1>5. ASSUME name \in KeysOf(t) PROVE Latest(r, name) = Latest(t, name)
  <2>1. PICK i \in DOMAIN t : /\ t[i].key = name
                              /\ \A j \in DOMAIN t : t[j].key = name => j <= i
                              /\ Latest(t, name) = t[i].text
    BY <1>5, LatestExists
  <2>2. i + m \in DOMAIN r /\ ~ (i + m <= m) /\ i + m - m = i
    BY <1>1, <1>4
  <2>3. r[i + m] = t[i]
    <3> DEFINE k == i + m
    <3>1. k \in 1..(m + n) /\ ~ (k <= m) /\ k - m = i
      BY <1>1, <1>4, <2>2
    <3> HIDE DEF k
    <3>2. r[k] = IF k <= m THEN s[k] ELSE t[k - m]
      BY <1>3, <3>1
    <3>3. r[k] = t[i]
      BY <3>1, <3>2
    <3> QED
      BY <3>3 DEF k
  <2>4. ASSUME NEW j \in DOMAIN r, r[j].key = name PROVE j <= i + m
    <3>1. CASE j <= m
      BY <1>1, <1>4, <3>1
    <3>2. CASE ~ (j <= m)
      <4>1. j - m \in DOMAIN t /\ r[j] = t[j - m]
        BY <1>1, <1>3, <1>4, <3>2
      <4>2. j - m <= i
        BY <2>1, <2>4, <4>1
      <4> QED
        BY <1>1, <1>4, <4>2
    <3> QED
      BY <3>1, <3>2
  <2>5. Latest(r, name) = r[i + m].text
    BY <1>4, <2>1, <2>2, <2>3, <2>4, LatestIs
  <2> QED
    BY <2>1, <2>3, <2>5
<1>6. ASSUME name \in KeysOf(s), name \notin KeysOf(t)
      PROVE  Latest(r, name) = Latest(s, name)
  <2>1. PICK i \in DOMAIN s : /\ s[i].key = name
                              /\ \A j \in DOMAIN s : s[j].key = name => j <= i
                              /\ Latest(s, name) = s[i].text
    BY <1>6, LatestExists
  <2>2. i \in DOMAIN r /\ r[i] = s[i]
    BY <1>1, <1>3, <1>4
  <2>3. ASSUME NEW j \in DOMAIN r, r[j].key = name PROVE j <= i
    <3>1. CASE j <= m
      <4>1. j \in DOMAIN s /\ r[j] = s[j]
        BY <1>1, <1>3, <1>4, <3>1
      <4> QED
        BY <2>1, <2>3, <4>1
    <3>2. CASE ~ (j <= m)
      <4>1. j - m \in DOMAIN t /\ r[j] = t[j - m]
        BY <1>1, <1>3, <1>4, <3>2
      <4>2. name \in KeysOf(t)
        BY <2>3, <4>1 DEF KeysOf, ToSet
      <4> QED
        BY <1>6, <4>2
    <3> QED
      BY <3>1, <3>2
  <2>4. Latest(r, name) = r[i].text
    BY <1>4, <2>1, <2>2, <2>3, LatestIs
  <2> QED
    BY <2>1, <2>2, <2>4
<1> QED
  BY <1>5, <1>6 DEF r

LEMMA BagHolds ==
  ASSUME NEW c, WellTyped(c), NEW name \in NamesOf(c)
  PROVE  Bag(c)[name] = Holds(c, name)
<1> DEFINE builtIn == BuiltIn(c)
           notes == InsertIf("notes", c.notes, ItemKey(c))
           custom == CustomEntries(c.custom, ItemKey(c))
           first == builtIn \o notes
<1>1. builtIn \in Seq(EntryType) /\ notes \in Seq(EntryType) /\ custom \in Seq(EntryType)
  BY EntriesTyped
<1>2. Entries(c) = first \o custom
  BY DEF Entries
<1>3. Bag(c)[name] = Latest(Entries(c), name)
  BY DEF Bag, NamesOf
<1>4. Holds(c, name) =
        IF name \in KeysOf(custom) THEN Latest(custom, name)
        ELSE IF name = "notes" /\ Given(c.notes) THEN Dec(c.notes, ItemKey(c))
        ELSE Latest(builtIn, name)
  BY DEF Holds
<1>5. /\ Given(c.notes) => notes = <<Entry("notes", Dec(c.notes, ItemKey(c)))>>
      /\ ~ Given(c.notes) => notes = <<>>
  BY DEF InsertIf
<1>6. KeysOf(notes) = IF Given(c.notes) THEN {"notes"} ELSE {}
  BY <1>5 DEF KeysOf, ToSet, Entry
<1>7. Given(c.notes) => Latest(notes, "notes") = Dec(c.notes, ItemKey(c))
  <2> SUFFICES ASSUME Given(c.notes) PROVE Latest(notes, "notes") = Dec(c.notes, ItemKey(c))
    OBVIOUS
  <2>1. /\ DOMAIN notes = {1} /\ notes[1].key = "notes"
        /\ notes[1].text = Dec(c.notes, ItemKey(c))
    BY <1>5 DEF Entry
  <2> HIDE DEF notes
  <2>2. DOMAIN notes \subseteq Nat /\ \A j \in DOMAIN notes : j <= 1
    BY <2>1
  <2> QED
    BY <2>1, <2>2, LatestIs
<1>0. name \in KeysOf(Entries(c))
  BY DEF NamesOf
<1> HIDE DEF builtIn, notes, custom
<1>8. first \in Seq(EntryType) /\ KeysOf(first) = KeysOf(builtIn) \cup KeysOf(notes)
  BY <1>1, ConcatProperties, KeysOfConcat
<1>9. /\ name \in KeysOf(notes) => Latest(first, name) = Latest(notes, name)
      /\ name \in KeysOf(builtIn) \ KeysOf(notes) => Latest(first, name) = Latest(builtIn, name)
  BY <1>1, LatestConcat
<1> HIDE DEF first
<1>10. KeysOf(Entries(c)) = KeysOf(first) \cup KeysOf(custom)
  BY <1>1, <1>2, <1>8, KeysOfConcat
<1>11. /\ name \in KeysOf(custom) => Latest(Entries(c), name) = Latest(custom, name)
       /\ name \in KeysOf(first) \ KeysOf(custom) => Latest(Entries(c), name) = Latest(first, name)
  BY <1>1, <1>2, <1>8, LatestConcat
<1>12. CASE name \in KeysOf(custom)
  BY <1>3, <1>4, <1>11, <1>12
<1>13. CASE name \notin KeysOf(custom) /\ name \in KeysOf(notes)
  <2>1. name = "notes" /\ Given(c.notes)
    BY <1>6, <1>13
  <2> QED
    BY <1>3, <1>4, <1>7, <1>8, <1>9, <1>11, <1>13, <2>1
<1>14. CASE name \notin KeysOf(custom) /\ name \notin KeysOf(notes)
  <2>1. ~ (name = "notes" /\ Given(c.notes))
    BY <1>6, <1>14
  <2> QED
    BY <1>0, <1>3, <1>4, <1>8, <1>9, <1>10, <1>11, <1>14, <2>1
<1> QED
  BY <1>12, <1>13, <1>14

(* A cipher that maps: every name and every text of its bag decrypted.     *)
LEMMA BagTyped ==
  ASSUME NEW c, WellTyped(c), Mapped(c)
  PROVE  /\ NamesOf(c) \subseteq Names /\ DOMAIN Bag(c) = NamesOf(c)
         /\ \A name \in NamesOf(c) : /\ Bag(c)[name] \in Seq(Chars)
                                     /\ Bag(c)[name] # Failed
                                     /\ \E e \in ToSet(Entries(c)) :
                                          e.key = name /\ Bag(c)[name] = e.text
<1>1. Entries(c) \in Seq(EntryType)
  BY EntriesTyped
<1>2. ASSUME NEW e \in ToSet(Entries(c))
      PROVE  e.key \in Names /\ e.text \in Seq(Chars) /\ e.text # Failed
  <2>1. PICK i \in 1..Len(Entries(c)) : e = Entries(c)[i]
    BY <1>1, LenProperties DEF ToSet
  <2>2. e \in EntryType
    BY <1>1, <2>1, ElementOfSeq
  <2>3. e.key # Failed /\ e.text # Failed
    BY DEF Mapped
  <2> QED
    BY <2>2, <2>3 DEF EntryType
<1>3. DOMAIN Bag(c) = NamesOf(c)
  BY DEF Bag, NamesOf
<1>4. NamesOf(c) \subseteq Names
  BY <1>2 DEF NamesOf, KeysOf
<1>5. ASSUME NEW name \in NamesOf(c)
      PROVE  \E e \in ToSet(Entries(c)) : e.key = name /\ Bag(c)[name] = e.text
  <2>1. name \in KeysOf(Entries(c)) /\ Bag(c)[name] = Latest(Entries(c), name)
    BY DEF Bag, NamesOf
  <2>2. PICK i \in DOMAIN Entries(c) : /\ Entries(c)[i].key = name
                                       /\ Latest(Entries(c), name) = Entries(c)[i].text
    BY <1>1, <2>1, LatestExists
  <2>3. Entries(c)[i] \in ToSet(Entries(c))
    BY DEF ToSet
  <2> QED
    BY <2>1, <2>2, <2>3
<1> QED
  BY <1>2, <1>3, <1>4, <1>5

LEMMA NamesFinite ==
  ASSUME NEW c, WellTyped(c)
  PROVE  IsFiniteSet(NamesOf(c))
<1> DEFINE list == Entries(c)
           f == [i \in 1..Len(list) |-> list[i].key]
<1>1. list \in Seq(EntryType)
  BY EntriesTyped
<1> HIDE DEF list
<1>2. Len(list) \in Nat /\ DOMAIN list = 1..Len(list)
  BY <1>1, LenProperties
<1>3. KeysOf(list) = {list[i].key : i \in 1..Len(list)}
  BY <1>2 DEF KeysOf, ToSet
<1>4. f \in Surjection(1..Len(list), KeysOf(list))
  BY <1>3 DEF Surjection
<1>5. IsFiniteSet(1..Len(list))
  BY <1>2, FS_Interval
<1> HIDE DEF f
<1> QED
  BY <1>4, <1>5, FS_Surjection DEF list, NamesOf

-----------------------------------------------------------------------------
(* The fields of a bag, one per name, and those of a namespace.            *)
FieldType == [name : Names, value : Seq(Chars)]

LEMMA FieldsOfBag ==
  ASSUME NEW bag, DOMAIN bag \subseteq Names,
         \A name \in DOMAIN bag : bag[name] \in Seq(Chars)
  PROVE  /\ FieldsOf(bag) \in Seq(FieldType)
         /\ ToSet(FieldsOf(bag)) = {[name |-> n, value |-> bag[n]] : n \in DOMAIN bag}
         /\ Len(FieldsOf(bag)) = Cardinality(DOMAIN bag)
<1> DEFINE field(m) == [name |-> m, value |-> bag[m]]
           of(m) == IF m \in DOMAIN bag THEN <<field(m)>> ELSE <<>>
           n == Len(NameOrder)
           ss == [i \in DOMAIN NameOrder |-> of(NameOrder[i])]
           D == [i \in 1..n |-> {NameOrder[i]} \cap DOMAIN bag]
<1>1. n \in Nat /\ DOMAIN NameOrder = 1..n
  BY NameOrderAssumption
<1>2. \A m \in DOMAIN bag : field(m) \in FieldType
  BY DEF FieldType
<1>3. \A i \in 1..n : ss[i] = of(NameOrder[i])
  BY <1>1
<1>4. FieldsOf(bag) = FlattenSeq(ss) /\ ss = [i \in 1..n |-> ss[i]]
  BY <1>1 DEF FieldsOf
<1>5. \A m \in DOMAIN bag : \E i \in 1..n : m = NameOrder[i]
  BY <1>1 DEF Names
<1>6. D = [i \in 1..n |-> D[i]] /\ \A i \in 1..n : D[i] = {NameOrder[i]} \cap DOMAIN bag
  OBVIOUS
<1> HIDE DEF ss, n, field, D
<1>7. \A i \in 1..n : /\ ss[i] \in Seq(FieldType)
                      /\ ToSet(ss[i]) = {field(m) : m \in D[i]}
                      /\ IsFiniteSet(D[i]) /\ Len(ss[i]) = Cardinality(D[i])
  <2> TAKE i \in 1..n
  <2> DEFINE m == NameOrder[i]
  <2>1. CASE m \in DOMAIN bag
    <3>1. ss[i] = <<field(m)>> /\ D[i] = {m}
      BY <1>3, <1>6, <2>1
    <3>2. ss[i] \in Seq(FieldType) /\ Len(ss[i]) = 1 /\ ToSet(ss[i]) = {field(m)}
      BY <1>2, <2>1, <3>1, SingleTyped
    <3>3. IsFiniteSet({m}) /\ Cardinality({m}) = 1
      BY FS_Singleton
    <3> QED
      BY <3>1, <3>2, <3>3
  <2>2. CASE m \notin DOMAIN bag
    <3>1. ss[i] = <<>> /\ D[i] = {}
      BY <1>3, <1>6, <2>2
    <3>2. ss[i] \in Seq(FieldType) /\ Len(ss[i]) = 0 /\ ToSet(ss[i]) = {}
      BY <3>1, EmptySeq DEF ToSet
    <3> QED
      BY <3>1, <3>2, FS_EmptySet
  <2> QED
    BY <2>1, <2>2
<1>8. FieldsOf(bag) = Flat(ss, n)
  BY <1>1, <1>4, FlatIs
<1>9. Flat(ss, n) \in Seq(FieldType)
  BY <1>1, <1>7, FlatTyped
<1>10. ToSet(Flat(ss, n)) = UNION {ToSet(ss[i]) : i \in 1..n}
  BY <1>1, <1>7, FlatMembers
<1>11. UNION {ToSet(ss[i]) : i \in 1..n} = {field(m) : m \in DOMAIN bag}
  <2>1. ASSUME NEW i \in 1..n, NEW f \in ToSet(ss[i])
        PROVE  f \in {field(m) : m \in DOMAIN bag}
    <3>1. PICK m \in D[i] : f = field(m)
      BY <1>7, <2>1
    <3> QED
      BY <1>6, <3>1
  <2>2. ASSUME NEW m \in DOMAIN bag PROVE \E i \in 1..n : field(m) \in ToSet(ss[i])
    BY <1>5, <1>6, <1>7
  <2> QED
    BY <2>1, <2>2
<1>12. IsFiniteSet(Tagged(D, n)) /\ Len(Flat(ss, n)) = Cardinality(Tagged(D, n))
  <2>1. Counted(ss, FieldType, D, n)
    BY <1>7 DEF Counted
  <2> QED
    BY <1>1, <2>1, FlatCount
<1>13. Cardinality(DOMAIN bag) = Cardinality(Tagged(D, n))
  <2> DEFINE f == [p \in Tagged(D, n) |-> p[2]]
  <2>1. ASSUME NEW p \in Tagged(D, n)
        PROVE  /\ p[1] \in 1..n /\ p[2] = NameOrder[p[1]] /\ p[2] \in DOMAIN bag
               /\ p = <<p[1], p[2]>>
    <3>1. PICK i \in 1..n : p \in {i} \X D[i]
      BY DEF Tagged
    <3> QED
      BY <1>6, <3>1
  <2>2. f \in [Tagged(D, n) -> DOMAIN bag]
    BY <2>1
  <2>3. ASSUME NEW p \in Tagged(D, n), NEW q \in Tagged(D, n), f[p] = f[q] PROVE p = q
    <3>1. NameOrder[p[1]] = NameOrder[q[1]]
      BY <2>1, <2>3
    <3>2. p[1] = q[1]
      BY <1>1, <2>1, <3>1, NameOrderAssumption
    <3> QED
      BY <2>1, <3>1, <3>2
  <2>4. ASSUME NEW m \in DOMAIN bag PROVE \E p \in Tagged(D, n) : f[p] = m
    <3>1. PICK i \in 1..n : m = NameOrder[i]
      BY <1>5
    <3>2. <<i, m>> \in {i} \X D[i]
      BY <1>6, <3>1
    <3>3. <<i, m>> \in Tagged(D, n)
      BY <3>2 DEF Tagged
    <3> QED
      BY <3>3
  <2> HIDE DEF f
  <2>5. f \in Bijection(Tagged(D, n), DOMAIN bag)
    BY <2>2, <2>3, <2>4 DEF Bijection, Injection, Surjection, IsInjective
  <2> QED
    BY <1>12, <2>5, FS_Bijection DEF ExistsBijection
<1> QED
  BY <1>8, <1>9, <1>10, <1>11, <1>12, <1>13 DEF field

CiphersTyped == ciphers \in Seq({c \in ToSet(ciphers) : WellTyped(c)})

LEMMA SecretsAre ==
  ASSUME CiphersTyped
  PROVE  /\ Secrets \in Seq(FieldType)
         /\ ToSet(Secrets) = {[name |-> p[2], value |-> Bag(ciphers[p[1]])[p[2]]] : p \in Pairs}
         /\ Len(Secrets) = Cardinality(Pairs)
<1> DEFINE n == Len(ciphers)
           of(c) == IF Mapped(c) THEN FieldsOf(Bag(c)) ELSE <<>>
           ss == [i \in DOMAIN ciphers |-> of(ciphers[i])]
           D == [i \in 1..n |-> IF Mapped(ciphers[i]) THEN NamesOf(ciphers[i]) ELSE {}]
           field(i, m) == [name |-> m, value |-> Bag(ciphers[i])[m]]
<1>1. n \in Nat /\ DOMAIN ciphers = 1..n
  BY LenProperties DEF CiphersTyped
<1>2. \A i \in 1..n : WellTyped(ciphers[i])
  BY ElementOfSeq DEF CiphersTyped
<1>3. Secrets = FlattenSeq(ss) /\ ss = [i \in 1..n |-> ss[i]]
  BY <1>1 DEF Secrets
<1>4. \A i \in 1..n : ss[i] = of(ciphers[i])
  BY <1>1
<1>5. \A i \in 1..n : D[i] = IF Mapped(ciphers[i]) THEN NamesOf(ciphers[i]) ELSE {}
  OBVIOUS
<1> HIDE DEF n, ss, D, field
<1>6. \A i \in 1..n : /\ ss[i] \in Seq(FieldType)
                      /\ ToSet(ss[i]) = {field(i, m) : m \in D[i]}
                      /\ IsFiniteSet(D[i]) /\ Len(ss[i]) = Cardinality(D[i])
  <2> TAKE i \in 1..n
  <2>1. CASE Mapped(ciphers[i])
    <3>1. ss[i] = FieldsOf(Bag(ciphers[i])) /\ D[i] = NamesOf(ciphers[i])
      BY <1>4, <1>5, <2>1
    <3>2. /\ DOMAIN Bag(ciphers[i]) = NamesOf(ciphers[i])
          /\ NamesOf(ciphers[i]) \subseteq Names
          /\ \A m \in NamesOf(ciphers[i]) : Bag(ciphers[i])[m] \in Seq(Chars)
      BY <1>2, <2>1, BagTyped
    <3>3. /\ ss[i] \in Seq(FieldType)
          /\ ToSet(ss[i]) = {[name |-> m, value |-> Bag(ciphers[i])[m]] : m \in D[i]}
          /\ Len(ss[i]) = Cardinality(D[i])
      BY <3>1, <3>2, FieldsOfBag
    <3>4. IsFiniteSet(D[i])
      BY <1>2, <3>1, NamesFinite
    <3> QED
      BY <3>3, <3>4 DEF field
  <2>2. CASE ~ Mapped(ciphers[i])
    <3>1. ss[i] = <<>> /\ D[i] = {}
      BY <1>4, <1>5, <2>2
    <3>2. ss[i] \in Seq(FieldType) /\ Len(ss[i]) = 0 /\ ToSet(ss[i]) = {}
      BY <3>1, EmptySeq DEF ToSet
    <3> QED
      BY <3>1, <3>2, FS_EmptySet
  <2> QED
    BY <2>1, <2>2
<1>7. Secrets = Flat(ss, n)
  BY <1>1, <1>3, FlatIs
<1>8. Flat(ss, n) \in Seq(FieldType)
  BY <1>1, <1>6, FlatTyped
<1>9. ToSet(Flat(ss, n)) = UNION {ToSet(ss[i]) : i \in 1..n}
  BY <1>1, <1>6, FlatMembers
<1>10. Len(Flat(ss, n)) = Cardinality(Tagged(D, n))
  <2>1. Counted(ss, FieldType, D, n)
    BY <1>6 DEF Counted
  <2> QED
    BY <1>1, <2>1, FlatCount
<1>11. Tagged(D, n) = Pairs
  <2>1. ASSUME NEW p \in Tagged(D, n) PROVE p \in Pairs
    <3>1. PICK i \in 1..n : p \in {i} \X D[i]
      BY DEF Tagged
    <3>2. Mapped(ciphers[i]) /\ D[i] = NamesOf(ciphers[i])
      BY <1>5, <3>1
    <3> QED
      BY <1>1, <3>1, <3>2 DEF Pairs
  <2>2. ASSUME NEW p \in Pairs PROVE p \in Tagged(D, n)
    <3>1. PICK i \in 1..n : Mapped(ciphers[i]) /\ p \in {i} \X NamesOf(ciphers[i])
      BY <1>1 DEF Pairs
    <3>2. D[i] = NamesOf(ciphers[i])
      BY <1>5, <3>1
    <3> QED
      BY <3>1, <3>2 DEF Tagged
  <2> QED
    BY <2>1, <2>2
<1>12. UNION {ToSet(ss[i]) : i \in 1..n} = {field(p[1], p[2]) : p \in Tagged(D, n)}
  <2>1. ASSUME NEW i \in 1..n, NEW f \in ToSet(ss[i])
        PROVE  \E p \in Tagged(D, n) : f = field(p[1], p[2])
    <3>1. PICK m \in D[i] : f = field(i, m)
      BY <1>6
    <3>2. <<i, m>> \in Tagged(D, n) /\ <<i, m>>[1] = i /\ <<i, m>>[2] = m
      BY DEF Tagged
    <3> QED
      BY <3>1, <3>2
  <2>2. ASSUME NEW p \in Tagged(D, n)
        PROVE  \E i \in 1..n : field(p[1], p[2]) \in ToSet(ss[i])
    <3>1. PICK i \in 1..n : p \in {i} \X D[i]
      BY DEF Tagged
    <3>2. p[1] = i /\ p[2] \in D[i]
      BY <3>1
    <3> QED
      BY <1>6, <3>2
  <2> QED
    BY <2>1, <2>2
<1> QED
  BY <1>7, <1>8, <1>9, <1>10, <1>11, <1>12 DEF field

-----------------------------------------------------------------------------
(* escape_env_value, one character more at a time.                         *)
LEMMA ReplaceEmpty ==
  ASSUME NEW char, NEW with
  PROVE  Replace(<<>>, char, with) = <<>>
<1> DEFINE ss == [i \in DOMAIN <<>> |-> IF <<>>[i] = char THEN with ELSE <<(<<>>)[i]>>]
<1>1. Replace(<<>>, char, with) = FlattenSeq(ss)
  BY DEF Replace
<1>2. ss = [i \in 1..0 |-> ss[i]]
  OBVIOUS
<1> HIDE DEF ss
<1> QED
  BY <1>1, <1>2, FlatIs, FlatZero

LEMMA ReplaceAppend ==
  ASSUME NEW text \in Seq(Chars), NEW x \in Chars, NEW char, NEW with \in Seq(Chars)
  PROVE  /\ Replace(text, char, with) \in Seq(Chars)
         /\ Replace(Append(text, x), char, with)
              = Replace(text, char, with) \o (IF x = char THEN with ELSE <<x>>)
<1> DEFINE of(y) == IF y = char THEN with ELSE <<y>>
           n == Len(text)
           more == Append(text, x)
           ss == [i \in DOMAIN text |-> of(text[i])]
           tt == [i \in DOMAIN more |-> of(more[i])]
<1>1. n \in Nat /\ DOMAIN text = 1..n /\ \A i \in 1..n : text[i] \in Chars
  BY LenProperties, ElementOfSeq
<1>2. /\ more \in Seq(Chars) /\ Len(more) = n + 1
      /\ \A i \in 1..n : more[i] = text[i]
      /\ more[n + 1] = x
  BY AppendProperties
<1>3. \A y \in Chars : of(y) \in Seq(Chars)
  BY SingleTyped
<1>4. Replace(text, char, with) = FlattenSeq(ss)
  BY DEF Replace
<1>5. Replace(more, char, with) = FlattenSeq(tt)
  BY DEF Replace
<1> HIDE DEF more, n, of
<1>6. DOMAIN more = 1..(n + 1)
  BY <1>2, LenProperties
<1>7. ss = [i \in 1..n |-> ss[i]] /\ tt = [i \in 1..(n + 1) |-> tt[i]]
  BY <1>1, <1>6
<1>8. \A i \in 1..n : ss[i] = of(text[i]) /\ ss[i] \in Seq(Chars)
  BY <1>1, <1>3
<1>9. \A i \in 1..n : tt[i] = of(text[i])
  <2> TAKE i \in 1..n
  <2>1. i \in 1..(n + 1)
    BY <1>1
  <2> QED
    BY <1>2, <1>6, <2>1
<1>10. tt[n + 1] = of(x)
  <2>1. n + 1 \in 1..(n + 1)
    BY <1>1
  <2> QED
    BY <1>2, <1>6, <2>1
<1> HIDE DEF ss, tt
<1>11. \A i \in 1..(n + 1) : tt[i] \in Seq(Chars)
  <2> TAKE i \in 1..(n + 1)
  <2>1. i \in 1..n \/ i = n + 1
    BY <1>1
  <2> QED
    BY <1>3, <1>8, <1>9, <1>10, <2>1
<1>12. Flat(tt, n + 1) = Flat(tt, n) \o tt[n + 1]
  BY <1>1, <1>11, FlatStep
<1>13. Flat(tt, n) = Flat(ss, n)
  BY <1>1, <1>8, <1>9, FlatSame
<1>14. FlattenSeq(ss) = Flat(ss, n)
  BY <1>1, <1>7, FlatIs
<1>15. FlattenSeq(tt) = Flat(tt, n + 1)
  <2>1. n + 1 \in Nat
    BY <1>1
  <2> QED
    BY <1>7, <2>1, FlatIs
<1>16. Flat(ss, n) \in Seq(Chars)
  BY <1>1, <1>8, FlatTyped
<1> QED
  BY <1>4, <1>5, <1>10, <1>12, <1>13, <1>14, <1>15, <1>16 DEF more, of

LEMMA ReplaceOther ==
  ASSUME NEW text \in Seq(Chars), NEW x \in Chars, NEW char, NEW with \in Seq(Chars),
         x # char
  PROVE  Replace(Append(text, x), char, with) = Append(Replace(text, char, with), x)
<1>1. Replace(text, char, with) \in Seq(Chars)
  BY ReplaceAppend
<1>2. Replace(Append(text, x), char, with) = Replace(text, char, with) \o <<x>>
  BY ReplaceAppend
<1> QED
  BY <1>1, <1>2, AppendIsConcat

LEMMA ReplaceByTwo ==
  ASSUME NEW text \in Seq(Chars), NEW x \in Chars, NEW a \in Chars, NEW b \in Chars
  PROVE  Replace(Append(text, x), x, <<a, b>>)
           = Append(Append(Replace(text, x, <<a, b>>), a), b)
<1> DEFINE r == Replace(text, x, <<a, b>>)
<1>1. <<a, b>> \in Seq(Chars)
  OBVIOUS
<1>2. r \in Seq(Chars) /\ Replace(Append(text, x), x, <<a, b>>) = r \o <<a, b>>
  BY <1>1, ReplaceAppend
<1> HIDE DEF r
<1>3. <<a, b>> = <<a>> \o <<b>>
  BY PairIs
<1>4. r \o (<<a>> \o <<b>>) = (r \o <<a>>) \o <<b>>
  BY <1>2, SingleTyped, ConcatAssociative
<1>5. Append(r, a) = r \o <<a>> /\ Append(r, a) \in Seq(Chars)
  BY <1>2, AppendIsConcat, AppendProperties
<1>6. Append(Append(r, a), b) = Append(r, a) \o <<b>>
  BY <1>5, AppendIsConcat
<1> QED
  BY <1>2, <1>3, <1>4, <1>5, <1>6 DEF r

LEMMA EscapedAppend ==
  ASSUME NEW text \in Seq(Chars), NEW x \in Chars
  PROVE  /\ Escaped(text) \in Seq(Chars)
         /\ x = "bs" => Escaped(Append(text, x)) = Append(Append(Escaped(text), "bs"), "bs")
         /\ x = "nl" => Escaped(Append(text, x)) = Append(Append(Escaped(text), "bs"), "n")
         /\ x \notin {"bs", "nl"} => Escaped(Append(text, x)) = Append(Escaped(text), x)
<1> DEFINE r == Replace(text, "bs", <<"bs", "bs">>)
<1>0. "bs" \in Chars /\ "nl" \in Chars /\ "n" \in Chars
  BY DEF Chars
<1>1. <<"bs", "bs">> \in Seq(Chars) /\ <<"bs", "n">> \in Seq(Chars)
  BY <1>0
<1>2. r \in Seq(Chars)
  BY <1>1, ReplaceAppend
<1>3. Escaped(text) = Replace(r, "nl", <<"bs", "n">>)
  BY DEF Escaped
<1>4. x = "bs" => Replace(Append(text, x), "bs", <<"bs", "bs">>) = Append(Append(r, "bs"), "bs")
  BY <1>0, ReplaceByTwo
<1>5. x # "bs" => Replace(Append(text, x), "bs", <<"bs", "bs">>) = Append(r, x)
  BY <1>1, ReplaceOther
<1>6. Escaped(Append(text, x))
        = Replace(Replace(Append(text, x), "bs", <<"bs", "bs">>), "nl", <<"bs", "n">>)
  BY DEF Escaped
<1> HIDE DEF r
<1>7. Escaped(text) \in Seq(Chars)
  <2>1. Replace(r, "nl", <<"bs", "n">>) \in Seq(Chars)
    <3> DEFINE with == <<"bs", "n">>
    <3>1. with \in Seq(Chars)
      BY <1>1
    <3> HIDE DEF with
    <3>2. Replace(r, "nl", with) \in Seq(Chars)
      BY <1>0, <1>2, <3>1, ReplaceAppend
    <3> QED
      BY <3>2 DEF with
  <2> QED
    BY <1>3, <2>1
<1>11. ASSUME NEW s \in Seq(Chars), NEW y \in Chars, y # "nl"
      PROVE  Replace(Append(s, y), "nl", <<"bs", "n">>)
               = Append(Replace(s, "nl", <<"bs", "n">>), y)
  <2> DEFINE with == <<"bs", "n">>
  <2>1. with \in Seq(Chars)
    BY <1>1
  <2> HIDE DEF with
  <2>2. Replace(Append(s, y), "nl", with) = Append(Replace(s, "nl", with), y)
    BY <1>11, <2>1, ReplaceOther
  <2> QED
    BY <2>2 DEF with
<1>8. Replace(Append(Append(r, "bs"), "bs"), "nl", <<"bs", "n">>)
        = Append(Append(Escaped(text), "bs"), "bs")
  <2>1. Append(r, "bs") \in Seq(Chars)
    BY <1>0, <1>2, AppendProperties
  <2>2. Replace(Append(r, "bs"), "nl", <<"bs", "n">>) = Append(Escaped(text), "bs")
    <3>1. "bs" # "nl"
      OBVIOUS
    <3> QED
      BY <1>0, <1>2, <1>3, <1>11, <3>1
  <2>3. Replace(Append(Append(r, "bs"), "bs"), "nl", <<"bs", "n">>)
          = Append(Replace(Append(r, "bs"), "nl", <<"bs", "n">>), "bs")
    <3>1. "bs" # "nl"
      OBVIOUS
    <3> QED
      BY <1>0, <2>1, <1>11, <3>1
  <2> QED
    BY <2>2, <2>3
<1>9. Replace(Append(r, "nl"), "nl", <<"bs", "n">>) = Append(Append(Escaped(text), "bs"), "n")
  BY <1>0, <1>2, <1>3, ReplaceByTwo
<1>10. x # "nl" => Replace(Append(r, x), "nl", <<"bs", "n">>) = Append(Escaped(text), x)
  BY <1>2, <1>3, <1>11
<1> QED
  BY <1>4, <1>5, <1>6, <1>7, <1>8, <1>9, <1>10

-----------------------------------------------------------------------------
(* The reader of a line.                                                   *)
Start == [value |-> <<>>, escape |-> FALSE]

Reading(g, text) ==
  g = [i \in 0..Len(text) |-> IF i = 0 THEN [value |-> <<>>, escape |-> FALSE]
                              ELSE ReadOne(g[i - 1], text[i])]

ReadsTo(text, state) == \E g : Reading(g, text) /\ g[Len(text)] = state

LEMMA ReadsNothing == ReadsTo(<<>>, Start)
<1> DEFINE g == [i \in 0..0 |-> Start]
<1>1. Len(<<>>) = 0
  OBVIOUS
<1>2. Reading(g, <<>>)
  BY <1>1 DEF Reading, Start
<1> QED
  BY <1>1, <1>2 DEF ReadsTo

LEMMA ReadsAppend ==
  ASSUME NEW text \in Seq(Chars), NEW x \in Chars, NEW state, ReadsTo(text, state)
  PROVE  ReadsTo(Append(text, x), ReadOne(state, x))
<1> DEFINE n == Len(text)
           more == Append(text, x)
<1>1. PICK g : Reading(g, text) /\ g[n] = state
  BY DEF ReadsTo
<1> DEFINE h == [i \in 0..(n + 1) |-> IF i <= n THEN g[i] ELSE ReadOne(state, x)]
<1>2. n \in Nat
  BY LenProperties
<1>3. /\ Len(more) = n + 1 /\ more[n + 1] = x
      /\ \A i \in 1..n : more[i] = text[i]
  BY AppendProperties
<1>4. ASSUME NEW i \in 0..(n + 1)
      PROVE  h[i] = IF i = 0 THEN Start ELSE ReadOne(h[i - 1], more[i])
  <2>1. CASE i <= n
    <3>1. i \in 0..n /\ h[i] = g[i]
      BY <2>1
    <3>2. g[i] = IF i = 0 THEN Start ELSE ReadOne(g[i - 1], text[i])
      BY <1>1, <3>1 DEF Reading, Start
    <3>3. i # 0 => /\ i - 1 \in 0..(n + 1) /\ i - 1 <= n /\ i \in 1..n
      BY <1>2, <2>1
    <3>4. i # 0 => h[i - 1] = g[i - 1] /\ more[i] = text[i]
      BY <1>3, <3>3
    <3> HIDE DEF h, more, n
    <3> QED
      BY <3>1, <3>2, <3>4
  <2>2. CASE i = n + 1
    <3>1. h[i] = ReadOne(state, x) /\ h[i - 1] = g[n] /\ i # 0
      BY <1>2, <2>2
    <3> HIDE DEF h, more, n
    <3> QED
      BY <1>1, <1>3, <2>2, <3>1
  <2> QED
    BY <1>2, <2>1, <2>2
<1>5. h = [i \in 0..(n + 1) |-> h[i]] /\ h[n + 1] = ReadOne(state, x)
  BY <1>2
<1> HIDE DEF h, more, n
<1>6. Reading(h, more)
  BY <1>3, <1>4, <1>5 DEF Reading, Start
<1>7. ReadsTo(more, ReadOne(state, x))
  BY <1>3, <1>5, <1>6 DEF ReadsTo
<1> QED
  BY <1>7 DEF more

LEMMA ReadingUnique ==
  ASSUME NEW text, Len(text) \in Nat, NEW g, Reading(g, text), NEW h, Reading(h, text),
         NEW k \in 0..Len(text)
  PROVE  g[k] = h[k]
<1> DEFINE bad == {i \in 0..Len(text) : g[i] # h[i]}
<1> SUFFICES ASSUME bad # {} PROVE FALSE
  OBVIOUS
<1>0. bad \in SUBSET Nat
  OBVIOUS
<1>1. PICK i \in bad : \A j \in bad : i <= j
  <2> HIDE DEF bad
  <2> QED
    BY <1>0, LeastExists
<1>2. i \in 0..Len(text) /\ g[i] # h[i]
  OBVIOUS
<1>3. g[i] = IF i = 0 THEN Start ELSE ReadOne(g[i - 1], text[i])
  BY <1>2 DEF Reading, Start
<1>4. h[i] = IF i = 0 THEN Start ELSE ReadOne(h[i - 1], text[i])
  BY <1>2 DEF Reading, Start
<1>5. i # 0
  BY <1>2, <1>3, <1>4
<1>6. i - 1 \in 0..Len(text) /\ ~ (i <= i - 1)
  BY <1>2, <1>5
<1>7. g[i - 1] = h[i - 1]
  BY <1>1, <1>6
<1> QED
  BY <1>2, <1>3, <1>4, <1>7

LEMMA UnescapedIs ==
  ASSUME NEW text \in Seq(Chars), NEW state, ReadsTo(text, state)
  PROVE  Unescaped(text) = state.value
<1> DEFINE g == CHOOSE g : Reading(g, text)
<1>1. PICK h : Reading(h, text) /\ h[Len(text)] = state
  BY DEF ReadsTo
<1>2. Reading(g, text)
  BY <1>1
<1>3. Len(text) \in Nat /\ Len(text) \in 0..Len(text)
  BY LenProperties
<1>4. Unescaped(text) = g[Len(text)].value
  BY DEF Unescaped, Reading
<1> HIDE DEF g
<1>5. g[Len(text)] = h[Len(text)]
  BY <1>1, <1>2, <1>3, ReadingUnique
<1> QED
  BY <1>1, <1>4, <1>5

(* A value is read back from its line. *)
RoundTrip(text) ==
  /\ ReadsTo(Escaped(text), [value |-> text, escape |-> FALSE])
  /\ "nl" \notin ToSet(Escaped(text))

LEMMA RoundTripAppend ==
  ASSUME NEW text \in Seq(Chars), NEW x \in Chars, RoundTrip(text)
  PROVE  RoundTrip(Append(text, x))
<1> DEFINE line == Escaped(text)
           state == [value |-> text, escape |-> FALSE]
           open == [value |-> text, escape |-> TRUE]
           done == [value |-> Append(text, x), escape |-> FALSE]
<1>0. "bs" \in Chars /\ "nl" \in Chars /\ "n" \in Chars
  BY DEF Chars
<1>1. /\ line \in Seq(Chars)
      /\ x = "bs" => Escaped(Append(text, x)) = Append(Append(line, "bs"), "bs")
      /\ x = "nl" => Escaped(Append(text, x)) = Append(Append(line, "bs"), "n")
      /\ x \notin {"bs", "nl"} => Escaped(Append(text, x)) = Append(line, x)
  BY EscapedAppend
<1>2. ReadsTo(line, state) /\ "nl" \notin ToSet(line)
  BY DEF RoundTrip
<1>3. ReadOne(state, "bs") = open
  BY DEF ReadOne
<1>4. x = "bs" => ReadOne(open, "bs") = done
  BY DEF ReadOne
<1>5. x = "nl" => ReadOne(open, "n") = done
  BY DEF ReadOne
<1>6. x \notin {"bs", "nl"} => ReadOne(state, x) = done
  BY DEF ReadOne
<1> HIDE DEF line, state, open, done
<1>7. ASSUME NEW s \in Seq(Chars), NEW y \in Chars, "nl" \notin ToSet(s), y # "nl"
      PROVE  Append(s, y) \in Seq(Chars) /\ "nl" \notin ToSet(Append(s, y))
  <2>1. Append(s, y) \in Seq(Chars)
    BY AppendProperties
  <2>2. ToSet(Append(s, y)) = ToSet(s) \cup {y}
    BY AppendMembers
  <2> QED
    BY <1>7, <2>1, <2>2
<1>8. CASE x \in {"bs", "nl"}
  <2>1. /\ Append(line, "bs") \in Seq(Chars) /\ "nl" \notin ToSet(Append(line, "bs"))
        /\ ReadsTo(Append(line, "bs"), open)
    BY <1>0, <1>1, <1>2, <1>3, <1>7, ReadsAppend
  <2>2. CASE x = "bs"
    <3>1. "nl" \notin ToSet(Append(Append(line, "bs"), "bs"))
      BY <1>0, <1>7, <2>1
    <3>2. ReadsTo(Append(Append(line, "bs"), "bs"), done)
      BY <1>0, <1>4, <2>1, <2>2, ReadsAppend
    <3> QED
      BY <1>1, <2>2, <3>1, <3>2 DEF RoundTrip, done
  <2>3. CASE x = "nl"
    <3>1. "nl" \notin ToSet(Append(Append(line, "bs"), "n"))
      BY <1>0, <1>7, <2>1
    <3>2. ReadsTo(Append(Append(line, "bs"), "n"), done)
      BY <1>0, <1>5, <2>1, <2>3, ReadsAppend
    <3> QED
      BY <1>1, <2>3, <3>1, <3>2 DEF RoundTrip, done
  <2> QED
    BY <1>8, <2>2, <2>3
<1>9. CASE x \notin {"bs", "nl"}
  <2>1. "nl" \notin ToSet(Append(line, x))
    BY <1>1, <1>2, <1>7, <1>9
  <2>2. ReadsTo(Append(line, x), done)
    BY <1>1, <1>2, <1>6, <1>9, ReadsAppend
  <2> QED
    BY <1>1, <1>9, <2>1, <2>2 DEF RoundTrip, done
<1> QED
  BY <1>8, <1>9

(* escape_env_value loses nothing, whatever the value is: each value is on *)
(* one line, and a reader gets it back.                                    *)
THEOREM EscapingReadsBack ==
  ASSUME NEW text \in Seq(Chars)
  PROVE  Unescaped(Escaped(text)) = text /\ "nl" \notin ToSet(Escaped(text))
<1> DEFINE bad == {n \in Nat : \E s \in Seq(Chars) : Len(s) = n /\ ~ RoundTrip(s)}
<1>1. bad = {}
  <2> SUFFICES ASSUME bad # {} PROVE FALSE
    OBVIOUS
  <2>1. PICK n \in bad : \A m \in bad : n <= m
    <3>1. bad \in SUBSET Nat
      OBVIOUS
    <3> HIDE DEF bad
    <3> QED
      BY <3>1, LeastExists
  <2>2. PICK s \in Seq(Chars) : Len(s) = n /\ ~ RoundTrip(s)
    OBVIOUS
  <2>3. RoundTrip(<<>>)
    <3>1. Escaped(<<>>) = <<>>
      BY ReplaceEmpty DEF Escaped
    <3>2. ToSet(<<>>) = {}
      BY DEF ToSet
    <3> QED
      BY <3>1, <3>2, ReadsNothing DEF RoundTrip, Start
  <2>4. PICK t \in Seq(Chars), x \in Chars : s = Append(t, x)
    BY <2>2, <2>3, SequenceEmptyOrAppend
  <2>5. Len(s) = Len(t) + 1 /\ Len(t) \in Nat
    BY <2>4, AppendProperties, LenProperties
  <2>6. Len(t) \notin bad
    BY <2>1, <2>2, <2>5
  <2>7. RoundTrip(t)
    BY <2>5, <2>6
  <2> QED
    BY <2>2, <2>4, <2>7, RoundTripAppend
<1>2. RoundTrip(text)
  <2>1. Len(text) \in Nat
    BY LenProperties
  <2> QED
    BY <1>1, <2>1
<1>3. Escaped(text) \in Seq(Chars)
  <2>1. "n" \in Chars
    BY DEF Chars
  <2> QED
    BY <2>1, EscapedAppend
<1>4. Unescaped(Escaped(text)) = [value |-> text, escape |-> FALSE].value
  BY <1>2, <1>3, UnescapedIs DEF RoundTrip
<1> QED
  BY <1>2, <1>4 DEF RoundTrip

-----------------------------------------------------------------------------
(* The key a cipher is decrypted with is one its owner was led to.         *)
LEMMA OpensTo ==
  ASSUME NEW text, From64(text) # Failed
  PROVE  From64(text) \in Keys /\ text = Blob(From64(text)) /\ text # Failed
<1>1. PICK m \in Keys : text = Blob(m)
  BY DEF From64
<1>2. From64(text) \in Keys /\ text = Blob(From64(text))
  BY <1>1 DEF From64
<1>3. Blob(m) # Failed
  BY FailedAssumption DEF Blob
<1> QED
  BY <1>1, <1>2, <1>3

LEMMA UnwrapsTo ==
  ASSUME NEW s, NEW key, From64(DecryptSymmetric(s, key)) # Failed
  PROVE  /\ From64(DecryptSymmetric(s, key)) \in Keys
         /\ LeadsTo(key, s, From64(DecryptSymmetric(s, key)))
<1> DEFINE text == DecryptSymmetric(s, key)
<1>1. From64(text) \in Keys /\ text = Blob(From64(text)) /\ text # Failed
  BY OpensTo
<1>2. text = s.text /\ s.seal = key
  BY <1>1 DEF DecryptSymmetric
<1> HIDE DEF text
<1> QED
  BY <1>1, <1>2 DEF LeadsTo, text

OrgsTyped == account.orgs \in Seq(ToSet(account.orgs))

LEMMA ContainerLeads ==
  ASSUME OrgsTyped, NEW c, session = "user", Opened # Failed
  PROVE  KeyFor(c.org, Opened, session) \in Containers(c)
<1> DEFINE blob == DecryptSymmetric(account.privateKey, session)
           private == From64(blob)
           keyed == Keyed(account)
           opened == [i \in keyed |-> UnwrapOrgKey(account.orgs[i].key, blob)]
           named(id) == {i \in keyed : account.orgs[i].id = id}
           ids == {account.orgs[i].id : i \in keyed}
           keys == [id \in ids |->
                      opened[CHOOSE i \in named(id) : \A j \in named(id) : i <= j]]
<1>1. /\ \A i \in keyed : opened[i] # Failed
      /\ Opened = keys
  BY DEF Opened, OrgKeys
<1>2. private # Failed => private \in Keys /\ LeadsTo("user", account.privateKey, private)
  BY UnwrapsTo
<1>3. CASE named(c.org) = {}
  <2>1. c.org \notin DOMAIN keys
    BY <1>3
  <2>2. KeyFor(c.org, Opened, session) = "user"
    BY <1>1, <2>1 DEF KeyFor
  <2> QED
    BY <1>3, <2>2 DEF Containers
<1>4. CASE named(c.org) # {}
  <2> DEFINE i == CHOOSE i \in named(c.org) : \A j \in named(c.org) : i <= j
  <2>1. named(c.org) \in SUBSET Nat
    <3>1. DOMAIN account.orgs = 1..Len(account.orgs) /\ Len(account.orgs) \in Nat
      BY LenProperties DEF OrgsTyped
    <3> QED
      BY <3>1 DEF Keyed
  <2>2. i \in named(c.org)
    <3>1. \E k \in named(c.org) : \A j \in named(c.org) : k <= j
      <4> HIDE DEF named
      <4> QED
        BY <1>4, <2>1, LeastExists
    <3> QED
      BY <3>1
  <2>3. c.org \in DOMAIN keys /\ keys[c.org] = opened[i]
    BY <1>4
  <2>4. i \in keyed /\ account.orgs[i].id = c.org
    BY <2>2
  <2> HIDE DEF i
  <2>5. opened[i] = UnwrapOrgKey(account.orgs[i].key, blob) /\ opened[i] # Failed
    BY <1>1, <2>4
  <2> HIDE DEF blob
  <2>6. /\ opened[i] = From64(account.orgs[i].key.text)
        /\ private # Failed /\ account.orgs[i].key.seal = private
    BY <2>5 DEF UnwrapOrgKey
  <2>7. opened[i] \in Keys /\ LeadsTo(private, account.orgs[i].key, opened[i])
    BY <2>5, <2>6, OpensTo DEF LeadsTo
  <2>8. KeyFor(c.org, Opened, session) = opened[i]
    BY <1>1, <2>3 DEF KeyFor
  <2> HIDE DEF opened
  <2> QED
    BY <1>2, <1>4, <2>4, <2>6, <2>7, <2>8 DEF Containers
<1> QED
  BY <1>3, <1>4

LEMMA ItemKeyLeads ==
  ASSUME OrgsTyped, NEW c, session = "user", Opened # Failed, ItemKey(c) # Failed
  PROVE  ItemKey(c) \in KeysFor(c)
<1> DEFINE container == KeyFor(c.org, Opened, session)
<1>1. container \in Containers(c)
  BY ContainerLeads
<1>2. ItemKey(c) = IF ~ Given(c.key) THEN container
                   ELSE From64(DecryptSymmetric(c.key, container))
  BY DEF ItemKey, EffectiveKey, Given
<1> HIDE DEF container
<1>3. CASE ~ Given(c.key)
  BY <1>1, <1>2, <1>3 DEF KeysFor
<1>4. CASE Given(c.key)
  BY <1>1, <1>2, <1>4, UnwrapsTo DEF KeysFor
<1> QED
  BY <1>3, <1>4

(* What an entry of a mapped cipher is made of.                            *)
LEMMA DecIntact ==
  ASSUME NEW c, ItemKey(c) \in KeysFor(c), NEW wire, Given(wire),
         Dec(wire, ItemKey(c)) # Failed
  PROVE  Intact(wire, c) /\ Dec(wire, ItemKey(c)) = wire.text
<1>1. Dec(wire, ItemKey(c)) = DecryptSymmetric(wire, ItemKey(c))
  BY DEF Dec, Given
<1>2. /\ wire.type \in WithMac /\ wire.seal = ItemKey(c) /\ wire.padded
      /\ DecryptSymmetric(wire, ItemKey(c)) = wire.text
  BY <1>1 DEF DecryptSymmetric
<1> QED
  BY <1>1, <1>2 DEF Intact

From(text, c) ==
  \E wire \in WiresOf(c) : Given(wire) /\ Intact(wire, c) /\ text = wire.text

LEMMA FromWire ==
  ASSUME NEW c, ItemKey(c) \in KeysFor(c), NEW wire \in WiresOf(c), Given(wire),
         Dec(wire, ItemKey(c)) # Failed
  PROVE  From(Dec(wire, ItemKey(c)), c)
<1>1. Intact(wire, c) /\ Dec(wire, ItemKey(c)) = wire.text
  BY DecIntact
<1> QED
  BY <1>1 DEF From

LEMMA TypedFrom ==
  ASSUME NEW c, WellTyped(c), ItemKey(c) \in KeysFor(c),
         NEW e \in ToSet(TypedEntries(c.typed, ItemKey(c))), e.text # Failed
  PROVE  From(e.text, c)
<1> DEFINE key == ItemKey(c)
           ss == [i \in DOMAIN c.typed |-> InsertIf(c.typed[i].key, c.typed[i].wire, key)]
           n == Len(c.typed)
<1>1. n \in Nat /\ DOMAIN c.typed = 1..n
  BY LenProperties DEF WellTyped
<1>2. \A i \in 1..n : ss[i] = InsertIf(c.typed[i].key, c.typed[i].wire, key)
  BY <1>1
<1>3. \A i \in 1..n : ss[i] \in Seq(EntryType)
  <2> TAKE i \in 1..n
  <2>1. c.typed[i] \in ToSet(c.typed)
    BY <1>1 DEF ToSet
  <2>2. c.typed[i].key \in Names /\ Carries(c.typed[i].wire, Seq(Chars))
    BY <2>1 DEF WellTyped
  <2> QED
    BY <1>2, <2>2, InsertTyped
<1>4. TypedEntries(c.typed, key) = FlattenSeq(ss) /\ ss = [i \in 1..n |-> ss[i]]
  BY <1>1 DEF TypedEntries
<1> HIDE DEF ss, n, key
<1>5. ToSet(TypedEntries(c.typed, key)) = UNION {ToSet(ss[i]) : i \in 1..n}
  <2>1. FlattenSeq(ss) = Flat(ss, n)
    BY <1>1, <1>4, FlatIs
  <2>2. ToSet(Flat(ss, n)) = UNION {ToSet(ss[i]) : i \in 1..n}
    BY <1>1, <1>3, FlatMembers
  <2> QED
    BY <1>4, <2>1, <2>2
<1>6. PICK i \in 1..n : e \in ToSet(ss[i])
  BY <1>5 DEF key
<1> DEFINE wire == c.typed[i].wire
           name == c.typed[i].key
<1>7. wire \in WiresOf(c)
  <2>1. c.typed[i] \in ToSet(c.typed)
    BY <1>1 DEF ToSet
  <2> QED
    BY <2>1 DEF WiresOf
<1>8. ss[i] = InsertIf(name, wire, key)
  BY <1>2
<1> HIDE DEF wire, name
<1>9. Given(wire)
  BY <1>6, <1>8 DEF InsertIf, ToSet
<1>10. ToSet(ss[i]) = {Entry(name, Dec(wire, key))}
  BY <1>8, <1>9 DEF InsertIf, ToSet
<1>11. e.text = Dec(wire, key)
  BY <1>6, <1>10 DEF Entry
<1> QED
  BY <1>7, <1>9, <1>11, FromWire DEF key

LEMMA CustomFrom ==
  ASSUME NEW c, WellTyped(c), ItemKey(c) \in KeysFor(c),
         NEW e \in ToSet(CustomEntries(c.custom, ItemKey(c))), e.text # Failed
  PROVE  From(e.text, c)
<1> DEFINE key == ItemKey(c)
           ss == [i \in DOMAIN c.custom |-> CustomEntry(c.custom[i], key)]
           n == Len(c.custom)
<1>1. n \in Nat /\ DOMAIN c.custom = 1..n
  BY LenProperties DEF WellTyped
<1>2. \A i \in 1..n : ss[i] = CustomEntry(c.custom[i], key)
  BY <1>1
<1>3. \A i \in 1..n : ss[i] \in Seq(EntryType)
  <2> TAKE i \in 1..n
  <2>1. c.custom[i] \in ToSet(c.custom)
    BY <1>1 DEF ToSet
  <2> QED
    BY <1>2, <2>1, CustomEntryTyped
<1>4. CustomEntries(c.custom, key) = FlattenSeq(ss) /\ ss = [i \in 1..n |-> ss[i]]
  BY <1>1 DEF CustomEntries
<1> HIDE DEF ss, n, key
<1>5. ToSet(CustomEntries(c.custom, key)) = UNION {ToSet(ss[i]) : i \in 1..n}
  <2>1. FlattenSeq(ss) = Flat(ss, n)
    BY <1>1, <1>4, FlatIs
  <2>2. ToSet(Flat(ss, n)) = UNION {ToSet(ss[i]) : i \in 1..n}
    BY <1>1, <1>3, FlatMembers
  <2> QED
    BY <1>4, <2>1, <2>2
<1>6. PICK i \in 1..n : e \in ToSet(ss[i])
  BY <1>5 DEF key
<1> DEFINE f == c.custom[i]
<1>7. f \in ToSet(c.custom) /\ f.wire \in WiresOf(c)
  <2>1. f \in ToSet(c.custom)
    BY <1>1 DEF ToSet
  <2> QED
    BY <2>1 DEF WiresOf
<1>8. ss[i] = CustomEntry(f, key)
  BY <1>2
<1> HIDE DEF f
<1>9. Given(f.wire) /\ \E label : ss[i] = <<Entry(label, Dec(f.wire, key))>>
  BY <1>6, <1>8 DEF CustomEntry, ToSet
<1>10. PICK label : ss[i] = <<Entry(label, Dec(f.wire, key))>>
  BY <1>9
<1>11. ToSet(ss[i]) = {Entry(label, Dec(f.wire, key))}
  BY <1>10 DEF ToSet
<1>12. e.text = Dec(f.wire, key)
  BY <1>6, <1>11 DEF Entry
<1> QED
  BY <1>7, <1>9, <1>12, FromWire DEF key

(* The texts of the URIs, and where each comes from. *)
LEMMA TextsFrom ==
  ASSUME NEW c, WellTyped(c), NEW key
  PROVE  ToSet(Texts(c.uris, key)) = {Dec(w, key) : w \in {u \in ToSet(c.uris) : Given(u)}}
<1> DEFINE T == Seq(Chars) \cup {Failed}
           of(w) == IF Given(w) THEN <<Dec(w, key)>> ELSE <<>>
           ss == [i \in DOMAIN c.uris |-> of(c.uris[i])]
           n == Len(c.uris)
<1>1. n \in Nat /\ DOMAIN c.uris = 1..n
  BY LenProperties DEF WellTyped
<1>2. \A i \in 1..n : ss[i] = of(c.uris[i])
  BY <1>1
<1>3. Texts(c.uris, key) = FlattenSeq(ss) /\ ss = [i \in 1..n |-> ss[i]]
  BY <1>1 DEF Texts
<1>4. ToSet(c.uris) = {c.uris[i] : i \in 1..n}
  BY <1>1 DEF ToSet
<1> HIDE DEF ss, n
<1>5. \A i \in 1..n : ss[i] \in Seq(T)
  <2> TAKE i \in 1..n
  <2>1. Given(c.uris[i]) => Dec(c.uris[i], key) \in T
    <3>1. Carries(c.uris[i], Seq(Chars))
      BY <1>4 DEF WellTyped
    <3> QED
      BY <3>1, DecTyped
  <2>2. ss[i] = IF Given(c.uris[i]) THEN <<Dec(c.uris[i], key)>> ELSE <<>>
    BY <1>2
  <2> HIDE DEF T
  <2> QED
    BY <2>1, <2>2, SingleTyped, EmptySeq
<1> HIDE DEF T
<1>6. ToSet(Texts(c.uris, key)) = UNION {ToSet(ss[i]) : i \in 1..n}
  <2>1. FlattenSeq(ss) = Flat(ss, n)
    BY <1>1, <1>3, FlatIs
  <2>2. ToSet(Flat(ss, n)) = UNION {ToSet(ss[i]) : i \in 1..n}
    BY <1>1, <1>5, FlatMembers
  <2> QED
    BY <1>3, <2>1, <2>2
<1>7. ASSUME NEW i \in 1..n
      PROVE  ToSet(ss[i]) = IF Given(c.uris[i]) THEN {Dec(c.uris[i], key)} ELSE {}
  <2>1. ss[i] = IF Given(c.uris[i]) THEN <<Dec(c.uris[i], key)>> ELSE <<>>
    BY <1>2
  <2>2. CASE Given(c.uris[i])
    BY <2>1, <2>2 DEF ToSet
  <2>3. CASE ~ Given(c.uris[i])
    BY <2>1, <2>3 DEF ToSet
  <2> QED
    BY <2>2, <2>3
<1>8. ASSUME NEW text \in ToSet(Texts(c.uris, key))
      PROVE  \E w \in ToSet(c.uris) : Given(w) /\ text = Dec(w, key)
  <2>1. PICK i \in 1..n : text \in ToSet(ss[i])
    BY <1>6
  <2>2. ToSet(ss[i]) = IF Given(c.uris[i]) THEN {Dec(c.uris[i], key)} ELSE {}
    BY <1>7
  <2>3. Given(c.uris[i]) /\ text = Dec(c.uris[i], key)
    BY <2>1, <2>2
  <2> QED
    BY <1>4, <2>3
<1>9. ASSUME NEW w \in ToSet(c.uris), Given(w)
      PROVE  Dec(w, key) \in ToSet(Texts(c.uris, key))
  <2>1. PICK i \in 1..n : w = c.uris[i]
    BY <1>4
  <2> QED
    BY <1>6, <1>7, <1>9, <2>1
<1> QED
  BY <1>8, <1>9

LEMMA UriFrom ==
  ASSUME NEW c, WellTyped(c), ItemKey(c) \in KeysFor(c),
         NEW e \in ToSet(UriEntries(c.uris, ItemKey(c))), e.text # Failed
  PROVE  \/ From(e.text, c)
         \/ e.key = "uris" /\ \A wire \in ToSet(c.uris) : Given(wire) => Intact(wire, c)
<1> DEFINE key == ItemKey(c)
           texts == Texts(c.uris, key)
           T == Seq(Chars) \cup {Failed}
<1>1. texts \in Seq(T)
  BY TextsTyped
<1>2. ToSet(texts) = {Dec(w, key) : w \in {u \in ToSet(c.uris) : Given(u)}}
  BY TextsFrom
<1>3. UriEntries(c.uris, key) =
        IF Len(texts) = 0 THEN <<>>
        ELSE IF Len(texts) = 1 THEN <<Entry("uri", texts[1])>>
        ELSE <<Entry("uri", texts[1]), Entry("uris", Joined(texts))>>
  BY DEF UriEntries
<1> HIDE DEF texts, T
<1>4. Len(texts) \in Nat /\ DOMAIN texts = 1..Len(texts)
  BY <1>1, LenProperties
<1>5. Len(texts) # 0 /\ e \in {Entry("uri", texts[1]), Entry("uris", Joined(texts))}
  <2>1. CASE Len(texts) = 0
    <3>1. ToSet(UriEntries(c.uris, key)) = {}
      BY <1>3, <2>1 DEF ToSet
    <3> QED
      BY <3>1
  <2>2. CASE Len(texts) = 1
    <3>1. ToSet(UriEntries(c.uris, key)) = {Entry("uri", texts[1])}
      BY <1>3, <2>2 DEF ToSet
    <3> QED
      BY <2>2, <3>1
  <2>3. CASE Len(texts) # 0 /\ Len(texts) # 1
    <3>1. ToSet(UriEntries(c.uris, key))
            = {Entry("uri", texts[1]), Entry("uris", Joined(texts))}
      BY <1>3, <2>3 DEF ToSet
    <3> QED
      BY <2>3, <3>1
  <2> QED
    BY <2>1, <2>2, <2>3
<1>6. CASE e = Entry("uri", texts[1])
  <2>1. e.text = texts[1] /\ texts[1] \in ToSet(texts)
    BY <1>4, <1>5, <1>6 DEF Entry, ToSet
  <2>2. PICK w \in ToSet(c.uris) : Given(w) /\ e.text = Dec(w, key)
    BY <1>2, <2>1
  <2>3. w \in WiresOf(c)
    BY DEF WiresOf
  <2> QED
    BY <2>2, <2>3, FromWire
<1>7. CASE e = Entry("uris", Joined(texts))
  <2>1. e.key = "uris" /\ e.text = Joined(texts)
    BY <1>7 DEF Entry
  <2>2. Failed \notin ToSet(texts)
    BY <2>1 DEF Joined
  <2>3. ASSUME NEW wire \in ToSet(c.uris), Given(wire) PROVE Intact(wire, c)
    <3>1. Dec(wire, key) # Failed
      BY <1>2, <2>2, <2>3
    <3> QED
      BY <2>3, <3>1, DecIntact
  <2> QED
    BY <2>1, <2>3
<1> QED
  BY <1>5, <1>6, <1>7

LEMMA EntryFrom ==
  ASSUME NEW c, WellTyped(c), ItemKey(c) \in KeysFor(c), NEW e \in ToSet(Entries(c)),
         e.text # Failed
  PROVE  \/ From(e.text, c)
         \/ e.key = "uris" /\ \A wire \in ToSet(c.uris) : Given(wire) => Intact(wire, c)
<1> DEFINE key == ItemKey(c)
           typed == TypedEntries(c.typed, key)
           uris == UriEntries(c.uris, key)
           notes == InsertIf("notes", c.notes, key)
           custom == CustomEntries(c.custom, key)
<1>1. /\ typed \in Seq(EntryType) /\ uris \in Seq(EntryType) /\ notes \in Seq(EntryType)
      /\ custom \in Seq(EntryType)
  BY TypedTyped, UriTyped, EntriesTyped
<1>2. BuiltIn(c) = typed \o uris /\ Entries(c) = (BuiltIn(c) \o notes) \o custom
  BY DEF BuiltIn, Entries
<1> HIDE DEF typed, uris, notes, custom, key
<1>3. BuiltIn(c) \in Seq(EntryType) /\ BuiltIn(c) \o notes \in Seq(EntryType)
  BY <1>1, <1>2, ConcatProperties
<1>4. ToSet(BuiltIn(c)) = ToSet(typed) \cup ToSet(uris)
  BY <1>1, <1>2, ConcatMembers
<1>5. ToSet(BuiltIn(c) \o notes) = ToSet(BuiltIn(c)) \cup ToSet(notes)
  BY <1>1, <1>3, ConcatMembers
<1>6. ToSet(Entries(c)) = ToSet(BuiltIn(c) \o notes) \cup ToSet(custom)
  <2> DEFINE front == BuiltIn(c) \o notes
  <2>1. front \in Seq(EntryType) /\ Entries(c) = front \o custom
    BY <1>2, <1>3
  <2> HIDE DEF front
  <2>2. ToSet(front \o custom) = ToSet(front) \cup ToSet(custom)
    BY <1>1, <2>1, ConcatMembers
  <2> QED
    BY <2>1, <2>2 DEF front
<1>7. CASE e \in ToSet(typed)
  BY <1>7, TypedFrom DEF typed, key
<1>8. CASE e \in ToSet(uris)
  BY <1>8, UriFrom DEF uris, key
<1>9. CASE e \in ToSet(notes)
  <2>1. Given(c.notes)
    BY <1>9 DEF notes, InsertIf, ToSet
  <2>2. ToSet(notes) = {Entry("notes", Dec(c.notes, key))}
    BY <2>1 DEF notes, InsertIf, ToSet
  <2>3. e.text = Dec(c.notes, key)
    BY <1>9, <2>2 DEF Entry
  <2>4. c.notes \in WiresOf(c)
    BY DEF WiresOf
  <2> QED
    BY <2>1, <2>3, <2>4, FromWire DEF key
<1>10. CASE e \in ToSet(custom)
  BY <1>10, CustomFrom DEF custom, key
<1> QED
  BY <1>4, <1>5, <1>6, <1>7, <1>8, <1>9, <1>10

(* What an export collects was sealed for the account.                     *)
LEMMA SecretsSealed ==
  ASSUME OrgsTyped, CiphersTyped, session = "user", Opened # Failed,
         fields = Secrets
  PROVE  FailsClosed
<1>1. ASSUME NEW f \in ToSet(fields)
      PROVE  \E c \in ToSet(ciphers) :
               \/ From(f.value, c)
               \/ /\ f.name = "uris"
                  /\ \A wire \in ToSet(c.uris) : Given(wire) => Intact(wire, c)
  <2>1. PICK p \in Pairs : f = [name |-> p[2], value |-> Bag(ciphers[p[1]])[p[2]]]
    BY SecretsAre
  <2>2. PICK i \in DOMAIN ciphers : Mapped(ciphers[i]) /\ p \in {i} \X NamesOf(ciphers[i])
    BY DEF Pairs
  <2> DEFINE c == ciphers[i]
  <2>3. WellTyped(c) /\ c \in ToSet(ciphers)
    <3>1. DOMAIN ciphers = 1..Len(ciphers)
      BY LenProperties DEF CiphersTyped
    <3>2. i \in 1..Len(ciphers)
      BY <3>1
    <3>3. c \in {d \in ToSet(ciphers) : WellTyped(d)}
      BY <3>2, ElementOfSeq DEF CiphersTyped
    <3> QED
      BY <3>3
  <2>4. Mapped(c) /\ p[2] \in NamesOf(c) /\ f.name = p[2] /\ f.value = Bag(c)[p[2]]
    BY <2>1, <2>2
  <2> HIDE DEF c
  <2>5. PICK e \in ToSet(Entries(c)) : e.key = p[2] /\ f.value = e.text
    BY <2>3, <2>4, BagTyped
  <2>6. e.text # Failed /\ ItemKey(c) # Failed
    BY <2>4 DEF Mapped, NameOf
  <2>7. ItemKey(c) \in KeysFor(c)
    BY <2>6, ItemKeyLeads
  <2>8. \/ From(e.text, c)
        \/ e.key = "uris" /\ \A wire \in ToSet(c.uris) : Given(wire) => Intact(wire, c)
    BY <2>3, <2>6, <2>7, EntryFrom
  <2> QED
    BY <2>3, <2>4, <2>5, <2>8
<1> QED
  BY <1>1 DEF FailsClosed, From

-----------------------------------------------------------------------------
(* An export that prints every field collected prints what the ciphers     *)
(* hold.                                                                   *)
LEMMA PairHeld ==
  ASSUME CiphersTyped, NEW p \in Pairs
  PROVE  /\ Bag(ciphers[p[1]])[p[2]] = Holds(ciphers[p[1]], p[2])
         /\ \E i \in 1..Len(Secrets) :
              Secrets[i] = [name |-> p[2], value |-> Holds(ciphers[p[1]], p[2])]
<1>1. PICK i \in DOMAIN ciphers : Mapped(ciphers[i]) /\ p \in {i} \X NamesOf(ciphers[i])
  BY DEF Pairs
<1>2. i \in 1..Len(ciphers)
  BY LenProperties DEF CiphersTyped
<1>3. WellTyped(ciphers[i])
  BY <1>2, ElementOfSeq DEF CiphersTyped
<1>4. p[1] = i /\ p[2] \in NamesOf(ciphers[i])
  BY <1>1
<1>5. Bag(ciphers[p[1]])[p[2]] = Holds(ciphers[p[1]], p[2])
  BY <1>3, <1>4, BagHolds
<1>6. [name |-> p[2], value |-> Bag(ciphers[p[1]])[p[2]]] \in ToSet(Secrets)
  BY SecretsAre
<1>7. ToSet(Secrets) = {Secrets[k] : k \in 1..Len(Secrets)}
  BY SecretsAre, LenProperties DEF ToSet
<1> QED
  BY <1>5, <1>6, <1>7

LEMMA LinesAreWhole ==
  ASSUME CiphersTyped, fields = Secrets, DOMAIN out = 1..Len(out),
         Len(out) = Len(fields),
         \A i \in 1..Len(out) : out[i].text = Escaped(fields[i].value)
  PROVE  /\ Len(out) = Cardinality(Pairs)
         /\ \A p \in Pairs : \E line \in ToSet(out) :
              Unescaped(line.text) = Holds(ciphers[p[1]], p[2])
<1>1. Len(out) = Cardinality(Pairs)
  BY SecretsAre
<1>2. ASSUME NEW p \in Pairs
      PROVE  \E line \in ToSet(out) : Unescaped(line.text) = Holds(ciphers[p[1]], p[2])
  <2> DEFINE held == Holds(ciphers[p[1]], p[2])
  <2>1. PICK i \in 1..Len(Secrets) : Secrets[i] = [name |-> p[2], value |-> held]
    BY PairHeld
  <2>2. i \in 1..Len(out) /\ out[i] \in ToSet(out) /\ out[i].text = Escaped(fields[i].value)
    BY <2>1 DEF ToSet
  <2>3. fields[i] \in FieldType
    BY <2>1, SecretsAre, ElementOfSeq
  <2>4. fields[i].value \in Seq(Chars) /\ fields[i].value = held
    BY <2>1, <2>3 DEF FieldType
  <2> HIDE DEF held
  <2>5. Unescaped(out[i].text) = held
    BY <2>2, <2>4, EscapingReadsBack
  <2> QED
    BY <2>2, <2>5 DEF held
<1> QED
  BY <1>1, <1>2

LEMMA ObjectIsWhole ==
  ASSUME CiphersTyped, fields = Secrets, NEW p \in Pairs
  PROVE  /\ p[2] \in DOMAIN Object
         /\ (\A other \in Pairs : other[2] = p[2] => other = p)
              => Object[p[2]] = Holds(ciphers[p[1]], p[2])
<1> DEFINE name == p[2]
           at == {i \in DOMAIN fields : fields[i].name = name}
           last == CHOOSE i \in at : \A j \in at : j <= i
<1>1. PICK i \in 1..Len(Secrets) :
        Secrets[i] = [name |-> p[2], value |-> Holds(ciphers[p[1]], p[2])]
  BY PairHeld
<1>2. Len(fields) \in Nat /\ DOMAIN fields = 1..Len(fields)
  BY SecretsAre, LenProperties
<1>3. i \in at
  BY <1>1, <1>2
<1>4. fields[i] \in ToSet(fields) /\ fields[i].name = name
  BY <1>1, <1>2 DEF ToSet
<1>5. name \in DOMAIN Object /\ Object[name] = fields[last].value
  BY <1>4 DEF Object
<1>6. last \in at
  <2>1. at \in SUBSET (0..Len(fields)) /\ at # {}
    BY <1>2, <1>3
  <2>2. \E k \in at : \A j \in at : j <= k
    <3> HIDE DEF at
    <3> QED
      BY <1>2, <2>1, MostExists
  <2> QED
    BY <2>2
<1>7. last \in 1..Len(fields) /\ fields[last].name = name
  BY <1>2, <1>6
<1> HIDE DEF last
<1>8. fields[last] \in ToSet(Secrets)
  BY <1>2, <1>7 DEF ToSet
<1>9. PICK q \in Pairs :
        fields[last] = [name |-> q[2], value |-> Bag(ciphers[q[1]])[q[2]]]
  BY <1>8, SecretsAre
<1>10. q[2] = p[2] /\ fields[last].value = Bag(ciphers[q[1]])[q[2]]
  BY <1>7, <1>9
<1>11. ASSUME \A other \in Pairs : other[2] = p[2] => other = p
       PROVE  Object[name] = Holds(ciphers[p[1]], p[2])
  <2>1. q = p
    BY <1>10, <1>11
  <2>2. Bag(ciphers[p[1]])[p[2]] = Holds(ciphers[p[1]], p[2])
    BY PairHeld
  <2> QED
    BY <1>5, <1>10, <2>1, <2>2
<1> QED
  BY <1>5, <1>11

-----------------------------------------------------------------------------
(* mangle_env_key.                                                         *)

(* There is always a free suffix, and the key it makes is new. *)
LEMMA CandidatesDiffer ==
  ASSUME NEW name \in Names, NEW m \in Nat, NEW n \in Nat,
         Candidate(Base[name], m) = Candidate(Base[name], n)
  PROVE  m = n
<1> DEFINE base == Base[name]
           S == {base[i] : i \in 1..Len(base)} \cup {m, n}
<1>1. Len(base) \in Nat /\ base = [i \in 1..Len(base) |-> base[i]]
  BY BaseAssumption
<1>2. base \in Seq(S)
  <2>1. base \in [1..Len(base) -> S]
    BY <1>1
  <2> QED
    BY <1>1, <2>1, SeqDef
<1>3. ASSUME NEW k \in {m, n}
      PROVE  /\ Len(Append(base, k)) = Len(base) + 1
             /\ Append(base, k)[Len(base) + 1] = k
  BY <1>2, AppendProperties
<1> HIDE DEF base
<1>4. Len(base) # Len(base) + 1
  <2>1. Len(base) \in Nat
    BY <1>1
  <2> QED
    BY <2>1
<1>5. ASSUME NEW k \in {m, n}
      PROVE  Candidate(base, k) = IF k = 0 THEN base ELSE Append(base, k)
  BY DEF Candidate
<1>6. Candidate(base, m) = Candidate(base, n)
  BY DEF base
<1>7. CASE m = 0
  BY <1>3, <1>4, <1>5, <1>6, <1>7
<1>8. CASE n = 0
  BY <1>3, <1>4, <1>5, <1>6, <1>8
<1>9. CASE m # 0 /\ n # 0
  BY <1>3, <1>5, <1>6, <1>9
<1> QED
  BY <1>7, <1>8, <1>9

LEMMA MangledIsNew ==
  ASSUME NEW name \in Names, NEW used, IsFiniteSet(used)
  PROVE  Mangled(name, used) \notin used
<1> DEFINE k == Cardinality(used)
           of(n) == Candidate(Base[name], n)
           free == {n \in 0..k : of(n) \notin used}
<1>1. k \in Nat /\ IsFiniteSet(0..k) /\ Cardinality(0..k) = k + 1
  <2>1. k \in Nat
    BY FS_CardinalityType
  <2> QED
    BY <2>1, FS_Interval
<1>2. free # {}
  <2> SUFFICES ASSUME free = {} PROVE FALSE
    OBVIOUS
  <2> DEFINE f == [n \in 0..k |-> of(n)]
  <2>1. f \in [0..k -> used]
    OBVIOUS
  <2> HIDE DEF k
  <2>2. PICK m \in 0..k, n \in 0..k : m # n /\ f[m] = f[n]
    <3>1. Cardinality(used) < Cardinality(0..k)
      BY <1>1 DEF k
    <3> HIDE DEF f
    <3> QED
      BY <1>1, <2>1, <3>1, FS_PigeonHole
  <2>3. of(m) = of(n)
    BY <2>2
  <2> QED
    BY <1>1, <2>2, <2>3, CandidatesDiffer
<1>3. \E n \in free : \A m \in free : n <= m
  <2>1. free \in SUBSET Nat
    BY <1>1
  <2> HIDE DEF free
  <2> QED
    BY <1>2, <2>1, LeastExists
<1>4. (CHOOSE n \in free : \A m \in free : n <= m) \in free
  BY <1>3
<1> QED
  BY <1>4 DEF Mangled
=============================================================================
