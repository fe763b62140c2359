-------------------------- MODULE VaultRead_proofs ---------------------------
(***************************************************************************)
(* Proofs about module VaultRead, for any number of ciphers, collections,  *)
(* names and changes of the vault: what a get, a list or an export answers *)
(* was true at some moment of the command, and a "not found" all through   *)
(* it.                                                                     *)
(***************************************************************************)
EXTENDS VaultRead, WellFoundedInduction, TLAPS

-----------------------------------------------------------------------------
(* The operators the module is built from.                                 *)

(* The first of a set is in it. *)
LEMMA MinIsMember ==
  ASSUME NEW S \in SUBSET Nat, S # {}
  PROVE  Min(S) \in S
<1> DEFINE Less == {ss \in Nat \X Nat : ss[1] < ss[2]}
<1>1. IsWellFoundedOn(Less, Nat)
  BY NatLessThanWellFounded DEF OpToRel
<1>2. PICK x \in S : \A y \in S : <<y, x>> \notin Less
  BY <1>1, WFMin, Zenon
<1>3. \A y \in S : x =< y
  <2> SUFFICES ASSUME NEW y \in S PROVE x =< y
    OBVIOUS
  <2>1. <<y, x>> \in Nat \X Nat /\ <<y, x>>[1] = y /\ <<y, x>>[2] = x
    OBVIOUS
  <2>2. ~ (y < x)
    BY <1>2, <2>1
  <2> QED
    BY <2>2
<1> QED
  BY <1>3 DEF Min

(* A request resolves to one place at most.                                *)
LEMMA ResolveToOne ==
  ASSUME NEW r, NEW colls
  PROVE  \A g, h \in Resolve(r, colls) : g = h
  BY DEF Resolve

(* With nothing known of the collections only `personal` resolves, for a   *)
(* get as always. *)
LEMMA ResolveBlind ==
  ASSUME NEW r, NEW colls
  PROVE  /\ Resolve(r, <<>>) \subseteq {Personal}
         /\ r.coll # Personal => Resolve(r, <<>>) = {}
         /\ r.kind = "get" => Resolve(r, <<>>) \subseteq Resolve(r, colls)
         /\ r.kind = "get" /\ r.coll = Personal => Resolve(r, colls) = {Personal}
  BY DEF Resolve

LEMMA ResolveToHome ==
  ASSUME NEW r, NEW colls \in {<<>>} \cup [Colls -> CollNames]
  PROVE  Resolve(r, colls) \subseteq Homes
<1> DEFINE same == {c \in DOMAIN colls :
                      r.coll = colls[c] \/ (r.kind = "get" /\ r.coll = c)}
<1>1. DOMAIN colls \subseteq Colls
  OBVIOUS
<1>2. same # {} => Min(same) \in Colls
  BY <1>1, MinIsMember, OrderAssumption
<1> QED
  BY <1>2 DEF Resolve, Homes

(* list and export take `personal` for the personal vault exactly when no  *)
(* collection has that name. *)
LEMMA PersonalComesLast ==
  ASSUME NEW r, r.coll = Personal, r.kind # "get", NEW colls \in [Colls -> CollNames]
  PROVE  Resolve(r, colls) = {Personal} <=> \A c \in Colls : colls[c] # Personal
<1> DEFINE same == {c \in DOMAIN colls :
                      r.coll = colls[c] \/ (r.kind = "get" /\ r.coll = c)}
<1>1. DOMAIN colls = Colls
  OBVIOUS
<1>2. same = {} <=> \A c \in Colls : colls[c] # Personal
  BY <1>1
<1>3. same # {} => Min(same) \in Colls
  BY <1>1, MinIsMember, OrderAssumption
<1>4. Personal \notin Colls
  BY OrderAssumption
<1> HIDE DEF same
<1>5. Resolve(r, colls) = IF same = {} THEN {Personal} ELSE {Min(same)}
  BY DEF Resolve, same
<1> QED
  BY <1>2, <1>3, <1>4, <1>5

(* What a request asks for, cipher by cipher. *)
LEMMA AskedMeans ==
  ASSUME NEW r, NEW its, NEW colls, NEW i
  PROVE  i \in Asked(r, its, colls) <=>
           /\ i \in DOMAIN its /\ its[i] \in Item
           /\ its[i].home \in Resolve(r, colls)
           /\ r.kind = "get" => its[i].name = r.item
  BY DEF Asked, Named, Within, Live

-----------------------------------------------------------------------------
LEMMA Initially == Init => VaultInv
<1> SUFFICES ASSUME Init PROVE VaultInv
  OBVIOUS
<1>1. TypeOK
  <2>1. answer \in Answers
    BY DEF Init, NoAnswer, Answers
  <2>2. changes \in 0..MaxChanges
    BY BoundAssumption DEF Init
  <2>3. badKey \subseteq MayBreak /\ badName \subseteq MayBreak /\ badField \subseteq MayBreak
    BY DEF Init
  <2> QED
    BY <2>1, <2>2, <2>3 DEF Init, TypeOK
<1> QED
  BY <1>1 DEF Init, VaultInv, MemoryInv, CommandInv, SnapInv, ScanInv, ReadWasTrue,
              NotFoundIsReal, EnumerationWhole, IndexAgrees, Got, NoAnswer

-----------------------------------------------------------------------------
(* A change of the vault, whoever makes it: what it does to ciphers and    *)
(* collections at once, and that a cipher and its collection's name never  *)
(* change together. *)
Changing ==
  /\ changes' = changes + 1 /\ changes < MaxChanges
  /\ items' \in [Ids -> Item \cup {Unused, Gone}]
  /\ collName' \in [Colls -> CollNames]
  /\ orgKey' \in {orgKey, orgKey + 1}
  /\ relocated' \in BOOLEAN /\ (relocated => relocated')
  /\ right' = right \cup Asked(req, items', collName')
  /\ steady' = steady \cap Asked(req, items', collName')
  /\ UNCHANGED <<health, cache, pc, req, index, todo, snap, target, answer>>
  /\ \A i \in Ids : /\ items[i] # Unused => items'[i] # Unused
                    /\ items'[i] \in Item => items[i] \in Item \cup {Unused}
                    /\ items[i] \in Item /\ items'[i] \in Item =>
                         items'[i].home = items[i].home \/ (relocated' /\ collName' = collName)
  /\ relocated' \/ collName' = collName

LEMMA OtherClientChanges ==
  ASSUME TypeOK, OtherClient
  PROVE  Changing
<1> USE UnusedAssumption DEF TypeOK, Changed, Live
<1>1. ASSUME NEW i \in Ids, NEW it \in Item, Add(i, it) PROVE Changing
  BY <1>1 DEF Add, Changing
<1>2. ASSUME NEW i \in Ids, Delete(i) PROVE Changing
  BY <1>2 DEF Delete, Changing
<1>3. ASSUME NEW i \in Ids, NEW n \in Names, Rename(i, n) PROVE Changing
  <2>1. items[i] \in Item /\ items' = [items EXCEPT ![i].name = n]
    BY <1>3 DEF Rename
  <2>2. items'[i] \in Item /\ items'[i].home = items[i].home
    BY <2>1 DEF Item
  <2>3. items' \in [Ids -> Item \cup {Unused, Gone}] /\ \A j \in Ids \ {i} : items'[j] = items[j]
    BY <2>1, <2>2
  <2> QED
    BY <1>3, <2>1, <2>2, <2>3 DEF Rename, Changing
<1>4. ASSUME NEW i \in Ids, NEW h \in Homes, Move(i, h) PROVE Changing
  <2>1. items[i] \in Item /\ items' = [items EXCEPT ![i].home = h]
    BY <1>4 DEF Move
  <2>2. items'[i] \in Item
    BY <2>1 DEF Item
  <2>3. items' \in [Ids -> Item \cup {Unused, Gone}] /\ \A j \in Ids \ {i} : items'[j] = items[j]
    BY <2>1, <2>2
  <2> QED
    BY <1>4, <2>1, <2>2, <2>3 DEF Move, Changing
<1>5. ASSUME NEW c \in Colls, NEW n \in CollNames, RenameCollection(c, n) PROVE Changing
  BY <1>5 DEF RenameCollection, Changing
<1>6. ASSUME RotateKey PROVE Changing
  BY <1>6 DEF RotateKey, Changing
<1> QED
  BY <1>1, <1>2, <1>3, <1>4, <1>5, <1>6 DEF OtherClient

(* What was true of a memory before a change is true of it after. *)
LEMMA KnownAfterChange ==
  ASSUME TypeOK, Changing, NEW m, Known(m), NEW n, n = m
  PROVE  /\ DOMAIN n.items \subseteq Ids
         /\ n.colls \in {<<>>} \cup [Colls -> CollNames]
         /\ n.key \in 0..orgKey' /\ n.at \in 0..changes'
         /\ \A i \in Live(n.items) :
              /\ items'[i] # Unused
              /\ \/ relocated' \/ i \notin Live(items')
                 \/ items'[i].home = n.items[i].home
         /\ relocated' \/ n.colls \in {<<>>, collName'}
<1>1. n.key \in 0..orgKey' /\ n.at \in 0..changes'
  BY DEF Known, Changing, TypeOK
<1>2. ASSUME NEW i \in Live(n.items)
      PROVE  /\ items'[i] # Unused
             /\ \/ relocated' \/ i \notin Live(items')
                \/ items'[i].home = n.items[i].home
  <2>1. i \in Ids /\ items[i] # Unused /\ (relocated \/ i \notin Live(items) \/ items[i].home = n.items[i].home)
    BY <1>2 DEF Known, Live
  <2>2. items'[i] # Unused
    BY <2>1 DEF Changing
  <2>3. CASE ~ relocated' /\ i \in Live(items')
    <3>1. items'[i] \in Item /\ items[i] \in Item
      BY <2>1, <2>3 DEF Changing, Live
    <3>2. i \in Live(items)
      BY <2>1, <3>1 DEF TypeOK, Live
    <3>3. ~ relocated
      BY <2>3 DEF Changing
    <3>4. items'[i].home = items[i].home
      BY <2>1, <2>3, <3>1 DEF Changing
    <3> QED
      BY <2>1, <2>2, <3>2, <3>3, <3>4
  <2> QED
    BY <2>2, <2>3
<1> QED
  BY <1>1, <1>2 DEF Known, Changing

(* As long as a cipher is steady the request's namespace is the same one.  *)
LEMMA SteadyPinsNamespace ==
  ASSUME TypeOK, Changing, steady \subseteq Asked(req, items, collName), NEW i \in steady'
  PROVE  Resolve(req, collName') = Resolve(req, collName)
<1>1. i \in Asked(req, items, collName) /\ i \in Asked(req, items', collName')
  BY DEF Changing
<1>2. /\ i \in Ids /\ items[i] \in Item /\ items'[i] \in Item
      /\ items[i].home \in Resolve(req, collName)
      /\ items'[i].home \in Resolve(req, collName')
  BY <1>1, AskedMeans DEF TypeOK
<1>3. items'[i].home = items[i].home \/ collName' = collName
  BY <1>2 DEF Changing
<1> QED
  BY <1>2, <1>3, ResolveToOne

LEMMA ChangeKeepsTypes ==
  ASSUME TypeOK, MemoryInv, Changing
  PROVE  TypeOK'
<1>1. changes' \in 0..MaxChanges
  BY BoundAssumption DEF TypeOK, Changing
<1>2. orgKey' \in Nat /\ orgKey <= orgKey' /\ changes <= changes'
  BY DEF TypeOK, Changing
<1>3. right' \subseteq Ids /\ steady' \subseteq right'
  BY AskedMeans DEF TypeOK, Changing
<1>4. UNCHANGED <<badKey, badName, badField, cache, pc, todo, target, answer>>
  BY DEF Changing, health
<1>5. \/ cache = NoCache
      \/ /\ DOMAIN cache.items \subseteq Ids \ Unreadable
         /\ \A i \in DOMAIN cache.items : cache.items[i] \in Item
         /\ DOMAIN cache.colls \in {{}, Colls}
         /\ cache.key <= orgKey' /\ cache.at <= changes'
  <2> SUFFICES ASSUME cache # NoCache PROVE cache.key <= orgKey' /\ cache.at <= changes'
    BY DEF TypeOK
  <2>1. cache.key \in 0..orgKey /\ cache.at \in 0..changes
    BY DEF MemoryInv, Known
  <2>2. orgKey \in Nat /\ changes \in Nat /\ changes' \in Nat
    BY <1>1, BoundAssumption DEF TypeOK
  <2> QED
    BY <1>2, <2>1, <2>2
<1>6. items' \in [Ids -> Item \cup {Unused, Gone}] /\ collName' \in [Colls -> CollNames]
      /\ relocated' \in BOOLEAN
  BY DEF Changing
<1> QED
  BY <1>1, <1>2, <1>3, <1>4, <1>5, <1>6 DEF TypeOK, Unreadable

(* `personal` stays found as long as the namespace is the same one. *)
LEMMA PersonalStays ==
  ASSUME TypeOK, TypeOK', Shadowed, UNCHANGED <<req, target>>,
         Resolve(req, collName') = Resolve(req, collName)
  PROVE  Shadowed' \/ target \in {{}, Resolve(req, collName')}
<1>1. CASE req.kind = "get"
  BY <1>1, ResolveBlind DEF Shadowed
<1>2. CASE req.kind # "get"
  BY <1>2, PersonalComesLast DEF Shadowed, TypeOK
<1> QED
  BY <1>1, <1>2

LEMMA ChangeKeepsInv ==
  ASSUME VaultInv, Changing
  PROVE  VaultInv'
<1> USE DEF VaultInv
<1> /\ health' = health /\ cache' = cache /\ pc' = pc /\ req' = req /\ index' = index
    /\ todo' = todo /\ snap' = snap /\ target' = target /\ answer' = answer
  BY DEF Changing
<1>1. TypeOK'
  BY ChangeKeepsTypes
<1>2. MemoryInv'
  <2>1. cache = NoCache \/ Known(cache)'
    BY KnownAfterChange DEF MemoryInv, Known
  <2>2. pc = "warm" => Known(index)'
    BY KnownAfterChange DEF MemoryInv, Known
  <2>3. pc \in {"collections", "scan"} => Known(snap)'
    BY KnownAfterChange DEF MemoryInv, Known
  <2> QED
    BY <2>1, <2>2, <2>3 DEF MemoryInv
<1> steady \subseteq Asked(req, items, collName)
  BY DEF CommandInv
<1>3. CommandInv'
  <2>1. steady' \subseteq Asked(req, items', collName')
    BY DEF Changing
  <2> SUFFICES ASSUME pc # "idle"
               PROVE  /\ Asked(req, items', collName') \subseteq right'
                      /\ relocated' \/ Shadowed' \/ target \subseteq Resolve(req, collName')
                      /\ \/ steady' = {} \/ Shadowed'
                         \/ target \in {{}, Resolve(req, collName')}
    BY <2>1 DEF CommandInv
  <2>2. Asked(req, items', collName') \subseteq right'
    BY DEF Changing
  <2>3. relocated' \/ Shadowed' \/ target \subseteq Resolve(req, collName')
    BY DEF Changing, CommandInv, Shadowed
  <2>4. ASSUME NEW i \in steady'
        PROVE  Shadowed' \/ target \in {{}, Resolve(req, collName')}
    <3>1. steady # {} /\ Resolve(req, collName') = Resolve(req, collName)
      BY SteadyPinsNamespace DEF Changing
    <3>2. CASE Shadowed
      BY <1>1, <3>1, <3>2, PersonalStays
    <3>3. CASE target \in {{}, Resolve(req, collName)}
      BY <3>1, <3>3
    <3> QED
      BY <3>1, <3>2, <3>3 DEF CommandInv
  <2> QED
    BY <2>2, <2>3, <2>4
<1>4. SnapInv' /\ ScanInv'
  <2> SUFFICES ASSUME pc \in {"collections", "scan"} PROVE SnapInv' /\ ScanInv'
    BY DEF SnapInv, ScanInv
  <2>1. steady' \subseteq steady
    BY DEF Changing
  <2>2. ASSUME NEW i \in steady' PROVE Resolve(req, collName') = Resolve(req, collName)
    BY SteadyPinsNamespace
  <2>3. steady' \subseteq Asked(req, snap.items, collName')
    BY <2>1, <2>2, AskedMeans DEF SnapInv
  <2>4. relocated' \/ Asked(req, snap.items, collName') \subseteq right'
    BY DEF SnapInv, Changing
  <2>5. snap.at # changes'
    BY DEF MemoryInv, Known, Changing, TypeOK
  <2> QED
    BY <2>1, <2>2, <2>3, <2>4, <2>5 DEF SnapInv, ScanInv
<1>5. ReadWasTrue' /\ NotFoundIsReal' /\ EnumerationWhole'
  <2>1. /\ right \subseteq right' /\ steady' \subseteq steady /\ (relocated => relocated')
        /\ relocated' \/ collName' = collName
    BY DEF Changing
  <2>2. UNCHANGED <<badName, Unreadable \cup badField>>
    BY DEF health, Unreadable
  <2>3. ReadWasTrue'
    BY <2>1 DEF ReadWasTrue, Got
  <2>4. NotFoundIsReal'
    BY <2>1, <2>2 DEF NotFoundIsReal, Got
  <2>5. CASE ~ Shadowed
    <3> SUFFICES ASSUME req.kind = "enum", answer.kind = "ok"
                 PROVE  /\ steady' \ (Unreadable' \cup badField') \subseteq answer.ids
                        /\ relocated' \/ answer.ids \subseteq right'
      BY <2>3, <2>4 DEF EnumerationWhole
    <3>1. /\ steady \ (Unreadable \cup badField) \subseteq answer.ids
          /\ relocated \/ answer.ids \subseteq right
      BY <2>5 DEF EnumerationWhole
    <3> QED
      BY <2>1, <2>2, <3>1
  <2>6. CASE Shadowed
    <3> SUFFICES ASSUME req.kind = "enum", ~ Shadowed'
                 PROVE  steady' = {} /\ relocated'
      BY <2>3, <2>4 DEF EnumerationWhole
    <3>1. relocated'
      BY <2>1, <2>6 DEF Shadowed
    <3>2. ASSUME NEW i \in steady' PROVE FALSE
      <4>1. Resolve(req, collName') = Resolve(req, collName)
        BY SteadyPinsNamespace
      <4>2. req.kind # "get" /\ req.coll = Personal
        BY <2>6 DEF Shadowed
      <4> QED
        BY <1>1, <2>6, <4>1, <4>2, PersonalComesLast DEF Shadowed, TypeOK
    <3> QED
      BY <3>1, <3>2
  <2> QED
    BY <2>5, <2>6
<1>6. IndexAgrees'
  BY DEF IndexAgrees, MemoryInv, Known, Changing, TypeOK
<1> QED
  BY <1>1, <1>2, <1>3, <1>4, <1>5, <1>6

-----------------------------------------------------------------------------
(* The index on disk.                                                      *)
CacheInv ==
  /\ \/ cache = NoCache
     \/ /\ DOMAIN cache.items \subseteq Ids \ Unreadable
        /\ \A i \in DOMAIN cache.items : cache.items[i] \in Item
        /\ DOMAIN cache.colls \in {{}, Colls}
        /\ cache.key <= orgKey /\ cache.at <= changes
  /\ cache = NoCache \/ Known(cache)
  /\ IndexAgrees

LEMMA VaultUnfolds ==
  ASSUME UNCHANGED vault
  PROVE  UNCHANGED <<items, collName, badKey, badName, badField, orgKey, changes>>
  BY DEF vault, health

(* Kept or deleted. *)
LEMMA CacheKept ==
  ASSUME VaultInv, UNCHANGED <<vault, relocated>>, cache' \in {cache, NoCache}
  PROVE  CacheInv'
<1> UNCHANGED <<items, collName, badKey, badName, badField, orgKey, changes>>
  BY VaultUnfolds
<1>1. CacheInv
  BY DEF VaultInv, CacheInv, TypeOK, MemoryInv
<1>2. CASE cache' = NoCache
  BY <1>2 DEF CacheInv, IndexAgrees
<1>3. CASE cache' = cache
  BY <1>1, <1>3 DEF CacheInv, IndexAgrees, Known, Unreadable
<1> QED
  BY <1>2, <1>3

(* Written after a sync: it holds what the sync saw and could read. *)
LEMMA CacheWritten ==
  ASSUME VaultInv, UNCHANGED <<vault, relocated>>, pc = "scan", cache' = Indexed
  PROVE  CacheInv'
<1> UNCHANGED <<items, collName, badKey, badName, badField, orgKey, changes>>
  BY VaultUnfolds
<1>1. Known(snap) /\ DOMAIN snap.items = Ids
  BY DEF VaultInv, MemoryInv
<1>2. /\ cache'.items = [i \in Readable \cap Live(snap.items) |-> snap.items[i]]
      /\ cache'.colls = snap.colls /\ cache'.key = snap.key /\ cache'.at = snap.at
  BY DEF Indexed
<1> Unreadable' = Unreadable
  BY DEF Unreadable
<1>3. DOMAIN cache'.items = (Ids \ Unreadable) \cap Live(snap.items)
  BY <1>1, <1>2 DEF Readable, Live
<1>4. \A i \in DOMAIN cache'.items : cache'.items[i] = snap.items[i] /\ snap.items[i] \in Item
  BY <1>2, <1>3 DEF Live
<1>5. snap.key <= orgKey /\ snap.at <= changes
  <2>1. orgKey \in Nat /\ changes \in Nat
    BY BoundAssumption DEF VaultInv, TypeOK
  <2> QED
    BY <1>1, <2>1 DEF Known
<1>6. DOMAIN snap.colls \in {{}, Colls}
  BY <1>1 DEF Known
<1>7. Known(cache)'
  BY <1>1, <1>2, <1>3, <1>4 DEF Known, Live
<1>8. IndexAgrees'
  <2> SUFFICES ASSUME snap.at = changes, NEW r \in Requests
               PROVE  Asked(r, cache'.items, cache'.colls) = Asked(r, items, collName) \ Unreadable
    BY <1>2 DEF IndexAgrees
  <2>1. snap.items = items /\ snap.colls = collName
    BY DEF VaultInv, SnapInv, ScanInv
  <2>2. ASSUME NEW i
        PROVE  (i \in DOMAIN cache'.items /\ cache'.items[i] \in Item) <=>
               (i \in DOMAIN items /\ items[i] \in Item /\ i \notin Unreadable)
    <3>1. i \in DOMAIN cache'.items <=> i \in DOMAIN items /\ items[i] \in Item /\ i \notin Unreadable
      BY <1>1, <1>3, <2>1 DEF Live
    <3> QED
      BY <1>4, <2>1, <3>1
  <2>3. ASSUME NEW i
        PROVE  i \in Asked(r, cache'.items, cache'.colls) <=>
               i \in Asked(r, items, collName) /\ i \notin Unreadable
    <3>1. cache'.colls = collName
      BY <1>2, <2>1
    <3>2. i \in DOMAIN cache'.items => cache'.items[i] = items[i]
      BY <1>4, <2>1
    <3>3. i \in Asked(r, cache'.items, collName) <=>
            /\ i \in DOMAIN cache'.items /\ cache'.items[i] \in Item
            /\ cache'.items[i].home \in Resolve(r, collName)
            /\ r.kind = "get" => cache'.items[i].name = r.item
      BY AskedMeans
    <3>4. i \in Asked(r, items, collName) <=>
            /\ i \in DOMAIN items /\ items[i] \in Item
            /\ items[i].home \in Resolve(r, collName)
            /\ r.kind = "get" => items[i].name = r.item
      BY AskedMeans
    <3> QED
      BY <2>2, <3>1, <3>2, <3>3, <3>4
  <2> QED
    BY <2>3
<1> QED
  BY <1>2, <1>3, <1>4, <1>5, <1>6, <1>7, <1>8 DEF CacheInv

-----------------------------------------------------------------------------
LEMMA TypesOfCommand ==
  ASSUME TypeOK, UNCHANGED <<vault, relocated>>, CacheInv',
         pc' \in {"idle", "warm", "sync", "collections", "scan"},
         todo' \subseteq Ids, target' \subseteq Homes, answer' \in Answers,
         right' \subseteq Ids, steady' \subseteq right'
  PROVE  TypeOK'
  BY VaultUnfolds DEF TypeOK, CacheInv

(* A command begins. *)
LEMMA BeginKeepsInv ==
  ASSUME VaultInv, NEW r, GetIndexed(r) \/ GetCold(r) \/ Enumerate(r)
  PROVE  VaultInv'
<1> UNCHANGED <<items, collName, badKey, badName, badField, orgKey, changes>>
  BY VaultUnfolds DEF GetIndexed, GetCold, Enumerate, Begin
<1>1. /\ req' = r /\ target' = {} /\ answer' = NoAnswer /\ UNCHANGED <<vault, relocated>>
      /\ right' = Asked(r, items, collName) /\ steady' = Asked(r, items, collName)
  BY DEF GetIndexed, GetCold, Enumerate, Begin
<1>2. /\ cache' \in {cache, NoCache}
      /\ \/ pc' = "sync" /\ todo' = {}
         \/ /\ pc' = "warm" /\ cache # NoCache /\ index' = cache /\ r.kind = "get"
            /\ todo' = Asked(r, cache.items, cache.colls)
  BY DEF GetIndexed, GetCold, Enumerate
<1>3. CacheInv'
  BY <1>1, <1>2, CacheKept
<1>4. TypeOK'
  <2>1. right' \subseteq Ids
    BY <1>1, AskedMeans DEF VaultInv, TypeOK
  <2>2. todo' \subseteq Ids
    BY <1>2, AskedMeans DEF VaultInv, TypeOK
  <2>3. answer' \in Answers
    BY <1>1 DEF NoAnswer, Answers
  <2> QED
    BY <1>1, <1>2, <1>3, <2>1, <2>2, <2>3, TypesOfCommand DEF VaultInv
<1>5. MemoryInv'
  <2>1. cache' = NoCache \/ Known(cache)'
    BY <1>3 DEF CacheInv
  <2>2. pc' = "warm" => Known(index)'
    BY <1>1, <1>2 DEF VaultInv, MemoryInv, Known
  <2> QED
    BY <1>1, <1>2, <2>1, <2>2 DEF MemoryInv
<1>6. CommandInv'
  BY <1>1 DEF CommandInv
<1>7. SnapInv' /\ ScanInv'
  BY <1>2 DEF SnapInv, ScanInv
<1>8. ReadWasTrue' /\ NotFoundIsReal' /\ EnumerationWhole' /\ IndexAgrees'
  BY <1>1, <1>3 DEF ReadWasTrue, NotFoundIsReal, EnumerationWhole, Got, NoAnswer, CacheInv
<1> QED
  BY <1>4, <1>5, <1>6, <1>7, <1>8 DEF VaultInv

(* A command ends with an answer that its three properties allow.          *)
LEMMA ReturnKeepsInv ==
  ASSUME VaultInv, CacheInv',
         NEW kind \in {"ok"} \cup Errors, NEW ids \in SUBSET Ids, Return(kind, ids),
         kind = "ok" => relocated \/ (req.kind = "enum" /\ Shadowed) \/ ids \subseteq right,
         kind = "NotFound" /\ req.kind = "get" =>
           steady \subseteq badName \/ (req.coll # Personal /\ DOMAIN snap.colls = {}),
         kind = "ok" /\ req.kind = "enum" /\ ~Shadowed => steady \ (Unreadable \cup badField) \subseteq ids
  PROVE  VaultInv'
<1>1. /\ UNCHANGED <<req, index, todo, snap, target, relocated, right, steady>>
      /\ UNCHANGED <<items, collName, badKey, badName, badField, orgKey, changes>>
      /\ UNCHANGED vault
      /\ answer' = [kind |-> kind, ids |-> ids] /\ pc' = "idle"
  BY VaultUnfolds DEF Return, histories
<1>2. TypeOK'
  <2>1. answer' \in Answers
    BY <1>1 DEF Answers
  <2> QED
    BY <1>1, <2>1, TypesOfCommand DEF VaultInv, TypeOK
<1>3. MemoryInv' /\ CommandInv' /\ SnapInv' /\ ScanInv'
  BY <1>1 DEF VaultInv, CacheInv, MemoryInv, CommandInv, SnapInv, ScanInv
<1>4. answer'.kind = kind /\ answer'.ids = ids
  BY <1>1
<1>5. Shadowed' = Shadowed /\ Unreadable' = Unreadable
  BY <1>1 DEF Shadowed, Unreadable
<1>6. ReadWasTrue' /\ NotFoundIsReal' /\ EnumerationWhole' /\ IndexAgrees'
  BY <1>1, <1>4, <1>5 DEF ReadWasTrue, NotFoundIsReal, EnumerationWhole, Got, CacheInv
<1> QED
  BY <1>2, <1>3, <1>6 DEF VaultInv

(* A command goes on to its next candidate, to a sync, or to the second    *)
(* sync with the namespace it found. *)
LEMMA GoingOnKeepsInv ==
  ASSUME VaultInv, pc # "idle",
         UNCHANGED <<vault, cache, req, index, snap, answer, histories>>,
         todo' \subseteq todo, pc' \in {"warm", "sync"}, pc' = "warm" => pc = "warm",
         target' \subseteq Homes,
         relocated \/ Shadowed' \/ target' \subseteq Resolve(req, collName),
         steady = {} \/ Shadowed' \/ target' \in {{}, Resolve(req, collName)}
  PROVE  VaultInv'
<1>1. /\ UNCHANGED <<items, collName, badKey, badName, badField, orgKey, changes>>
      /\ UNCHANGED <<relocated, right, steady>>
  BY VaultUnfolds DEF histories
<1>2. CacheInv'
  BY CacheKept, <1>1
<1>3. TypeOK'
  BY <1>1, <1>2, TypesOfCommand DEF VaultInv, TypeOK
<1>4. MemoryInv'
  <2>1. pc' = "warm" => Known(index)'
    BY <1>1 DEF VaultInv, MemoryInv, Known
  <2>2. cache' = NoCache \/ Known(cache)'
    BY <1>2 DEF CacheInv
  <2>3. pc' = "warm" => todo' \subseteq Asked(req', index'.items, index'.colls) /\ req'.kind = "get"
    BY DEF VaultInv, MemoryInv
  <2> QED
    BY <2>1, <2>2, <2>3 DEF MemoryInv
<1>5. CommandInv' /\ SnapInv' /\ ScanInv'
  BY <1>1 DEF VaultInv, CommandInv, SnapInv, ScanInv
<1>6. ReadWasTrue' /\ NotFoundIsReal' /\ EnumerationWhole' /\ IndexAgrees'
  BY <1>1, <1>2 DEF VaultInv, CommandInv, ReadWasTrue, NotFoundIsReal, EnumerationWhole,
                    Got, NoAnswer, CacheInv
<1> QED
  BY <1>3, <1>4, <1>5, <1>6 DEF VaultInv

(* The warm path. *)
LEMMA WarmKeepsInv ==
  ASSUME VaultInv, FetchHit \/ FetchOther \/ FetchStale \/ Exhausted
  PROVE  VaultInv'
<1>1. CASE FetchHit
  <2>1. Candidate \in todo
    BY <1>1, MinIsMember, OrderAssumption DEF FetchHit, Candidate, VaultInv, TypeOK
  <2>2. Known(index) /\ Candidate \in Asked(req, index.items, index.colls)
    BY <1>1, <2>1 DEF FetchHit, VaultInv, MemoryInv
  <2>3. PICK c : c = Candidate
    OBVIOUS
  <2>4. /\ c \in DOMAIN index.items /\ index.items[c] \in Item
        /\ index.items[c].home \in Resolve(req, index.colls)
    BY <2>2, <2>3, AskedMeans
  <2>5. c \in DOMAIN items /\ items[c] \in Item /\ items[c].name = req.item
    BY <1>1, <2>3 DEF FetchHit, Live
  <2>6. c \in Ids /\ req.kind = "get"
    BY <1>1, <2>5 DEF FetchHit, VaultInv, TypeOK, MemoryInv
  <2>7. relocated \/ c \in right
    <3> SUFFICES ASSUME ~ relocated PROVE c \in right
      OBVIOUS
    <3>1. items[c].home = index.items[c].home /\ index.colls \in {<<>>, collName}
      BY <2>2, <2>4, <2>5 DEF Known, Live
    <3>2. items[c].home \in Resolve(req, collName)
      BY <2>4, <2>6, <3>1, ResolveBlind
    <3>3. c \in Asked(req, items, collName)
      BY <2>5, <3>2, AskedMeans
    <3> QED
      BY <1>1, <3>3 DEF FetchHit, VaultInv, CommandInv
  <2>8. CacheInv'
    BY <1>1, CacheKept, VaultUnfolds DEF FetchHit, Return, histories
  <2>9. CASE c \in badField
    <3>1. Return("Crypto", {})
      BY <1>1, <2>3, <2>9 DEF FetchHit
    <3> QED
      BY <2>8, <3>1, ReturnKeepsInv DEF Errors
  <2>10. CASE c \notin badField
    <3>1. Return("ok", {c})
      BY <1>1, <2>3, <2>10 DEF FetchHit
    <3> QED
      BY <2>6, <2>7, <2>8, <3>1, ReturnKeepsInv
  <2> QED
    BY <2>9, <2>10
<1>2. CASE FetchOther \/ FetchStale \/ Exhausted
  <2>1. /\ pc = "warm" /\ pc' \in {"warm", "sync"} /\ todo' \subseteq todo
        /\ UNCHANGED <<vault, cache, req, index, snap, target, answer, histories>>
    BY <1>2 DEF FetchOther, FetchStale, Exhausted
  <2>2. /\ target \subseteq Homes
        /\ relocated \/ Shadowed' \/ target \subseteq Resolve(req, collName)
        /\ steady = {} \/ Shadowed' \/ target \in {{}, Resolve(req, collName)}
    BY <2>1, VaultUnfolds DEF VaultInv, TypeOK, CommandInv, Shadowed
  <2> QED
    BY <2>1, <2>2, GoingOnKeepsInv
<1> QED
  BY <1>1, <1>2

(* The two requests of a sync. *)
LEMMA SyncKeepsInv ==
  ASSUME VaultInv, Sync \/ Collections \/ SyncErr
  PROVE  VaultInv'
<1>1. CASE SyncErr
  <2>1. Return("error", {}) /\ UNCHANGED cache
    BY <1>1 DEF SyncErr
  <2>2. CacheInv'
    BY <2>1, CacheKept DEF Return, histories
  <2> QED
    BY <2>1, <2>2, ReturnKeepsInv DEF Errors
<1>2. CASE Sync \/ Collections
  <2>1. /\ UNCHANGED <<items, collName, badKey, badName, badField, orgKey, changes, relocated>>
        /\ UNCHANGED <<vault, cache, req, index, todo, target, answer, right, steady>>
        /\ pc # "idle" /\ pc' \in {"collections", "scan"}
    BY <1>2, VaultUnfolds DEF Sync, Collections, histories
  <2>2. CacheInv'
    BY <2>1, CacheKept
  <2>3. TypeOK'
    BY <2>1, <2>2, TypesOfCommand DEF VaultInv, TypeOK
  <2>4. CommandInv'
    BY <2>1 DEF VaultInv, CommandInv, Shadowed
  <2>5. ReadWasTrue' /\ NotFoundIsReal' /\ EnumerationWhole' /\ IndexAgrees'
    BY <2>1, <2>2 DEF VaultInv, CommandInv, ReadWasTrue, NotFoundIsReal, EnumerationWhole,
                      Got, NoAnswer, CacheInv
  <2>6. cache' = NoCache \/ Known(cache)'
    BY <2>2 DEF CacheInv
  <2>7. MemoryInv' /\ SnapInv' /\ ScanInv'
    <3>1. CASE Sync
      <4>1. /\ snap' = [items |-> items, key |-> orgKey, colls |-> <<>>, at |-> changes]
            /\ pc' = "collections"
        BY <3>1 DEF Sync
      <4>2. orgKey \in Nat /\ changes \in Nat /\ DOMAIN items = Ids
        BY BoundAssumption DEF VaultInv, TypeOK
      <4>3. Known(snap)'
        BY <2>1, <4>1, <4>2, UnusedAssumption DEF Known, Live
      <4>4. MemoryInv'
        BY <2>6, <4>1, <4>2, <4>3 DEF MemoryInv
      <4>5. SnapInv' /\ ScanInv'
        BY <2>1, <2>4, <4>1 DEF CommandInv, SnapInv, ScanInv
      <4> QED
        BY <4>4, <4>5
    <3>2. CASE Collections
      <4>1. pc = "collections" /\ pc' = "scan"
        BY <3>2 DEF Collections
      <4>2. /\ snap'.items = snap.items /\ snap'.key = snap.key /\ snap'.at = snap.at
            /\ snap'.colls = IF snap.key = orgKey THEN collName ELSE <<>>
            /\ snap' = [items |-> snap'.items, key |-> snap'.key, colls |-> snap'.colls,
                        at |-> snap'.at]
        BY <3>2, <4>1 DEF Collections, VaultInv, MemoryInv
      <4>3. Known(snap)'
        BY <2>1, <4>1, <4>2 DEF VaultInv, TypeOK, MemoryInv, Known
      <4>4. MemoryInv'
        BY <2>6, <4>1, <4>2, <4>3 DEF VaultInv, MemoryInv
      <4>5. SnapInv'
        BY <2>1, <4>1, <4>2 DEF VaultInv, SnapInv
      <4>6. ScanInv'
        BY <2>1, <4>1, <4>2 DEF VaultInv, SnapInv, ScanInv
      <4> QED
        BY <4>4, <4>5, <4>6
    <3> QED
      BY <1>2, <3>1, <3>2
  <2> QED
    BY <2>3, <2>4, <2>5, <2>7 DEF VaultInv, CacheInv
<1> QED
  BY <1>1, <1>2

-----------------------------------------------------------------------------
(* What the answers of a sync let a command conclude. *)

(* An item the request finds in them was named at some moment. *)
LEMMA ScannedWasNamed ==
  ASSUME VaultInv, pc = "scan", req.kind = "get", NEW i \in Asked(req, snap.items, snap.colls)
  PROVE  i \in Ids /\ (relocated \/ i \in right)
<1>1. /\ i \in DOMAIN snap.items /\ snap.items[i] \in Item
      /\ snap.items[i].home \in Resolve(req, snap.colls)
      /\ req.kind = "get" => snap.items[i].name = req.item
  BY AskedMeans
<1>2. DOMAIN snap.items = Ids /\ (relocated \/ snap.colls \in {<<>>, collName})
  BY DEF VaultInv, MemoryInv, Known
<1>3. CASE ~ relocated
  <2>1. snap.items[i].home \in Resolve(req, collName)
    BY <1>1, <1>2, <1>3, ResolveBlind
  <2>2. i \in Asked(req, snap.items, collName)
    BY <1>1, <2>1, AskedMeans
  <2> QED
    BY <1>2, <1>3, <2>2, <1>1 DEF VaultInv, SnapInv
<1> QED
  BY <1>1, <1>2, <1>3

(* A steady item is in them, where the request looks for it. *)
LEMMA SteadyIsScanned ==
  ASSUME VaultInv, pc = "scan", NEW i \in steady
  PROVE  /\ i \in Ids /\ snap.items[i] \in Item
         /\ snap.items[i].home \in Resolve(req, collName)
         /\ req.kind = "get" => snap.items[i].name = req.item
<1>1. i \in Asked(req, snap.items, collName) /\ DOMAIN snap.items = Ids
  BY DEF VaultInv, SnapInv, MemoryInv
<1> QED
  BY <1>1, AskedMeans

LEMMA ScanHitKeepsInv ==
  ASSUME VaultInv, ScanHit
  PROVE  VaultInv'
<1>1. Found # {} /\ Found \subseteq Asked(req, snap.items, snap.colls)
      /\ pc = "scan" /\ req.kind = "get"
  BY DEF ScanHit, Found
<1>2. Found \in SUBSET Nat
  BY <1>1, ScannedWasNamed, OrderAssumption
<1>3. PICK c : c = Min(Found)
  OBVIOUS
<1>4. c \in Found
  BY <1>1, <1>2, <1>3, MinIsMember
<1>5. c \in Ids /\ (relocated \/ c \in right)
  BY <1>1, <1>4, ScannedWasNamed
<1>6. CacheInv'
  <2>1. UNCHANGED <<vault, relocated>>
    BY DEF ScanHit, Return, histories
  <2>2. cache' = cache \/ cache' = Indexed
    BY DEF ScanHit, WriteCache
  <2> QED
    BY <1>1, <2>1, <2>2, CacheKept, CacheWritten
<1>7. CASE c \in badField
  <2>1. Return("Crypto", {})
    BY <1>3, <1>7 DEF ScanHit
  <2> QED
    BY <1>6, <2>1, ReturnKeepsInv DEF Errors
<1>8. CASE c \notin badField
  <2>1. Return("ok", {c})
    BY <1>3, <1>8 DEF ScanHit
  <2> QED
    BY <1>1, <1>5, <1>6, <2>1, ReturnKeepsInv
<1> QED
  BY <1>7, <1>8

LEMMA ScanMissKeepsInv ==
  ASSUME VaultInv, ScanMiss
  PROVE  VaultInv'
<1> DEFINE inside == Within(snap.items, Resolve(req, snap.colls))
<1>1. /\ pc = "scan" /\ req.kind = "get" /\ Found = {}
      /\ UNCHANGED <<vault, relocated>> /\ UNCHANGED cache
  BY DEF ScanMiss, Return, histories
<1>2. CacheInv'
  BY <1>1, CacheKept
<1>3. CASE inside \cap badKey # {}
  <2>1. Return("Crypto", {})
    BY <1>3 DEF ScanMiss
  <2> QED
    BY <1>2, <2>1, ReturnKeepsInv DEF Errors
<1>4. CASE inside \cap badKey = {}
  <2>1. Return("NotFound", {})
    BY <1>4 DEF ScanMiss
  <2>2. steady \subseteq badName \/ (req.coll # Personal /\ DOMAIN snap.colls = {})
    <3> SUFFICES ASSUME NEW i \in steady \ badName,
                        req.coll = Personal \/ DOMAIN snap.colls # {}
                 PROVE  FALSE
      OBVIOUS
    <3>1. req.coll = Personal \/ snap.colls # <<>>
      OBVIOUS
    <3>2. Resolve(req, snap.colls) = Resolve(req, collName)
      <4>1. CASE req.coll = Personal
        BY <1>1, <4>1, ResolveBlind
      <4>2. CASE snap.colls # <<>>
        BY <1>1, <4>2 DEF VaultInv, ScanInv
      <4> QED
        BY <3>1, <4>1, <4>2
    <3>3. /\ i \in Ids /\ i \in DOMAIN snap.items /\ snap.items[i] \in Item
          /\ snap.items[i].home \in Resolve(req, snap.colls)
          /\ snap.items[i].name = req.item
      BY <1>1, <3>2, SteadyIsScanned DEF VaultInv, MemoryInv
    <3>4. i \in Asked(req, snap.items, snap.colls)
      BY <3>3, AskedMeans
    <3>5. i \in inside
      BY <3>3 DEF Within, Live
    <3>6. i \in Readable
      BY <1>4, <3>3, <3>5 DEF Readable, Unreadable
    <3> QED
      BY <1>1, <3>4, <3>6 DEF Found
  <2> QED
    BY <1>2, <2>1, <2>2, ReturnKeepsInv DEF Errors
<1> QED
  BY <1>3, <1>4

LEMMA FindNamespaceKeepsInv ==
  ASSUME VaultInv, FindNamespace
  PROVE  VaultInv'
<1> DEFINE homes == Resolve(req, snap.colls)
<1>1. pc = "scan" /\ req.kind = "enum" /\ target = {} /\ cache' = cache
  BY DEF FindNamespace
<1>2. CASE homes = {}
  <2>1. Return("NotFound", {})
    BY <1>2 DEF FindNamespace
  <2>2. CacheInv'
    BY <1>1, <2>1, CacheKept DEF Return, histories
  <2> QED
    BY <1>1, <2>1, <2>2, ReturnKeepsInv DEF Errors
<1>3. CASE homes # {}
  <2>1. /\ target' = homes /\ pc' = "sync"
        /\ UNCHANGED <<vault, cache, req, index, todo, snap, answer, histories>>
    BY <1>1, <1>3 DEF FindNamespace
  <2>2. Known(snap)
    BY <1>1 DEF VaultInv, MemoryInv
  <2>3. homes \subseteq Homes
    BY <2>2, ResolveToHome DEF Known
  <2>4. snap.colls = <<>> => Shadowed' \/ homes = Resolve(req, collName)
    <3> SUFFICES ASSUME snap.colls = <<>> PROVE Shadowed' \/ homes = Resolve(req, collName)
      OBVIOUS
    <3>1. homes = {Personal} /\ req.coll = Personal
      BY <1>3, ResolveBlind
    <3>2. UNCHANGED <<req, collName>> /\ target' = {Personal}
      BY <2>1, <3>1, VaultUnfolds
    <3>3. Shadowed' \/ Resolve(req, collName) = {Personal}
      BY <1>1, <3>1, <3>2, PersonalComesLast DEF Shadowed, VaultInv, TypeOK
    <3> QED
      BY <3>1, <3>3
  <2>5. relocated \/ Shadowed' \/ target' \subseteq Resolve(req, collName)
    BY <2>1, <2>2, <2>4 DEF Known
  <2>6. steady = {} \/ Shadowed' \/ target' \in {{}, Resolve(req, collName)}
    BY <1>1, <2>1, <2>4 DEF VaultInv, ScanInv
  <2> QED
    BY <1>1, <2>1, <2>3, <2>5, <2>6, GoingOnKeepsInv
<1> QED
  BY <1>2, <1>3

LEMMA EnumerateInKeepsInv ==
  ASSUME VaultInv, EnumerateIn
  PROVE  VaultInv'
<1>1. pc = "scan" /\ req.kind = "enum" /\ target # {} /\ DOMAIN snap.items = Ids
  BY DEF EnumerateIn, VaultInv, MemoryInv
<1>2. UNCHANGED <<vault, relocated>>
  BY DEF EnumerateIn, Return, histories
<1>3. /\ relocated \/ Shadowed \/ target \subseteq Resolve(req, collName)
      /\ steady = {} \/ Shadowed \/ target = Resolve(req, collName)
  BY <1>1 DEF VaultInv, CommandInv
<1>4. CASE Return("ok", Enumerated) /\ WriteCache
  <2>1. CacheInv'
    BY <1>1, <1>2, <1>4, CacheKept, CacheWritten DEF WriteCache
  <2>2. Enumerated \in SUBSET Ids
    BY <1>1 DEF Enumerated, Readable
  <2>3. relocated \/ Shadowed \/ Enumerated \subseteq right
    <3> SUFFICES ASSUME ~ relocated, ~ Shadowed, NEW i \in Enumerated PROVE i \in right
      OBVIOUS
    <3>1. i \in DOMAIN snap.items /\ snap.items[i] \in Item /\ snap.items[i].home \in target
      BY DEF Enumerated, Within, Live
    <3>2. i \in Asked(req, snap.items, collName)
      BY <1>1, <1>3, <3>1, AskedMeans
    <3> QED
      BY <1>1, <3>2 DEF VaultInv, SnapInv
  <2>4. Shadowed \/ steady \ (Unreadable \cup badField) \subseteq Enumerated
    <3> SUFFICES ASSUME ~ Shadowed, NEW i \in steady \ (Unreadable \cup badField) PROVE i \in Enumerated
      OBVIOUS
    <3>1. i \in Ids /\ snap.items[i] \in Item /\ snap.items[i].home \in target
      BY <1>1, <1>3, SteadyIsScanned
    <3> QED
      BY <1>1, <3>1 DEF Enumerated, Readable, Within, Live
  <2> QED
    BY <1>1, <1>4, <2>1, <2>2, <2>3, <2>4, ReturnKeepsInv
<1>5. CASE Return("NotFound", {}) /\ UNCHANGED cache
  <2>1. CacheInv'
    BY <1>2, <1>5, CacheKept
  <2> QED
    BY <1>1, <1>5, <2>1, ReturnKeepsInv DEF Errors
<1> QED
  BY <1>4, <1>5 DEF EnumerateIn

-----------------------------------------------------------------------------
(* The invariant holds of every behaviour. *)
THEOREM Invariance == Spec => []VaultInv
<1>1. VaultInv /\ [Next]_vars => VaultInv'
  <2> SUFFICES ASSUME VaultInv, [Next]_vars PROVE VaultInv'
    OBVIOUS
  <2>1. CASE OtherClient
    BY <2>1, OtherClientChanges, ChangeKeepsInv DEF VaultInv
  <2>2. ASSUME NEW r \in Requests, GetIndexed(r) \/ GetCold(r) \/ Enumerate(r)
        PROVE  VaultInv'
    BY <2>2, BeginKeepsInv
  <2>3. CASE FetchHit \/ FetchOther \/ FetchStale \/ Exhausted
    BY <2>3, WarmKeepsInv
  <2>4. CASE Sync \/ Collections \/ SyncErr
    BY <2>4, SyncKeepsInv
  <2>5. CASE ScanHit \/ ScanMiss \/ FindNamespace \/ EnumerateIn
    BY <2>5, ScanHitKeepsInv, ScanMissKeepsInv, FindNamespaceKeepsInv, EnumerateInKeepsInv
  <2>6. CASE UNCHANGED vars
    <3> UNCHANGED <<items, collName, badKey, badName, badField, orgKey, changes, cache, pc, req,
                    index, todo, snap, target, answer, relocated, right, steady>>
      BY <2>6 DEF vars
    <3>1. TypeOK' /\ CommandInv' /\ SnapInv' /\ ScanInv'
      BY DEF VaultInv, TypeOK, CommandInv, SnapInv, ScanInv, Shadowed, Unreadable
    <3>2. MemoryInv'
      BY DEF VaultInv, MemoryInv, Known
    <3>3. ReadWasTrue' /\ NotFoundIsReal' /\ EnumerationWhole' /\ IndexAgrees'
      BY DEF VaultInv, ReadWasTrue, NotFoundIsReal, EnumerationWhole, IndexAgrees, Got,
             Shadowed, Unreadable
    <3> QED
      BY <3>1, <3>2, <3>3 DEF VaultInv
  <2> QED
    BY <2>1, <2>2, <2>3, <2>4, <2>5, <2>6 DEF Next
<1> QED
  BY Initially, <1>1, PTL DEF Spec

(* Every reachable state is well typed. *)
THEOREM TypeCorrect == Spec => []TypeOK
<1>1. VaultInv => TypeOK
  BY DEF VaultInv
<1> QED
  BY Invariance, <1>1, PTL

(* Whatever other clients do between the requests of a get, and however    *)
(* old its index, the item it returns was named by the reference at some   *)
(* moment of the command, unless items or collection names moved           *)
(* (provider.rs 575-577, 797-805). *)
THEOREM ReadsAreTrue == Spec => []ReadWasTrue
<1>1. VaultInv => ReadWasTrue
  BY DEF VaultInv
<1> QED
  BY Invariance, <1>1, PTL

(* What is there all through a get is not "not found", even with a broken  *)
(* key (provider.rs 612-616): only an item whose name does not decrypt is, *)
(* which the scan skips uncounted (623-625). *)
THEOREM NoGhostIsMissed == Spec => []NotFoundIsReal
<1>1. VaultInv => NotFoundIsReal
  BY DEF VaultInv
<1> QED
  BY Invariance, <1>1, PTL

(* list and export return all that is readable and stayed in the namespace *)
(* and, when nothing moved, nothing that was never in it                   *)
(* (provider.rs 472-560). *)
THEOREM EnumerationsAreWhole == Spec => []EnumerationWhole
<1>1. VaultInv => EnumerationWhole
  BY DEF VaultInv
<1> QED
  BY Invariance, <1>1, PTL

(* An index written since the last change sends every get where a full     *)
(* sync would (write_cache). *)
THEOREM IndexIsFaithful == Spec => []IndexAgrees
<1>1. VaultInv => IndexAgrees
  BY DEF VaultInv
<1> QED
  BY Invariance, <1>1, PTL
=============================================================================
