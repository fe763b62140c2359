----------------------------- MODULE VaultRead ------------------------------
(***************************************************************************)
(* How `get`, `list` and `export` read the vault                           *)
(* (crates/vaultwarden/src/provider.rs): a get tries the sealed index      *)
(* first (one targeted request per candidate, the name verified) and falls *)
(* back to a full sync; list and export sync twice.  A sync is two         *)
(* requests, /sync and /collections.  Other clients change the vault       *)
(* between any two requests.                                               *)
(*                                                                         *)
(* One organisation owns the collections; an item is in one collection or  *)
(* in the personal vault.  Items and collections are numbers: the order of *)
(* the server's answers.  The organisation key is a generation number.     *)
(***************************************************************************)
EXTENDS Naturals, FiniteSetsExt

CONSTANTS
  Ids,         \* ciphers
  Colls,       \* collections
  Names,       \* item names
  CollNames,   \* collection names
  MayBreak,    \* ciphers that can have a broken key, name or field
  Kinds,       \* what other clients do to the vault
  MaxChanges,  \* bound: changes of the vault
  Unused,      \* an id not given to a cipher yet
  Gone,        \* a deleted cipher; its id is never used again
  NoCache      \* no cache file, or one that does not unseal

Personal == 0   \* the personal vault, and its name; a collection may have it

ASSUME OrderAssumption == Ids \subseteq Nat /\ Colls \subseteq Nat \ {Personal}
ASSUME NameAssumption == CollNames \cap Colls = {}   \* no name spells an id
ASSUME HealthAssumption == MayBreak \subseteq Ids
ASSUME BoundAssumption == MaxChanges \in Nat

VARIABLES
  items,    \* the ciphers: [name, home], or Unused or Gone
  collName, \* the names of the collections
  badKey,   \* ciphers whose own key does not unwrap
  badName,  \* ciphers whose name does not decrypt (without a key of its own, a
            \* cipher of an organisation without a key is read with the user key)
  badField, \* ciphers with another field that does not decrypt
  orgKey,   \* generation of the organisation key
  changes,  \* changes so far
  cache,    \* the index on disk
  pc,
  req,      \* the command: kind, collection name, item name
  index,    \* the index the command loaded
  todo,     \* warm candidates not yet fetched
  snap,     \* the answers of the sync under way (and, history, when it began)
  target,   \* namespace list and export work on, once found
  answer,   \* what the command returned
  relocated, \* history: an item was moved or a collection renamed
  right,    \* history: items the request named at some moment of the command
  steady    \* history: items it named at every moment of it

health == <<badKey, badName, badField>>
Unreadable == badKey \cup badName   \* ciphers whose names are not to be had
vault == <<items, collName, health, orgKey, changes>>
histories == <<relocated, right, steady>>
vars == <<items, collName, badKey, badName, badField, orgKey, changes, cache, pc,
          req, index, todo, snap, target, answer, relocated, right, steady>>

Homes == Colls \cup {Personal}
Item == [name : Names, home : Homes]
ASSUME UnusedAssumption == Unused # Gone /\ {Unused, Gone} \cap Item = {}

Requests ==
  [kind : {"get"}, coll : CollNames \cup Homes, item : Names]
    \cup [kind : {"enum"}, coll : CollNames \cup {Personal}, item : {Gone}]

NoAnswer == [kind |-> "none", ids |-> {}]
Errors == {"NotFound", "Crypto", "error"}
Answers == [kind : {"none", "ok"} \cup Errors, ids : SUBSET Ids]

Live(its) == {i \in DOMAIN its : its[i] \in Item}

(* Where a request looks; empty when nothing matches.  A get: `personal`    *)
(* first, then the first collection of that name or id (resolve_collection).*)
(* list and export: the first collection of that name, `personal` last.     *)
Resolve(r, colls) ==
  LET same == {c \in DOMAIN colls :
                 r.coll = colls[c] \/ (r.kind = "get" /\ r.coll = c)}
  IN IF r.coll = Personal /\ (r.kind = "get" \/ same = {}) THEN {Personal}
     ELSE IF same = {} THEN {} ELSE {Min(same)}

(* The items of a namespace, and those of them with a name. *)
Within(its, homes) == {i \in Live(its) : its[i].home \in homes}
Named(its, homes, name) == {i \in Within(its, homes) : its[i].name = name}

(* What the request asks for in a vault. *)
Asked(r, its, colls) ==
  LET homes == Resolve(r, colls)
  IN IF r.kind = "get" THEN Named(its, homes, r.item) ELSE Within(its, homes)

TypeOK ==
  /\ items \in [Ids -> Item \cup {Unused, Gone}]
  /\ collName \in [Colls -> CollNames]
  /\ badKey \subseteq MayBreak /\ badName \subseteq MayBreak /\ badField \subseteq MayBreak
  /\ orgKey \in Nat /\ changes \in 0..MaxChanges
  /\ \/ cache = NoCache
     \/ /\ DOMAIN cache.items \subseteq Ids \ Unreadable
        /\ \A i \in DOMAIN cache.items : cache.items[i] \in Item
        /\ DOMAIN cache.colls \in {{}, Colls}
        /\ cache.key <= orgKey /\ cache.at <= changes
  /\ pc \in {"idle", "warm", "sync", "collections", "scan"}
  /\ todo \subseteq Ids
  /\ target \subseteq Homes
  /\ answer \in Answers
  /\ relocated \in BOOLEAN /\ right \subseteq Ids /\ steady \subseteq right

Init ==
  /\ items \in [Ids -> Item \cup {Unused}]
  /\ collName \in [Colls -> CollNames]
  /\ badKey \in SUBSET MayBreak /\ badName \in SUBSET (MayBreak \ badKey)
  /\ badField \in SUBSET (MayBreak \ Unreadable)
  /\ orgKey = 0 /\ changes = 0
  /\ cache = NoCache
  /\ pc = "idle"
  /\ req = [kind |-> "get", coll |-> Personal, item |-> CHOOSE n \in Names : TRUE]
  /\ index = NoCache /\ todo = {} /\ snap = NoCache /\ target = {}
  /\ answer = NoAnswer
  /\ relocated = FALSE /\ right = {} /\ steady = {}

-----------------------------------------------------------------------------
(* Other clients of the server.                                            *)

Changed(its, colls) ==
  /\ changes < MaxChanges
  /\ changes' = changes + 1
  /\ items' = its /\ collName' = colls
  /\ right' = right \cup Asked(req, its, colls)
  /\ steady' = steady \cap Asked(req, its, colls)
  /\ UNCHANGED <<health, cache, pc, req, index, todo, snap, target, answer>>

Add(i, it) ==
  /\ "add" \in Kinds /\ items[i] = Unused
  /\ Changed([items EXCEPT ![i] = it], collName) /\ UNCHANGED <<orgKey, relocated>>

Delete(i) ==
  /\ "delete" \in Kinds /\ i \in Live(items)
  /\ Changed([items EXCEPT ![i] = Gone], collName) /\ UNCHANGED <<orgKey, relocated>>

Rename(i, n) ==
  /\ "rename" \in Kinds /\ i \in Live(items)
  /\ Changed([items EXCEPT ![i].name = n], collName) /\ UNCHANGED <<orgKey, relocated>>

Move(i, h) ==
  /\ "move" \in Kinds /\ i \in Live(items)
  /\ Changed([items EXCEPT ![i].home = h], collName) /\ UNCHANGED orgKey
  /\ relocated' = TRUE

RenameCollection(c, n) ==
  /\ "renameCollection" \in Kinds
  /\ Changed(items, [collName EXCEPT ![c] = n]) /\ UNCHANGED orgKey
  /\ relocated' = TRUE

(* Everything the organisation owns is sealed under a new key. *)
RotateKey ==
  /\ "rotate" \in Kinds
  /\ Changed(items, collName) /\ orgKey' = orgKey + 1
  /\ UNCHANGED relocated

OtherClient ==
  \/ \E i \in Ids : \/ \E it \in Item : Add(i, it)
                    \/ Delete(i)
                    \/ \E n \in Names : Rename(i, n)
                    \/ \E h \in Homes : Move(i, h)
  \/ \E c \in Colls, n \in CollNames : RenameCollection(c, n)
  \/ RotateKey

-----------------------------------------------------------------------------
(* get_secret, the warm path.                                              *)

Begin(r) ==
  /\ pc = "idle"
  /\ req' = r
  /\ snap' = NoCache /\ target' = {} /\ answer' = NoAnswer
  /\ right' = Asked(r, items, collName)
  /\ steady' = Asked(r, items, collName)
  /\ UNCHANGED <<vault, relocated>>

(* The index is loaded once, and the candidates are taken from it. *)
GetIndexed(r) ==
  /\ Begin(r) /\ r.kind = "get"
  /\ cache # NoCache
  /\ index' = cache
  /\ todo' = Asked(r, cache.items, cache.colls)
  /\ pc' = "warm"
  /\ UNCHANGED cache

(* No index, or --refresh-cache has just deleted it. *)
GetCold(r) ==
  /\ Begin(r) /\ r.kind = "get"
  /\ cache' = NoCache
  /\ index' = NoCache /\ todo' = {}
  /\ pc' = "sync"

Return(kind, ids) ==
  /\ answer' = [kind |-> kind, ids |-> ids]
  /\ pc' = "idle"
  /\ UNCHANGED <<vault, req, index, todo, snap, target, histories>>

Candidate == Min(todo)

(* The container key a command with this index has for the cipher as it is  *)
(* on the server now. *)
KeyFits(i) == items[i].home = Personal \/ index.key = orgKey

(* Mutant: the name of the fetched cipher is not verified. *)
FetchHitUnverified ==
  /\ pc = "warm" /\ todo # {}
  /\ Candidate \in Live(items) /\ KeyFits(Candidate) /\ Candidate \notin Unreadable
  /\ IF Candidate \in badField THEN Return("Crypto", {}) ELSE Return("ok", {Candidate})
  /\ UNCHANGED cache

(* The fetched cipher has the name that was asked for; its collection is not *)
(* looked at. *)
FetchHit ==
  /\ pc = "warm" /\ todo # {}
  /\ Candidate \in Live(items) /\ KeyFits(Candidate) /\ Candidate \notin Unreadable
  /\ items[Candidate].name = req.item
  /\ IF Candidate \in badField THEN Return("Crypto", {}) ELSE Return("ok", {Candidate})
  /\ UNCHANGED cache

(* Deleted, renamed, or the request failed: the next candidate. *)
FetchOther ==
  /\ pc = "warm" /\ todo # {}
  /\ todo' = todo \ {Candidate}
  /\ UNCHANGED <<vault, cache, pc, req, index, snap, target, answer, histories>>

(* Its key does not unwrap, or its name does not decrypt: resync. *)
FetchStale ==
  /\ pc = "warm" /\ todo # {}
  /\ Candidate \in Live(items)
  /\ ~KeyFits(Candidate) \/ Candidate \in Unreadable
  /\ pc' = "sync"
  /\ UNCHANGED <<vault, cache, req, index, todo, snap, target, answer, histories>>

Exhausted ==
  /\ pc = "warm" /\ todo = {}
  /\ pc' = "sync"
  /\ UNCHANGED <<vault, cache, req, index, todo, snap, target, answer, histories>>

-----------------------------------------------------------------------------
(* sync_and_keys.                                                          *)

(* list and export: no index is read. *)
Enumerate(r) ==
  /\ Begin(r) /\ r.kind = "enum"
  /\ index' = NoCache /\ todo' = {}
  /\ pc' = "sync"
  /\ UNCHANGED cache

(* The ciphers and the organisation keys, in one answer. *)
Sync ==
  /\ pc = "sync"
  /\ snap' = [items |-> items, key |-> orgKey, colls |-> <<>>, at |-> changes]
  /\ pc' = "collections"
  /\ UNCHANGED <<vault, cache, req, index, todo, target, answer, histories>>

(* The collections, in another: names that the keys of the first answer do  *)
(* not decrypt are dropped. *)
Collections ==
  /\ pc = "collections"
  /\ snap' = [snap EXCEPT !.colls = IF snap.key = orgKey THEN collName ELSE <<>>]
  /\ pc' = "scan"
  /\ UNCHANGED <<vault, cache, req, index, todo, target, answer, histories>>

(* A request fails, or the private key or an organisation key does not open. *)
SyncErr ==
  /\ pc \in {"sync", "collections"}
  /\ Return("error", {})
  /\ UNCHANGED cache

Readable == {i \in DOMAIN snap.items : i \notin Unreadable}

(* Mutants: the index keeps the ciphers it cannot read; it forgets the      *)
(* collections they are in. *)
IndexedAll ==
  [items |-> snap.items, colls |-> snap.colls, key |-> snap.key, at |-> snap.at]
IndexedHomeless ==
  [items |-> [i \in Readable \cap Live(snap.items) |->
                [snap.items[i] EXCEPT !.home = Personal]],
   colls |-> snap.colls, key |-> snap.key, at |-> snap.at]

(* write_cache: the ciphers whose names decrypt; best effort. *)
Indexed ==
  [items |-> [i \in Readable \cap Live(snap.items) |-> snap.items[i]],
   colls |-> snap.colls, key |-> snap.key, at |-> snap.at]
WriteCache == cache' \in {cache, Indexed}

-----------------------------------------------------------------------------
(* get_secret, the miss path.                                              *)

Found == Readable \cap Asked(req, snap.items, snap.colls)

ScanHit ==
  /\ pc = "scan" /\ req.kind = "get"
  /\ Found # {}
  /\ IF Min(Found) \in badField
     THEN Return("Crypto", {}) /\ UNCHANGED cache
     ELSE Return("ok", {Min(Found)}) /\ WriteCache

(* Mutant: the ciphers that did not unwrap are not counted. *)
ScanMissGhost ==
  /\ pc = "scan" /\ req.kind = "get"
  /\ Found = {}
  /\ Return("NotFound", {})
  /\ UNCHANGED cache

(* No match: a cipher of the collection whose key did not unwrap might have *)
(* been it; one whose name did not decrypt is skipped without being counted.*)
ScanMiss ==
  /\ pc = "scan" /\ req.kind = "get"
  /\ Found = {}
  /\ LET inside == Within(snap.items, Resolve(req, snap.colls))
     IN Return(IF inside \cap badKey = {} THEN "NotFound" ELSE "Crypto", {})
  /\ UNCHANGED cache

-----------------------------------------------------------------------------
(* list and export.                                                        *)

(* list_namespaces is answered by the first sync: the namespaces are the     *)
(* collections, then `personal`.                                             *)
FindNamespace ==
  /\ pc = "scan" /\ req.kind = "enum" /\ target = {}
  /\ IF Resolve(req, snap.colls) = {}
     THEN Return("NotFound", {})
     ELSE /\ target' = Resolve(req, snap.colls)
          /\ pc' = "sync"
          /\ UNCHANGED <<vault, req, index, todo, snap, answer, histories>>
  /\ UNCHANGED cache

(* Mutant: the items are taken from the whole organisation. *)
EnumeratedAnywhere == (Readable \ badField) \cap Live(snap.items)

Enumerated == (Readable \ badField) \cap Within(snap.items, target)

(* The second sync: the namespace by its id; what does not decrypt is left   *)
(* out.                                                                      *)
EnumerateIn ==
  /\ pc = "scan" /\ req.kind = "enum" /\ target # {}
  /\ IF target \subseteq DOMAIN snap.colls \cup {Personal}
     THEN Return("ok", Enumerated) /\ WriteCache
     ELSE Return("NotFound", {}) /\ UNCHANGED cache

-----------------------------------------------------------------------------
Next ==
  \/ OtherClient
  \/ \E r \in Requests : GetIndexed(r) \/ GetCold(r) \/ Enumerate(r)
  \/ FetchHit \/ FetchOther \/ FetchStale \/ Exhausted
  \/ Sync \/ Collections \/ SyncErr
  \/ ScanHit \/ ScanMiss
  \/ FindNamespace \/ EnumerateIn

Spec == Init /\ [][Next]_vars

-----------------------------------------------------------------------------
(* Properties.                                                             *)

Got(kind) == req.kind = "get" /\ answer.kind = kind

(* The warm path verifies what it fetched (provider.rs 575-577, 797-805):    *)
(* however old the index, and whatever happens between its requests, a get   *)
(* returns an item that the reference named at some moment of the command,   *)
(* as long as items stay in their collections and these keep their names.    *)
ReadWasTrue == Got("ok") /\ ~relocated => answer.ids \subseteq right

(* A "not found" is no ghost for any item with a name (provider.rs 612-616): *)
(* when an item has the name and the place asked for all through the         *)
(* command, even one whose key or field is broken, the answer is not         *)
(* NotFound, unless it is in a collection and the organisation key changed   *)
(* between /sync and /collections.  The exception is an item whose key opens *)
(* and whose name does not decrypt: the scan passes over it without counting *)
(* it (623-625), and the code does report it missing.                        *)
NotFoundIsReal ==
  Got("NotFound") =>
    steady \subseteq badName \/ (req.coll # Personal /\ DOMAIN snap.colls = {})

(* `personal` was looked up, and found, though a collection has that name.   *)
Shadowed ==
  /\ req.coll = Personal /\ target = {Personal}
  /\ \E c \in Colls : collName[c] = Personal

(* list and export return what was in the namespace, whole: everything       *)
(* readable that stayed there and, with no move or rename of collections,    *)
(* nothing that was never there.  One case is excepted: the name asked for   *)
(* was `personal`, and a collection of that name was hidden by a change of   *)
(* the organisation key between /sync and /collections.                      *)
EnumerationWhole ==
  req.kind = "enum" /\ answer.kind = "ok" /\ ~Shadowed =>
    /\ steady \ (Unreadable \cup badField) \subseteq answer.ids
    /\ relocated \/ answer.ids \subseteq right

(* Self-healing (design D4): an index written since the last change of the   *)
(* vault sends every get to the ciphers a full sync would find, those whose  *)
(* names cannot be read aside; so the next get of any reference is a warm hit.*)
IndexAgrees ==
  cache # NoCache /\ cache.at = changes =>
    \A r \in Requests :
      Asked(r, cache.items, cache.colls) = Asked(r, items, collName) \ Unreadable

(* The sync-cache design (proposal 56-60, design D4) on a move: every        *)
(* mutation leads to the miss path, so an item that was never where the      *)
(* reference says during the command is not returned.                        *)
MoveIsSeen == Got("ok") => answer.ids \subseteq right

-----------------------------------------------------------------------------
(* The inductive invariant behind the four.                                *)

(* An index, or the answers of a sync, is a memory of the vault: a cipher  *)
(* it knows is never unused again, and is where it was unless relocated.   *)
Known(m) ==
  /\ DOMAIN m.items \subseteq Ids
  /\ m.colls \in {<<>>} \cup [Colls -> CollNames]
  /\ m.key \in 0..orgKey /\ m.at \in 0..changes
  /\ \A i \in Live(m.items) :
       /\ items[i] # Unused
       /\ relocated \/ i \notin Live(items) \/ items[i].home = m.items[i].home
  /\ relocated \/ m.colls \in {<<>>, collName}

MemoryInv ==
  /\ cache = NoCache \/ Known(cache)
  /\ pc = "warm" =>
       /\ Known(index) /\ req.kind = "get"
       /\ todo \subseteq Asked(req, index.items, index.colls)
  /\ pc \in {"collections", "scan"} =>
       /\ Known(snap) /\ DOMAIN snap.items = Ids
       /\ snap = [items |-> snap.items, key |-> snap.key, colls |-> snap.colls, at |-> snap.at]

(* A command without an answer: what it names now lies between the two     *)
(* histories, and the namespace it found is still the one it was asked for.*)
CommandInv ==
  /\ steady \subseteq Asked(req, items, collName)
  /\ pc # "idle" =>
       /\ answer = NoAnswer
       /\ Asked(req, items, collName) \subseteq right
       /\ relocated \/ Shadowed \/ target \subseteq Resolve(req, collName)
       /\ steady = {} \/ Shadowed \/ target \in {{}, Resolve(req, collName)}

(* So are the answers of the sync under way.                               *)
SnapInv ==
  pc \in {"collections", "scan"} =>
    /\ steady \subseteq Asked(req, snap.items, collName)
    /\ relocated \/ Asked(req, snap.items, collName) \subseteq right
    /\ snap.at = changes => snap.items = items /\ snap.key = orgKey
    /\ pc = "collections" => snap.colls = <<>>

ScanInv ==
  pc = "scan" =>
    /\ \/ steady = {} \/ snap.colls = <<>>
       \/ Resolve(req, snap.colls) = Resolve(req, collName)
    /\ snap.at = changes => snap.colls = collName

VaultInv ==
  /\ TypeOK /\ MemoryInv /\ CommandInv /\ SnapInv /\ ScanInv
  /\ ReadWasTrue /\ NotFoundIsReal /\ EnumerationWhole /\ IndexAgrees
=============================================================================
