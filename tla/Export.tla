------------------------------- MODULE Export -------------------------------
(***************************************************************************)
(* From the ciphers of a namespace to what `cryptile export` prints:       *)
(* map_cipher (crates/vaultwarden/src/mapping.rs) puts each cipher into a  *)
(* bag of named fields, and the command (crates/cli/src/main.rs) prints    *)
(* the bags field by field as KEY=value lines with unique keys, or as one  *)
(* JSON object.                                                            *)
(*                                                                         *)
(* A value is a sequence over Chars.  An environment key is the mangled    *)
(* name, Base[name], followed by the suffix numbers of its collisions; a   *)
(* name that spells such a suffix itself has the longer sequence as base.  *)
(***************************************************************************)
EXTENDS Envelope, FiniteSets, SequencesExt

CONSTANTS
  Vaults,      \* the accounts, with the ciphers of the namespace asked for
  NameOrder,   \* the field names, in byte order
  Base         \* a field name in upper case with [^A-Z0-9] as '_'

Chars == {"n", "bs", "nl", "nul", "key"}
  \* 'n', backslash, newline, NUL, the first line of a private key
Names == {NameOrder[i] : i \in DOMAIN NameOrder}
Formats == {"env", "json"}

ASSUME BaseAssumption ==
  \A name \in Names : /\ Len(Base[name]) \in Nat
                      /\ Base[name] = [i \in 1..Len(Base[name]) |-> Base[name][i]]
ASSUME NameOrderAssumption ==
  /\ Len(NameOrder) \in Nat /\ DOMAIN NameOrder = 1..Len(NameOrder)
  /\ \A i, j \in DOMAIN NameOrder : NameOrder[i] = NameOrder[j] => i = j
  /\ {"uri", "uris", "notes"} \subseteq Names

VARIABLES
  account,   \* the profile: private key and organisations, both sealed
  session,   \* the user key in the sealed session
  ciphers,   \* the ciphers of the namespace, in the server's order
  format,
  fields,    \* the fields to print: name and value, items in order
  next,      \* the field the loop is at
  seen,      \* environment keys used
  out,       \* stdout
  exit

vault == <<account, session, ciphers>>
printing == <<fields, next, seen, out, exit>>
vars == <<vault, format, printing>>

-----------------------------------------------------------------------------
(* map_cipher *)

Opened == OrgKeys(account, session)

ItemKey(c) == EffectiveKey(c.key, KeyFor(c.org, Opened, session))

Given(wire) == wire \notin {Absent, Empty}

(* What a sync may hold: lists of values that are absent, empty or an      *)
(* EncString of a text, under the names there are.                         *)
Carries(wire, texts) == Given(wire) => wire.text \in texts

WellTyped(c) ==
  /\ \A list \in {c.typed, c.uris, c.custom} : list \in Seq(ToSet(list))
  /\ c.name # Absent /\ (Given(c.name) => c.name.text \in Seq(ToSet(c.name.text)))
  /\ \A wire \in {f.wire : f \in ToSet(c.typed) \cup ToSet(c.custom)}
                  \cup ToSet(c.uris) \cup {c.notes} : Carries(wire, Seq(Chars))
  /\ \A f \in ToSet(c.typed) : f.key \in Names
  /\ \A f \in ToSet(c.custom) : Carries(f.name, {<<>>} \cup {<<n>> : n \in Names})

Entry(key, text) == [key |-> key, text |-> text]

(* A value that is not on the wire, or is empty there, is not inserted.    *)
InsertIf(name, wire, key) ==
  IF Given(wire) THEN <<Entry(name, Dec(wire, key))>> ELSE <<>>

TypedEntries(typed, key) ==
  FlattenSeq([i \in DOMAIN typed |-> InsertIf(typed[i].key, typed[i].wire, key)])

(* The first URI, and all of them when there are several: joined, and      *)
(* broken as soon as one is.                                               *)
Joined(texts) ==
  IF Failed \in ToSet(texts) THEN Failed
  ELSE FlattenSeq([i \in DOMAIN texts |->
         IF i = 1 THEN texts[i] ELSE <<"nl">> \o texts[i]])

Texts(uris, key) ==
  FlattenSeq([i \in DOMAIN uris |->
                IF Given(uris[i]) THEN <<Dec(uris[i], key)>> ELSE <<>>])

UriEntries(uris, key) ==
  LET texts == Texts(uris, key)
  IN  CASE Len(texts) = 0 -> <<>>
        [] Len(texts) = 1 -> <<Entry("uri", texts[1])>>
        [] OTHER          -> <<Entry("uri", texts[1]),
                               Entry("uris", Joined(texts))>>

(* A custom field without a name or a value is skipped, and so is one whose*)
(* name decrypts to nothing, before its value is decrypted.                *)
CustomEntry(field, key) ==
  LET name == Dec(field.name, key)
  IN  IF ~ Given(field.name) \/ ~ Given(field.wire) \/ name = <<>> THEN <<>>
      ELSE <<Entry(IF name = Failed THEN Failed ELSE name[1], Dec(field.wire, key))>>

CustomEntries(custom, key) ==
  FlattenSeq([i \in DOMAIN custom |-> CustomEntry(custom[i], key)])

(* Everything map_cipher inserts into the bag, in its order: the fields of *)
(* the cipher's type, the notes, the custom fields.                        *)
BuiltIn(c) ==
  TypedEntries(c.typed, ItemKey(c)) \o UriEntries(c.uris, ItemKey(c))

Entries(c) ==
  (BuiltIn(c) \o InsertIf("notes", c.notes, ItemKey(c)))
    \o CustomEntries(c.custom, ItemKey(c))

(* The name that get compares and list prints. *)
NameOf(c) == IF ItemKey(c) = Failed THEN Failed ELSE Dec(c.name, ItemKey(c))

(* mutant: only the name is required to decrypt. *)
MappedByName(c) == NameOf(c) # Failed

(* One field that does not decrypt and the cipher is not mapped at all. *)
Mapped(c) ==
  /\ NameOf(c) # Failed
  /\ \A e \in ToSet(Entries(c)) : e.key # Failed /\ e.text # Failed

KeysOf(list) == {e.key : e \in ToSet(list)}

(* The text under a name that was inserted last. *)
Latest(list, name) ==
  LET under == {i \in DOMAIN list : list[i].key = name}
  IN  list[CHOOSE i \in under : \A j \in under : j <= i].text

(* mutant: the first of two fields of the same name stays. *)
BagFirst(c) ==
  LET under(name) == {i \in DOMAIN Entries(c) : Entries(c)[i].key = name}
  IN  [name \in KeysOf(Entries(c)) |-> Entries(c)[Min(under(name))].text]

(* The last insert of a name wins. *)
Bag(c) == [name \in KeysOf(Entries(c)) |-> Latest(Entries(c), name)]

-----------------------------------------------------------------------------
(* mangle_env_key and escape_env_value *)

Candidate(base, n) == IF n = 0 THEN base ELSE Append(base, n)

(* mutant: one suffix is tried, and its key is not looked up. *)
MangledOnce(name, used) ==
  IF Base[name] \in used THEN Candidate(Base[name], 1) ELSE Base[name]

(* The base, or the base with the first suffix that is free. *)
Mangled(name, used) ==
  LET free == {n \in 0..Cardinality(used) : Candidate(Base[name], n) \notin used}
  IN  Candidate(Base[name], CHOOSE n \in free : \A m \in free : n <= m)

Replace(text, char, with) ==
  FlattenSeq([i \in DOMAIN text |->
                IF text[i] = char THEN with ELSE <<text[i]>>])

(* mutant: the replacements in the other order. *)
EscapedNewlineFirst(text) ==
  Replace(Replace(text, "nl", <<"bs", "n">>), "bs", <<"bs", "bs">>)

Escaped(text) ==
  Replace(Replace(text, "bs", <<"bs", "bs">>), "nl", <<"bs", "n">>)

-----------------------------------------------------------------------------
Init ==
  /\ \E v \in Vaults : account = v.account /\ ciphers = v.ciphers
  /\ session = "user"
  /\ format \in Formats
  /\ fields = <<>> /\ next = 0
  /\ seen = {} /\ out = <<>> /\ exit = "none"

FieldsOf(bag) ==
  FlattenSeq([i \in DOMAIN NameOrder |->
                LET name == NameOrder[i]
                IN  IF name \in DOMAIN bag
                    THEN <<[name |-> name, value |-> bag[name]]>> ELSE <<>>])

(* get_namespace_secrets: the ciphers that map, the others left out.       *)
Secrets ==
  FlattenSeq([i \in DOMAIN ciphers |->
                IF Mapped(ciphers[i]) THEN FieldsOf(Bag(ciphers[i])) ELSE <<>>])

Collect ==
  /\ next = 0 /\ exit = "none"
  /\ Opened # Failed
  /\ fields' = Secrets
  /\ next' = 1
  /\ UNCHANGED <<vault, format, seen, out, exit>>

(* The private key or an organisation's key does not open: exit code 4.    *)
KeysClosed ==
  /\ next = 0 /\ exit = "none"
  /\ Opened = Failed
  /\ exit' = "fault"
  /\ UNCHANGED <<vault, format, fields, next, seen, out>>

Printing(how) == next > 0 /\ exit = "none" /\ format = how

(* One object, each name with the value inserted last, printed at once. *)
Object ==
  [name \in {f.name : f \in ToSet(fields)} |->
     LET at == {i \in DOMAIN fields : fields[i].name = name}
     IN  fields[CHOOSE i \in at : \A j \in at : j <= i].value]

PrintJson ==
  /\ Printing("json")
  /\ out' = Object
  /\ exit' = "ok"
  /\ UNCHANGED <<vault, format, fields, next, seen>>

HasNul == next \in DOMAIN fields /\ "nul" \in ToSet(fields[next].value)

PrintLine ==
  /\ Printing("env")
  /\ next \in DOMAIN fields
  /\ ~ HasNul
  /\ LET key == Mangled(fields[next].name, seen)
     IN  /\ seen' = seen \cup {key}
         /\ out' = Append(out, [key |-> key,
                                text |-> Escaped(fields[next].value)])
  /\ next' = next + 1
  /\ UNCHANGED <<vault, format, fields, exit>>

(* Exit code 6, the lines before it already printed. *)
RefuseNul ==
  /\ Printing("env")
  /\ HasNul
  /\ exit' = "nul"
  /\ UNCHANGED <<vault, format, fields, next, seen, out>>

Done ==
  /\ Printing("env")
  /\ next > Len(fields)
  /\ exit' = "ok"
  /\ UNCHANGED <<vault, format, fields, next, seen, out>>

Next == Collect \/ KeysClosed \/ PrintJson \/ PrintLine \/ RefuseNul \/ Done

Spec == Init /\ [][Next]_vars

-----------------------------------------------------------------------------
(* No two lines of an export have the same key, whatever the names in the  *)
(* namespace and however they spell the collision suffix.                  *)
KeysDistinct ==
  format = "env" =>
    \A i, j \in DOMAIN out : out[i].key = out[j].key => i = j

(* What a reader of an env line makes of its value, character by character.*)
ReadOne(before, char) ==
  IF char = "bs" /\ ~ before.escape
    THEN [value |-> before.value, escape |-> TRUE]
    ELSE [value |-> Append(before.value,
                           IF char = "n" /\ before.escape THEN "nl" ELSE char),
          escape |-> FALSE]

Unescaped(text) ==
  LET read[i \in 0..Len(text)] ==
        IF i = 0 THEN [value |-> <<>>, escape |-> FALSE]
        ELSE ReadOne(read[i - 1], text[i])
  IN  read[Len(text)].value

(* Each value is on one line, from which it can be read back: a backslash  *)
(* followed by an n is not taken for a newline.                            *)
ValuesReadBack ==
  format = "env" =>
    \A i \in DOMAIN out : /\ "nl" \notin ToSet(out[i].text)
                          /\ Unescaped(out[i].text) = fields[i].value

(* What a cipher holds under a name: the custom field first. *)
NamesOf(c) == KeysOf(Entries(c))

Holds(c, name) ==
  LET custom == CustomEntries(c.custom, ItemKey(c))
  IN  IF name \in KeysOf(custom) THEN Latest(custom, name)
      ELSE IF name = "notes" /\ Given(c.notes) THEN Dec(c.notes, ItemKey(c))
      ELSE Latest(BuiltIn(c), name)

(* The fields to export: a cipher that maps, and a name it holds. *)
Pairs ==
  UNION {{i} \X NamesOf(ciphers[i]) : i \in {j \in DOMAIN ciphers : Mapped(ciphers[j])}}

(* An export that ends well has one line per non-empty field of every      *)
(* cipher of the namespace that decrypts, with what the cipher holds under *)
(* the name (map_cipher, main.rs Export).                                  *)
ExportIsWhole ==
  (exit = "ok" /\ format \in Formats) =>
    /\ format = "env" => Len(out) = Cardinality(Pairs)
    /\ \A pair \in Pairs :
         LET value == Holds(ciphers[pair[1]], pair[2])
         IN  IF format = "env"
               THEN \E line \in ToSet(out) : Unescaped(line.text) = value
               ELSE /\ pair[2] \in DOMAIN out
                    /\ (\A other \in Pairs : other[2] = pair[2] => other = pair)
                         => out[pair[2]] = value

(* The keys that the account's own user key leads to for a cipher: by way  *)
(* of the private key and the cipher's own organisation, and of the        *)
(* cipher's key if it has one.                                             *)
LeadsTo(from, wire, to) == wire.seal = from /\ wire.text = Blob(to)

Containers(c) ==
  LET mine == {i \in Keyed(account) : account.orgs[i].id = c.org}
  IN  IF mine = {} THEN {"user"}
      ELSE {k \in Keys : \E private \in Keys, i \in mine :
              /\ LeadsTo("user", account.privateKey, private)
              /\ LeadsTo(private, account.orgs[i].key, k)}

KeysFor(c) ==
  IF ~ Given(c.key) THEN Containers(c)
  ELSE {k \in Keys : \E container \in Containers(c) : LeadsTo(container, c.key, k)}

Intact(wire, c) ==
  wire.seal \in KeysFor(c) /\ wire.padded /\ wire.type \in WithMac

WiresOf(c) ==
  {f.wire : f \in ToSet(c.typed) \cup ToSet(c.custom)} \cup ToSet(c.uris) \cup {c.notes}

(* Whatever is printed was sealed, intact, under such a key: nothing of a  *)
(* damaged EncString and nothing of another key's comes out                *)
(* (crypto/encstring.rs: "Fails closed").                                  *)
FailsClosed ==
  \A f \in ToSet(fields) : \E c \in ToSet(ciphers) :
    \/ \E wire \in WiresOf(c) : Given(wire) /\ Intact(wire, c) /\ f.value = wire.text
    \/ f.name = "uris" /\ \A wire \in ToSet(c.uris) : Given(wire) => Intact(wire, c)

(* A NUL in a value: "export fails with a nonzero exit and no partial      *)
(* output" (foundation/spec.md:117-120).                                   *)
NoPartialOutput == exit = "nul" => out = <<>>
=============================================================================
