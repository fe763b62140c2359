------------------------------ MODULE MCExport ------------------------------
EXTENDS Export

MCNameOrder == <<"Password", "notes", "password", "password__1", "uri", "uris">>

MCBase ==
  [name \in ToSet(MCNameOrder) |->
     CASE name \in {"Password", "password"} -> <<"PASSWORD">>
       [] name = "password__1" -> <<"PASSWORD", 1>>
       [] name = "notes" -> <<"NOTES">>
       [] name = "uri" -> <<"URI">>
       [] name = "uris" -> <<"URIS">>]

(* "other" belongs to another account. *)
MCKeys == {"user", "rsa", "org", "item", "other"}

Whole == [sealedKey |-> Sealed("master", Blob("user")),
          kdf |-> [kind |-> 0, iterations |-> 600000],
          privateKey |-> Sealed("user", Blob("rsa")),
          orgs |-> <<[id |-> "o", key |-> Wrapped("rsa", Blob("org"))],
                     [id |-> "p", key |-> Empty]>>]

(* Organisation keys that do not open: another member's, OAEP-SHA256, not  *)
(* a key; a private key of another account, or that decrypts to no key.    *)
Broken ==
  {[Whole EXCEPT !.orgs[1].key = k] :
     k \in {Wrapped("other", Blob("org")), EncString(3, 1, "rsa", Blob("org")),
            Wrapped("rsa", <<"n">>), Sealed("rsa", Blob("org"))}}
  \cup {[Whole EXCEPT !.privateKey = k] :
           k \in {Sealed("other", Blob("rsa")), Sealed("user", <<"n">>)}}

(* The organisation carries no key: the private key is never parsed, and   *)
(* what the organisation sealed is read with the user key.                 *)
Keyless == [Whole EXCEPT !.privateKey = Sealed("user", <<"n">>), !.orgs[1].key = Empty]

(* What does not decrypt: another key's, tampered with, a part missing, no *)
(* MAC, an unknown type, no base64.                                        *)
Bad(key, text) ==
  {Sealed("other", text),
   EncString(2, 2, key, text), EncString(0, 2, key, text),
   EncString(7, 3, key, text), [Sealed(key, text) EXCEPT !.base64 = FALSE],
   [Sealed(key, text) EXCEPT !.padded = FALSE]}

Cipher(name, typed, uris, notes, custom) ==
  [org |-> Absent, key |-> Absent, name |-> name, typed |-> typed,
   uris |-> uris, notes |-> notes, custom |-> custom]

Field(key, wire) == [key |-> key, wire |-> wire]
Custom(name, wire) == [name |-> name, wire |-> wire]

User(text) == Sealed("user", text)
AName == User(<<"smtp">>)
ABad == Sealed("other", <<"n">>)

(* A newline and a backslash with an n must not be confused; a NUL is      *)
(* refused.                                                                *)
MCWire == {Absent, Empty, ABad, User(<<>>), User(<<"nl">>), User(<<"bs", "n">>),
           User(<<"nul">>)}

(* Custom fields that shadow, collide with a mangled key, spell a suffix,  *)
(* have no name or do not decrypt.                                         *)
MCCustom ==
  {<<>>,
   <<Custom(User(<<"Password">>), User(<<"n">>)),
     Custom(User(<<"password__1">>), User(<<"bs">>))>>,
   <<Custom(User(<<"notes">>), User(<<"n">>)), Custom(User(<<"notes">>), Empty)>>,
   <<Custom(User(<<>>), ABad), Custom(User(<<"password">>), User(<<"nl", "n">>))>>,
   <<Custom(Sealed("other", <<"notes">>), User(<<"n">>))>>}

Logins ==
  {Cipher(AName, <<Field("password", p)>>, <<>>, User(<<"bs", "n">>), custom) :
     p \in MCWire, custom \in MCCustom}
  \cup {Cipher(AName, <<>>, <<u, v>>, Absent, <<>>) :
          u, v \in {Empty, ABad, User(<<"n">>), User(<<"nul">>)}}
  \cup {Cipher(ABad, <<>>, <<>>, User(<<"n">>), <<>>)}

(* One password, sealed under each key of the account, or damaged.         *)
Keyed1(org, key, seal, wires) ==
  {[Cipher(Sealed(seal, <<"smtp">>), <<Field("password", w)>>, <<>>, Absent, <<>>)
      EXCEPT !.org = org, !.key = key] : w \in wires}

Personal == Keyed1(Absent, Empty, "user", Bad("user", <<"n">>) \cup {User(<<"n">>)})

Secured ==
  Keyed1("o", Absent, "org", {Sealed("org", <<"n">>), User(<<"n">>)})
  \cup UNION {Keyed1("o", k, "item", {Sealed("item", <<"n">>), Sealed("org", <<"n">>)}) :
                 k \in {Sealed("org", Blob("item")), User(Blob("item")),
                        Sealed("org", <<"n">>)}}

Shelf(acc, cs, n) ==
  {[account |-> acc, ciphers |-> s] : s \in UNION {[1..i -> cs] : i \in 0..n}}

MCVaults ==
  Shelf(Whole, Logins \cup Personal, 2) \cup Shelf(Whole, Secured, 2)
  \cup UNION {Shelf(acc, Secured, 1) : acc \in Broken \cup {Keyless}}
=============================================================================
