------------------------------ MODULE Envelope ------------------------------
(***************************************************************************)
(* The key hierarchy of an account (crates/vaultwarden/src/crypto):        *)
(*                                                                         *)
(*   password --KDF--> master key --> user key --> private key             *)
(*                                    --> organisation keys --> item keys  *)
(*                                                                         *)
(* What a key seals is an EncString.  Keys are names, the cryptography is  *)
(* taken for perfect: a MAC verifies under the one key it was made with,   *)
(* and a derivation from other parameters gives an unrelated key.          *)
(***************************************************************************)
EXTENDS Integers, Sequences

CONSTANTS
  Keys,         \* the 64-byte keys there are
  Word,         \* size of an unsigned integer: 2^32 in the program
  Failed,       \* the result of an operation that fails
  Absent, Empty \* on the wire: no value, ""

ASSUME KeysAssumption == {"user", "rsa"} \subseteq Keys
ASSUME FailedAssumption ==
  Failed \notin Keys \cup {"master"} /\ \A k \in Keys : Failed # <<k>>
ASSUME WordAssumption == Word \in Nat /\ Word > 64 * 1024

-----------------------------------------------------------------------------
(* EncStrings: a type, a number of parts, whether they are base64, the key *)
(* whose MAC (or RSA block) it is, whether the plaintext is padded, and    *)
(* the plaintext.                                                          *)

EncString(type, parts, key, text) ==
  [type |-> type, parts |-> parts, base64 |-> TRUE, seal |-> key,
   padded |-> TRUE, text |-> text]

(* What clients and servers write: AES-CBC-256 with a MAC, and RSA-OAEP.   *)
Sealed(key, text) == EncString(2, 3, key, text)
Wrapped(key, text) == EncString(4, 1, key, text)

Types == 0..4
Legacy == 0            \* AES-CBC without a MAC
WithMac == {1, 2}
OaepSha256 == 3
OaepSha1 == 4

PartsOf(type) == CASE type = Legacy -> 2
                   [] type \in WithMac -> 3
                   [] OTHER -> 1

(* EncString::parse *)
Parses(s) == s.type \in Types /\ s.parts = PartsOf(s.type) /\ s.base64

(* mutant: the ciphertext is decrypted whatever its MAC. *)
DecryptUnverified(s, key) ==
  IF Parses(s) /\ s.type \in WithMac /\ s.padded THEN s.text ELSE Failed

(* The MAC is verified before anything is decrypted, and a type without    *)
(* one is refused.                                                         *)
DecryptSymmetric(s, key) ==
  IF /\ Parses(s) /\ s.type \in WithMac
     /\ s.seal = key
     /\ s.padded
  THEN s.text ELSE Failed

(* The empty string is its own plaintext. *)
Dec(wire, key) == IF wire = Empty THEN <<>> ELSE DecryptSymmetric(wire, key)

Blob(key) == <<key>>

(* SymmetricKey::from_64 *)
From64(text) ==
  IF \E k \in Keys : text = Blob(k) THEN CHOOSE k \in Keys : text = Blob(k)
  ELSE Failed

(* unwrap_org_key: what the private key decrypted to must be a key, and    *)
(* the organisation's key is wrapped with it: OAEP with SHA-1 only.        *)
UnwrapOrgKey(s, private) ==
  IF /\ Parses(s) /\ s.type = OaepSha1
     /\ From64(private) # Failed /\ s.seal = From64(private)
  THEN From64(s.text) ELSE Failed

-----------------------------------------------------------------------------
(* sync_and_keys, key_for and effective_key.                               *)

(* The organisations that carry a key; the others are passed over.         *)
Keyed(profile) == {i \in DOMAIN profile.orgs : profile.orgs[i].key # Empty}

(* The key of each organisation, or Failed as soon as one does not open.   *)
(* The private key must decrypt; only an organisation makes a key of it.   *)
OrgKeys(profile, user) ==
  LET private == DecryptSymmetric(profile.privateKey, user)
      opened == [i \in Keyed(profile) |-> UnwrapOrgKey(profile.orgs[i].key, private)]
      named(id) == {i \in Keyed(profile) : profile.orgs[i].id = id}
  IN  IF private = Failed \/ \E i \in Keyed(profile) : opened[i] = Failed
      THEN Failed
      ELSE [id \in {profile.orgs[i].id : i \in Keyed(profile)} |->
              opened[CHOOSE i \in named(id) : \A j \in named(id) : i <= j]]

(* An organisation whose key is not there leaves the user key. *)
KeyFor(org, orgKeys, user) ==
  IF org \in DOMAIN orgKeys THEN orgKeys[org] ELSE user

(* A cipher's own key, or its container's. *)
EffectiveKey(wire, container) ==
  IF wire \in {Absent, Empty} THEN container
  ELSE From64(DecryptSymmetric(wire, container))

-----------------------------------------------------------------------------
(* The login: prelogin parameters, master key, user key.                   *)

U32(x) == x % Word

(* A parameter of the answer, cut to 32 bits, or its default. *)
Param(x, default) == IF x = Absent THEN default ELSE U32(x)

(* mutant: the default memory is not scaled. *)
KdfDefaultUnscaled(json) ==
  IF Param(json.kind, 0) = 1
  THEN [kind |-> 1, iterations |-> Param(json.iterations, 3),
        memory |-> IF json.memory = Absent THEN 64 ELSE U32(U32(json.memory) * 1024),
        parallelism |-> Param(json.parallelism, 4)]
  ELSE [kind |-> 0, iterations |-> Param(json.iterations, 600000)]

(* kdf_from_json: Argon2id, its memory in 1024 KiB, anything else PBKDF2.  *)
KdfFromJson(json) ==
  IF Param(json.kind, 0) = 1
  THEN [kind |-> 1, iterations |-> Param(json.iterations, 3),
        memory |-> U32(Param(json.memory, 64) * 1024),
        parallelism |-> Param(json.parallelism, 4)]
  ELSE [kind |-> 0, iterations |-> Param(json.iterations, 600000)]

(* The parameters the Argon2 library accepts. *)
ArgonAccepts(params) ==
  /\ params.iterations > 0 /\ params.parallelism > 0
  /\ params.memory >= 8 * params.parallelism

(* derive_master_key and stretch_master_key: the key the account was made  *)
(* with, if the parameters are the ones it was made with.                  *)
DeriveMasterKey(params, account) ==
  IF params.kind = 1 /\ ~ ArgonAccepts(params) THEN Failed
  ELSE IF params = account.kdf THEN "master" ELSE "unrelated"

(* The server accepts the hash of the account's master key and answers with*)
(* the sealed user key.                                                    *)
Accepts(master) == master = "master"

(* unwrap_user_key, at the end of a login. *)
UserKey(json, account) ==
  LET master == DeriveMasterKey(KdfFromJson(json), account)
  IN  IF master # Failed /\ Accepts(master)
      THEN From64(DecryptSymmetric(account.sealedKey, master)) ELSE Failed
=============================================================================
