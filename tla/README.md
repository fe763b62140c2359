# A TLA+ model of cryptile

cryptile is a command-line reader of a Vaultwarden / Bitwarden vault. `cryptile
login` derives the master key, performs the password grant (with a second factor
when the account demands one) and seals the session it gets under a passphrase;
`get`, `list` and `export` unseal the session, refresh its tokens when they run
out, read the vault and print. A sealed index makes a warm `get` one request
instead of a full sync. Everything is one process per command: what the commands
share is the state directory, the server and, through Hermes, a parent that runs
many of them.

The modules here are written from the code under `src/crates` and
`src/integrations`; the documents under `src/openspec` and `src/docs` are used
for what the program promises, never for what it does. Paths below leave out the
`src/` prefix.

## 1. Inventory

| Component | State it keeps | Operations | Modelled in |
|---|---|---|---|
| Token lifecycle: `crates/cli/src/ops.rs`, `refresh_session`, `reseal` in `main.rs` | the session a command loaded, the one it uses; access and refresh token | `ensure_fresh`, one attempt, refresh on 401, one retry, reseal | TokenLifecycle, RefreshBaton |
| State directory: `crates/cli/src/state.rs`, `Keyring::save/load`, cache deletions | `config.json`, `keyring`, a `.tmp` of each, `cache` | `save_login`, load, save by write-to-temporary and rename | StateDir |
| Vault reading and sync cache: `provider.rs`, `cache.rs` | the sealed index; the answers of the sync under way | `get_secret` (warm, miss), `list_*`, `get_namespace_secrets`, `write_cache` | VaultRead |
| Login and second factor: `main.rs` Login, `login`, `answer_two_factor` | call, selected factor, challenge in hand | grant, challenge, choice of a factor, resubmit | Login |
| Security-key ceremony: `webauthn.rs` | a thread and its step; the transports, the key, the PIN | decode, assemble, discover, connect, probe, PIN, touch; `recv_timeout` | LoginCeremony |
| Field mapping and export: `mapping.rs`, `main.rs` Export | the bag of fields; environment keys used | `map_cipher`, `mangle_env_key`, `escape_env_value`, printing | Export, Delivery |
| Field selection of `get`: `model.rs`, `ops.rs` | none | `field`, `primary_value` | Delivery |
| Reference parsing: `reference.rs` | none | `Ref::parse` | Delivery |
| HTTP client, error and exit-code mapping: `api.rs`, `map_api`, `die_provider` | none | one request, one answer or error class, one exit code | Delivery (in full), inside the others |
| Cryptography: `crypto/` | the keys of an account | KDF parameters, unwrapping, `EncString` | Envelope |
| Keyring sealing: `keyring.rs` | the file format | `seal`, `open` | StateDir (what unseals) |
| Hermes plugin: `integrations/hermes` | the secrets fetched so far | one `get` per reference, each with a 30 s limit | Delivery |
| ssh-agent hand-off: `agent.rs` | one child | pipe a key to `ssh-add`, wait | Delivery |
| Backend registry, provider trait | a table with one backend | `open` | Delivery (known and linked schemes) |
| Tracing, benches, integration harness | none | | not modelled |

How they interact. A command loads config and session (StateDir), passes the
session by value to `ops` (TokenLifecycle), which calls the provider for each
attempt (VaultRead); the provider's requests may answer 401, which is all that
the lifecycle sees of them. On success the session goes back to `main`, which
re-seals it when its handle changed (TokenLifecycle, StateDir) and prints
(Export). A login replaces config and keyring and deletes the cache. The
modules cut along these calls: each takes the other side of its calls as a
nondeterministic answer that includes every error. Delivery composes the whole
of one cold command, from the reference to the exit code, over Envelope and
Export, and runs it under the plugin; LoginCeremony composes the login with its
ceremony thread and is shown to implement Login.

What is hard in this code, and which properties answer for it:

- *Several commands share one refresh token.* It may be single use; two commands
  load it, both may present it, both re-seal. Where is the live token after any
  interleaving, crash and lost answer? (KeyringAlive, SingleHeir,
  KeyringForward, the baton refinement.)
- *Refresh and retry.* Everything may expire between two attempts; the command
  must neither loop nor retry twice. (BoundedRefresh, CommandEnds.)
- *Files written call by call.* A crash, a full disk or another process between
  any two calls. (FilesWhole, ConfigLeads, LoginTakesEffect, SessionsAdvance.)
- *An index older than the vault.* Candidates deleted, renamed, re-keyed, moved,
  between the load and each request. (ReadWasTrue, NotFoundIsReal, IndexAgrees.)
- *A sync is two requests, a list two syncs.* (EnumerationWhole, NotFoundIsReal.)
- *Ciphers that cannot be read.* They must not become "not found", nor hide the
  others. (NotFoundIsReal, EnumerationWhole, ExportIsWhole.)
- *Two calls of login, a challenge each.* The assertion must answer the second;
  the number of grants is bounded; the offer may change in between.
  (AssertionIsLive, WireBudget, NeverAskedAgain, FactorWasAskedFor.)
- *A key that never answers, a PIN never typed.* (LoginEnds.)
- *Two transports, of which one fails; thirty errors of user, key and machine in
  four exit codes.* (KeyIsNotHidden, FailureClassIsRight.)
- *A chain of keys in which any link may not open, and a KDF whose parameters
  the server names.* A ciphertext under another key must never be decrypted, an
  item must never come out empty instead of failing. (FailsClosed,
  UnlockIsExact.)
- *A caller that reads exit codes.* What does NotFound promise, and what does a
  fetch that failed half way still hold? (FailureIsReal, ValueIsHeld,
  FetchIsWhole.)
- *A child process between the value and stdout; a server that never answers.*
  (HandOffHarmless, FetchEnds.)
- *Names that collide after mangling, values that need escaping.* (KeysDistinct,
  ValuesReadBack.)

`PROJECT.json` lists every hazard at its line, with the properties that cover it
or the reason why none does yet.

## 2. Modules

| Module | Models | State and actions against the code |
|---|---|---|
| RefreshBaton | the promise behind the token lifecycle | with single-use refresh tokens there is one live token, in the keyring or in the hands of one command: Take, Seal, Drop, Strand, Revoke |
| TokenLifecycle | `get`, `list`, `export` of any number of processes, the token endpoint, expiry and revocation | `pc` walks ops.rs: `ensure` (ensure_fresh), `first`, `renew` (the reactive refresh), `second`, `served`, `reseal`; `orig` is the `session` argument, `cur` the one in use; a token is the number of the grant that issued it |
| StateDir | the state directory, file-system call by file-system call | one action per call of `save_login` and `Keyring::save`; `fd` says which file an open descriptor now stands for, so a rename under an open descriptor does what it does on a POSIX system |
| VaultRead | one command at a time against a vault that other clients change between any two requests | GetIndexed, FetchHit, FetchOther, FetchStale, Exhausted are `get_secret_warm`; Sync and Collections are `sync_and_keys`; ScanHit and ScanMiss the miss path; FindNamespace and EnumerateIn list and export |
| Login | one `cryptile login`, all three builds | `call` tells the two calls of `login()` apart; `pc` the point inside; a challenge is its number, so an assertion carries the challenge it signs; the ceremony is a thread with moves of its own |
| LoginCeremony | Login with the inside of the ceremony | `step` is the step of `fidoh_perform_assertion` (or of the legacy function) the thread is at; `plugged`, `key` what discovery found and selected; `fate` remembers who ended it, for the properties |
| Envelope | `crypto/`: what parses, what opens, the key hierarchy, the KDF parameters | operators only; a ciphertext names the key that sealed it |
| Export | from wire fields to printed lines | Bag is `map_cipher` with its order of inserts, Mangled and Escaped the two helpers, PrintLine one round of the loop |
| Delivery | one `get`, `export` or plugin fetch from its arguments to its exit code | `pc` walks `main.rs`: parse, state, open, sync, collections, read, offer, child, print; Answer and Refresh take every response; `plugin` and `done` are the fetch loop around it |
| MC* | instances for TLC | constants and symmetry only |
| TokenLifecycle_proofs, StateDir_proofs, VaultRead_proofs, Login_proofs, LoginCeremony_proofs, Delivery_proofs | theorems | see section 5 |
| SequenceLemmas, Export_proofs | lemmas about FlattenSeq and about the operators of Envelope and Export | see section 5 |

Abstractions worth knowing:

- *The server is not the program.* What the token endpoint does with a used
  refresh token is the constant RefreshPolicy; the properties that need
  single use say so. The `external` entries of the map are the server, the
  network and other clients.
- *The keyring is one cell in TokenLifecycle* and is opened up in StateDir. In
  StateDir a session is the number of its login, because the file layer cannot
  tell two sessions of one login apart.
- *Time is nondeterminism.* `ensure_fresh` compares a local clock with the
  expiry the server gave; both branches are always possible.
- *Encryption is what opens.* In VaultRead a cipher can be broken in its key,
  its name or another field, and an organisation key is a generation; in StateDir
  a file is whole or not.
  Envelope has the chain itself: a MAC verifies under the one key it was made
  with, and parameters other than the account's derive an unrelated key.
- *Values in Export and Delivery are sequences over five characters* (n,
  backslash, newline, NUL, and the first line of a private key): those that
  escaping, the NUL check, `strip` and `looks_like_private_key` tell apart. A
  reference is a sequence of tokens: names and separators.
- *Delivery is the cold get against a vault that does not change*; the index and
  the changes are VaultRead's, expiry and re-seal TokenLifecycle's. Names are
  equal or not; that namespaces compare without regard to case is left out.
- *One key per transport in LoginCeremony*, met when discovery looks: which of
  several keys on one transport comes first is the library's order.

## 3. Runs

Every run ends within about two minutes on two cores.

| Run | Instance | States | What it shows |
|---|---|---|---|
| rotate | 2 processes, single-use tokens, 2 grants | 792,279 | no success path strands the live refresh token, one holder at a time, the keyring never goes back, at most two refreshes per command; the commands implement RefreshBaton |
| ends | 2 processes, old token stays good, 1 grant, fair | 385,562 | no token in sight goes dead short of a revocation; every command ends |
| rotate_live | 1 process | violated | the reactive refresh presents a spent token (section 6) |
| rotate_sealed | 1 process | violated | a failed command throws the rotated session away (section 6) |
| statedir | 2 processes, 2 accounts, 3 logins | 730,662 | the keyring unseals and the config parses unless two processes write that file at once; with commands one at a time config never lags the session and a login takes effect whole |
| statedir_torn | 1 process, 2 accounts, 2 logins | violated | config of one account beside the session of another |
| statedir_atomic | 2 processes, 1 login | violated | two saves at once through the one keyring.tmp |
| vault | 2 ciphers, 1 collection, 2 item names, 2 collection names of which `personal` is one, 2 changes | 2,268,067 | a get is true, NotFound is real for every item with a name or a counted failure, an enumeration is whole, the index agrees |
| vault_move_seen | 1 cipher, 2 collections, 1 move | violated | the warm path does not notice a move |
| login | 3 builds, 5 offers, every flag combination, 3 overtaking challenges, every answer of transports and key, fair | 402,776 | the assertion is live, the request budget, no second TwoFactorRequired, exit classes, no hidden key; the ceremony implements Login; the login ends |
| delivery | 1,949 gets, fetches and exports, 9 responses per request, fair plugin | 73,090 | one command or fetch: distinct keys, values that read back, nothing lost, nothing opened under a wrong key; the value is what the item holds, a failure says why, a fetch is whole, the hand-off harmless; the fetch ends |
| export_nul | 1 cipher | violated | output before the refusal |

Why the bounds are enough. *Grants:* a command refreshes at most twice
(BoundedRefresh), so two grants let one process spend both or two processes one
each, the orders that matter; the theorems remove the bound. *Logins:* three let
a third overtake two half-written ones. *Vault changes:* the shortest wrong
answers take one change between load and request, or one between the requests of
a sync; two let one change hide another. Two ciphers give first-match order its
meaning, and one of them may be broken, in one of three ways. *Overtaking
challenges:* at most one per wait matters, and a login has three waits. *Ciphers
in an export:* a collision needs two names, a collision with a spelled suffix
three, which one cipher can hold; two ciphers give the order of items. *Jobs of
delivery:* MCDelivery lists them by what they exercise: every form of reference
against every pair of eight items (good, blank, ending in a newline, a private
key, damaged, sealed under a lost key), organisation items under every way a
profile can be broken, six answers of prelogin around a Word of 2^20 (1024 MiB
wrap to none), fetches of two references, exports with colliding names, a
collection with a slash in its name; the server answers each request with any of
nine responses. *Word* is 2^20 because the arithmetic only needs a multiple of
1024 that wraps. Bounds are constants: MaxGrants, MaxLogins, MaxChanges,
MaxOvertakes, Word.

Deadlock is checked in the token and vault runs, where a command can always
start. It is off in StateDir, Login, Export and Delivery: the logins run out,
the command ends. Symmetry is used only in runs without
liveness: processes and accounts, and the names in VaultRead; ciphers are
numbers there because the code takes the first match.

Each property of a passing run has a mutant in `PROJECT.json`: the definition of
the model changed the way a plausible slip in the code would, and the property
that breaks.

## 4. Fairness

- TokenLifecycle `FairSpec`: weak fairness of each process's own steps. A
  process that is not killed runs on, and a request is answered or fails. The
  second half is an assumption about the network, not about the program: the
  client in `api.rs:163-184` sets no timeout. Expiry, revocation, crashes and
  the start of commands have no fairness.
- LoginCeremony `CeremonyFairSpec` (as `FairSpec` of Login): weak fairness of the
  command's steps, with the same assumption and that the terminal prompts of the
  command itself are answered. *The ceremony thread gets none* in the fidoh
  build: the key may be wedged and the PIN never typed, and LoginEnds still
  holds because `recv_timeout` bounds the wait (`provider.rs:699-705`). The
  legacy build joins its thread, so there the device library's own 60 s clamp is
  needed and assumed.
- Delivery `DeliverySpec`: weak fairness of the plugin's own steps and of the
  kill, which is `subprocess.run`'s timeout. Nothing is assumed of the command,
  the server or ssh-add: FetchEnds is what the plugin's limit buys.

## 5. Theorems

The proof modules hold for every value of the constants; the assumptions used
are the named ASSUMEs of the modules: the policy is one of three, NoToken is no
number, the bounds are naturals, offers are sequences of factors, every cipher
has an id no other name uses, Failed is no key, a mangled name is a sequence, an
account's user key is sealed under its own master key and its KDF parameters are
numbers of 32 bits that Argon2 accepts, no name of a collection spells the id of
one, the values on the wire are absent, empty or encrypted texts, the variables
of a fetch are distinct (`JobsAssumption`). TLC evaluates each of them on its
instances.

**TokenLifecycle_proofs.** The properties are not inductive by themselves: that
the sealed token is alive depends on who holds which session. The invariant
`IInv` adds

- `WorkDone`: how many refreshes lie behind each control point;
- `RotateInv`, under single use: only the newest refresh token can be valid, a
  loaded session is never newer than the sealed one, a command that holds
  another session than it loaded holds the newest, and there is one such
  command;
- `ReusableInv`, otherwise: every session sealed or loaded is good until a
  revocation.

Every action is first classified (`StepKinds`: begins, goes on, wins a refresh,
loses one, ends, seals, or the server acts), so that the three arguments have
seven cases instead of seventeen. Results: TypeCorrect, Invariance,
KeyringStaysAlive, HeirIsSingle, RefreshIsBounded, KeyringMovesForward (an action
property), ImplementsBaton (the refinement, under single use).

**StateDir_proofs.** Nothing in StateDir says that a file is written by its
owner: a rename by one process changes what the open descriptor of another
writes to. `StateInv` says which file a descriptor stands for and what that file
holds at each call (`SaveInv` for the keyring, `ConfigInv` for the config), that
a process that saves holds a session of a login that has happened (`MineInv`),
and, for as long as no two saves and no two commands have overlapped, what
config, keyring and temporary files are between any two calls of the only
process at work (`AloneInv`). The step lemma has one case per file-system call.
Results, for any number of processes, accounts and logins: TypeCorrect,
Invariance, FilesStayWhole, ConfigStaysAhead, LoginsTakeEffect,
SessionsDoAdvance (an action property).

**Login_proofs.** `IInv` says at each point which call is running, what it
carries and how many grants were sent (`CallInv`, `SentInv`), that the challenge
in hand is the live one unless another login came between and that the thread
signs no other (`ChallengeInv`), and that the selected factor was listed when it
was chosen (`OfferInv`). A step ends the command, moves it on, sends a grant or
is somebody else's; one lemma each. Results: TypeCorrect, Invariance,
AssertionAnswersItsChallenge, OneResubmit, SentWasAskedFor, BudgetHolds.

**LoginCeremony_proofs.** CeremonyImplementsLogin is the refinement
`CeremonySpec => Spec`: every step of the ceremony is a move that Login allows
its thread, or a stutter of Login, so the theorems of Login_proofs hold of the
login with its ceremony in full. The step needs an invariant (`StepInv`: where
the login sees the thread when the ceremony is at a step; a PIN is asked for
only at a terminal). `FateInv` relates what the key and its user did to the
class of the thread and that to the exit code. Results: CeremonyInvariance,
CeremonyTypeCorrect, CeremonyImplementsLogin, ExitClassIsRight, NoKeyIsHidden.

**VaultRead_proofs.** The vault changes under the command, so nothing that was
read stays true. `VaultInv` says what an index or the answers of a sync *still*
tell (`Known`): a cipher that has not moved since is where it was and is called
what it was called. `CommandInv` bounds, at each point of a command, what it may
conclude by two sets: the ciphers its request has named all along (steady) and
those it named at some moment (right); `SnapInv` and `ScanInv` carry the bounds
through the second request of a sync and the scan of the ciphers. The argument
turns on one fact: no single change touches both a cipher and the name of its
collection, so a steady cipher pins the namespace it is in. Results, for any
number of ciphers, collections, names and changes: TypeCorrect, Invariance,
ReadsAreTrue, NoGhostIsMissed, EnumerationsAreWhole, IndexIsFaithful.

**Export_proofs** says what the operators of Envelope and Export compute, over
**SequenceLemmas**. The prover cannot use an induction theorem, so both argue by a
least counterexample: `LeastExists`, from the well-foundedness of < on the
naturals, gives the smallest set of indices, the shortest prefix or the first
position at which a claim would fail. From it follow the type, the members and
the length of a flattened sequence (`FlatTyped`, `FlatMembers`, `FlatCount`), and
from those:

- *mapping*: the entries of a cipher have a name and a text unless decryption
  failed (`EntriesTyped`), the bag holds for each name what was inserted last
  (`BagHolds`, `BagTyped`), the secrets are one field per name of each cipher that
  maps, in number and in value (`SecretsAre`, `PairHeld`);
- *escaping*: `EscapingReadsBack`, for every text, by the state a reader is in
  after each prefix;
- *mangling*: a key that is not used yet is always found, because n used keys
  leave one of the first n + 1 candidates, by the pigeonhole principle
  (`MangledIsNew`);
- *keys*: the key a cipher is decrypted with is one that the user key leads to,
  through the private key, the organisation and the cipher's own key
  (`ItemKeyLeads`), and a text that comes out was sealed under it, intact
  (`EntryFrom`, `SecretsSealed`).

**Delivery_proofs.** For any vault, names, references, bindings and server.
`DeliveryInv` is the conjunction of the properties, none of which is inductive
alone, and of

- `JobInv`: vault, format and bindings are still those of the job;
- `EnvInv`, `LinesInv`: an export's used keys are the keys of its lines; the
  lines are the escaped values of the fields before the one the loop is at, and
  the fields are the namespace's;
- `HandInv`: where the child of ssh-add is at each point;
- `PointInv`: what a command knows at each point. A refresh follows a 401;
  behind the sync the keys are open; behind the lookup the value is one that an
  item of the name holds;
- `FetchInv`: a fetch has the variables of the bindings before the one it is at,
  and of that one once its get is taken (`Taken`).

A step asks (`Ask`), answers (`Reply`), prints a line or belongs to the plugin;
each part of the invariant has one lemma with these cases. Underneath are facts
about the program's functions: what parses (`WellFormedParses`: a reference that
is well formed is never refused as a usage error), that splitting a locus at its
first slash and joining the parts are inverse (`SplitJoins`, `JoinSplits`), so
that the item the get compares with is the one the reference means (`MeantIs`);
that the field selected is the one held (`SelectedIs`); the exit code of every
answer (`AnswerExits`) and of every miss (`NotFound`); and the login, for every
number a 32-bit account can have (`UnlockExact`). Results: Invariance,
TypeCorrect, ExportKeysDistinct, ExportReadsBack, ExportsEverything,
ExportFailsClosed, UnlocksExactly, PrintsWhatIsHeld, ExitCodeIsTrue,
FetchIsAllOrTold, AgentIsHarmless, StepsEnd.

StepsEnd is the safety half of "it ends": `Ahead` bounds the steps a command or
a fetch has before it (20 for each binding left, the height of its point, one
more round of requests while it has not refreshed, the lines left to print), is
a natural number, and falls with every step. Nothing therefore loops: neither a
server that answers 401 for ever nor a refresh that always succeeds keeps a get
busy. What it does not say is that the next step is taken; that is FetchEnds,
which rests on the plugin's limit of 30 seconds.

Two things changed in the model for the proofs. `Meant` used to count an
item in a collection with a slash in its name, which no locus can spell:
FailureIsReal was false of such a collection, and a job with one is now part of
the instance; the proof found it. And what selected or folded over the entries of
a cipher is now a flattened sequence, with the entry inserted last for each name,
which is what a map does and what can be reasoned about.

Model-checked only: liveness (CommandEnds, LoginEnds, FetchEnds), because the
proof system handles neither ENABLED nor fairness (StepsEnd is as far as the
safety part of FetchEnds goes). Every safety invariant and
action property that a passing run checks is also a theorem. What
stays outside the proofs is what the model takes as given: the operators of
Envelope stand for perfect primitives, and the assumptions above.

## 6. Where code and documents part

Shown by a run that finds a violation:

1. *The reactive refresh uses the session as loaded* (`ops.rs:84, 141, 181,
   196`): after a successful `ensure_fresh` its refresh token may be spent.
   `openspec/specs/foundation/spec.md:78-80` promises that the next request
   succeeds while a valid refresh token exists. Run rotate_live.
2. *A rotated session is sealed on the success path only* (`ops.rs:146`,
   `main.rs:428`). Run rotate_sealed.
3. *A login that dies between config and keyring* leaves the config of one
   account beside the session of another, although the comment at
   `state.rs:69-70` rules a torn state out. Run statedir_torn.
4. *`Keyring::save` is atomic against crashes but not against itself*: all
   processes share one `keyring.tmp` (`keyring.rs:191-192` calls it atomic).
   Run statedir_atomic.
5. *The warm path verifies the name, not the collection* (`provider.rs:797`),
   against the sync-cache proposal. Run vault_move_seen.
6. *A NUL in a later field* is refused after earlier lines are out
   (`main.rs:509`), against `foundation/spec.md:117-120`. Run export_nul.

Met while reading, with no run of their own:

- A collection with a slash in its name, as nested collections have, cannot be
  addressed by that name in a reference, only by its id: `get_secret` splits the
  locus at its first slash (`provider.rs:568`); `list` and `export` take the name.
- A refused proactive refresh is presented again by the reactive path
  (`ops.rs:54`); `foundation/spec.md:87-91` allows no further retries.
- `login` for another account deletes the cache (`main.rs:382`), but a command
  already running writes the old account's index back afterwards;
  `foundation/spec.md:352-356`. It does not unseal under the new key.
- `list` and `export` leave out ciphers whose key does not unwrap, without an
  error (`provider.rs:545-552`); `cipher-key-unwrap/spec.md:30-35`.
- `map_cipher` gives a cipher up when one field fails; its comment
  (`mapping.rs:41-42`) says individual fields are skipped.
- A get of an item whose name does not decrypt is answered NotFound, exit 5
  (`provider.rs:623-625`): the scan counts keys that do not unwrap and skips
  unreadable names. The comment at 612-616 ("instead of a ghost 'not found'")
  speaks of keys only. A cipher without a key of its own, of an organisation
  without a key, gets there: `key_for` falls back to the user key. NotFoundIsReal
  and FailureIsReal state the exception and hold for everything else.
- `personal` resolves first in a get and last in list and export, which look a
  collection of that name up before. A `list personal` whose first sync loses
  such a collection to a key rotation enumerates the personal vault instead; this
  is the case that EnumerationWhole excepts (`Shadowed`).
- Two logins at once share `config.json.tmp` (`state.rs:83-86`), as two savers
  share `keyring.tmp`: a rename can expose a config that the other has just
  truncated. FilesWhole excepts a file that two processes were writing at a time.
- The factor picked without `--2fa-provider` is the first answerable in the
  server's order (`main.rs:197-200`); `main.rs:160` and
  `two-factor-login/spec.md:124-126, 155-159` give an order of preference.
- A code goes out twice when the server challenges the grant that carried it
  (`provider.rs:400-428`); `two-factor-login/spec.md:39-42, 51-56` allow one
  submission and no further one after it is rejected. WireBudget is the budget of
  the code, not of the specification: it excludes a third submission or another
  code, and lets the second pass.
- A reactive refresh that fails on the network ends with exit 3 and the hint to
  log in again (`ops.rs:142-143`), though the exit codes give transport 4
  (`main.rs:108`); FailureIsReal lets an exit 3 follow a refresh that failed in
  any way, and no other unanswered request.
- The touch prompt is wrapped twice and printed twice (`webauthn.rs:569-572,
  715-717` against the comment at 520-522).
- A ceremony thread that panics is reported as a transport error
  (`provider.rs:672`); `two-factor-login/spec.md:361-369, 395-400` makes it a
  server error. Both exit with 4.
- A challenge with garbage in base64 or RP ID ends as a server error; the same
  spec counts a challenge that does not decode as AUTH.
- The plugin strips the whole value (`integrations/hermes/__init__.py:171`);
  `foundation/spec.md:208-213` takes the newline that `get` adds.
- The plugin's `timeout_seconds` (`__init__.py:85`) is not used by `fetch`, which
  gives every get 30 s (`__init__.py:160`).
- The memory of Argon2 is multiplied by 1024 in 32 bits (`provider.rs:284`): it
  wraps in a release build and panics in one with overflow checks. UnlockIsExact
  says that no parameters an account can have are spoiled by this; what it
  excepts is a number past the wrap that lands on the account's own parameters,
  from which a login then derives the account's key.
- The unit of that memory: `provider.rs:284` takes prelogin's number for MiB and
  scales it, while `kdf.rs:17` ("Argon2id memory in KiB, as the server reports
  it") and the name `memory_kib` (`api.rs:88`) have the server report KiB. The
  model and UnlockIsExact follow `provider.rs`, which is the code that runs.
- `unwrap_org_key` says it handles OAEP with SHA-1 and SHA-256
  (`encstring.rs:143-145`) and rejects SHA-256 (157-163).
- A login that dies between the rename of the config and the save of the keyring
  can leave the old account's cache, and the next login keeps it
  (`main.rs:379-385`); `foundation/spec.md:352-356`.
- `get --agent` waits for ssh-add without a bound (`agent.rs:86`).
- In JSON an export keeps one of several fields of the same name
  (`main.rs:487-497`).
- A login that ends on the ceremony budget while the PIN prompt is open may
  leave the terminal without echo.

## 7. Not modelled, and why

- Cryptographic primitives and byte formats: data transformations without
  control; Envelope takes them for perfect.
- The inside of a CTAP exchange and of the PIN protocol: library code, an answer
  of the key in LoginCeremony.
- The version, salts and nonces of the keyring and cache files; request headers,
  URLs and the serde shapes of answers.
- Wording of messages, tracing, benches, test harnesses.

## 8. Plan

Written in this order, the most important behaviour first:

1. TokenLifecycle with RefreshBaton, checked and proved. *Done.*
2. StateDir, checked and proved. *Done.*
3. VaultRead, checked and proved. *Done.*
4. Login, checked and proved. *Done.*
5. Export, checked and proved. *Done.*
6. Envelope and Delivery, with the KDF parameters modulo Word, checked and
   proved. *Done.*
7. LoginCeremony, checked and proved. *Done.*
8. Composition: TokenLifecycle over StateDir, so that the re-seal of a rotated
   session is the several calls it is, and two logins and a re-seal meet.
   Abstract specification: the keyring as one atomic cell. StateDir's saves
   already carry the calls, TokenLifecycle the tokens; what is left is whether a
   torn save can cost a live token.

Theorems still worth proving: that LoginCeremony and Delivery read the same exit
code for the same error class, which are two definitions today; and, once the
composition of item 8 is there, that the sealed token is alive between any two
calls of a save.
