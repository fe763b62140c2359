------------------------------ MODULE Delivery ------------------------------
(***************************************************************************)
(* From a reference to its value: `cryptile get` and `cryptile export`     *)
(* (crates/cli/src/main.rs, ops.rs), which ask the server, decrypt and     *)
(* print; the hand-off of a private key to the ssh-agent (agent.rs); and   *)
(* the Hermes plugin (integrations/hermes), which runs one get per         *)
(* variable and turns exit codes into error kinds.                         *)
(*                                                                         *)
(* A reference is a sequence of tokens: names and the separators "://",    *)
(* "/" and "#".  The get is the cold one and the vault does not change: the*)
(* index and the changes are in module VaultRead, the tokens in module     *)
(* TokenLifecycle.                                                         *)
(***************************************************************************)
EXTENDS Export

CONSTANTS
  Jobs,       \* the jobs: an export, a get or a fetch, with its vault and login
  Lower,      \* a scheme, in lower case
  Responses,  \* what the server may answer: a status and a body
  Down        \* no answer: the connection fails

ASSUME DownAssumption == Down \in Responses

(* The parameters an account may be made with, 32 bits each: Argon2's      *)
(* memory in KiB. *)
Unsigned == 0..(Word - 1)
KdfsOfAccounts ==
  [kind : {0}, iterations : Unsigned]
  \cup {p \in [kind : {1}, iterations : Unsigned, memory : Unsigned,
                parallelism : Unsigned] : ArgonAccepts(p)}

(* An account's user key is sealed under its own master key, what prelogin *)
(* sends are numbers, only a get is given --agent, and the references of a *)
(* fetch are the values of a map.                                          *)
ASSUME JobsAssumption ==
  \A j \in Jobs :
    /\ j.kind \in {"get", "fetch", "export"}
    /\ j.kind # "export" => j.format = "value"
    /\ j.agent => j.kind = "get"
    /\ j.vault.ciphers \in Seq({c \in ToSet(j.vault.ciphers) : WellTyped(c)})
    /\ j.here \in Seq(ToSet(j.here)) /\ j.env \in Seq(ToSet(j.env))
    /\ j.kind = "get" => Len(j.env) = 1
    /\ \A b \in ToSet(j.env) : b.ref \in Seq(ToSet(b.ref))
    /\ \A m, n \in DOMAIN j.env : j.env[m].var = j.env[n].var => m = n
    /\ j.vault.account.orgs \in Seq(ToSet(j.vault.account.orgs))
    /\ j.vault.account.sealedKey = Sealed("master", Blob("user"))
    /\ j.vault.account.kdf \in KdfsOfAccounts
    /\ \A x \in {j.prelude.kind, j.prelude.iterations, j.prelude.memory,
                 j.prelude.parallelism} : x \in Nat \cup {Absent}

KnownSchemes == {"vw", "op", "vault"}
Linked == {"vw"}                        \* registry::backends
DefaultField == <<"password">>
Chain == <<"password", "notes", "private_key", "number">>

VARIABLES
  job,      \* its kind, its namespace, variables with references, --agent
  prelude,  \* history: what prelogin answered when the session was made
  pc,
  turn,     \* the binding the fetch is at; 1 in a get
  retried,  \* the session was refreshed after a 401
  answered, \* history: the last request, and the answer it got
  value,    \* the value get found
  child,    \* the ssh-add child
  secrets,  \* FetchResult.secrets
  kind      \* FetchResult: "none" while the fetch runs, "ok", an ErrorKind

plugin == <<turn, secrets, kind>>
wire == <<retried, answered>>
given == <<vault, format, job, prelude>>
deliveryVars == <<given, printing, pc, plugin, wire, value, child>>

-----------------------------------------------------------------------------
(* Ref::parse                                                              *)

At(token, s) == {i \in DOMAIN s : s[i] = token}
Before(token, s) == SubSeq(s, 1, Min(At(token, s)) - 1)
After(token, s) == SubSeq(s, Min(At(token, s)) + 1, Len(s))

BadRef == [scheme |-> "none", locus |-> <<>>, field |-> <<>>, explicit |-> FALSE]

(* Split at the first "://" and the first "#"; the scheme is known, locus  *)
(* and fragment are not empty.                                             *)
Parse(s) ==
  IF At("://", s) = {} THEN BadRef
  ELSE LET scheme == Before("://", s)
           rest   == After("://", s)
           explicit == At("#", rest) # {}
           locus  == IF explicit THEN Before("#", rest) ELSE rest
           field  == IF explicit THEN After("#", rest) ELSE DefaultField
       IN  IF Len(scheme) # 1 \/ locus = <<>> \/ field = <<>> THEN BadRef
           ELSE IF Lower[scheme[1]] \notin KnownSchemes THEN BadRef
           ELSE [scheme |-> Lower[scheme[1]], locus |-> locus, field |-> field,
                 explicit |-> explicit]

Written == job.env[turn].ref
Asked == Parse(Written)

-----------------------------------------------------------------------------
(* The answer of a request, and the exit code an error gets.               *)

Ok(response) ==
  response # Down /\ response.status \in 200..299 /\ response.body = "json"

Challenges(response) ==
  response # Down /\ response.status = 400 /\ response.body = "challenge"

ErrorOfStatus(status) ==
  CASE status = 401 -> "AuthExpired"
    [] status = 403 -> "Forbidden"
    [] status = 404 -> "NotFound"
    [] status \in (400..499) \ {401, 403, 404} -> "Auth"
    [] status \notin 400..499 -> "Server"

(* parse (api.rs) and map_api: the provider error of a response; a body of *)
(* a good status that is no JSON counts as transport.                      *)
ErrorOf(response) ==
  IF response = Down \/ response.status \in 200..299 THEN "Transport"
  ELSE IF Challenges(response) THEN "TwoFactorRequired"
  ELSE ErrorOfStatus(response.status)

(* mutant: a connection that fails ends like a request that is refused. *)
ExitOfOffline(error) ==
  CASE error = "BadRef" -> "usage"
    [] error \in {"Auth", "AuthExpired", "Forbidden", "TwoFactorRequired", "Transport"} -> "auth"
    [] error \in {"Server", "Crypto"} -> "fault"
    [] error = "NotFound" -> "absent"

(* die_provider: exit codes 2, 3, 4 and 5. *)
ExitOf(error) ==
  CASE error = "BadRef" -> "usage"
    [] error \in {"Auth", "AuthExpired", "Forbidden", "TwoFactorRequired"} -> "auth"
    [] error \in {"Transport", "Server", "Crypto"} -> "fault"
    [] error = "NotFound" -> "absent"

Die(code) ==
  /\ exit' = code
  /\ pc' = "exited"
  /\ UNCHANGED <<given, fields, next, seen, out, plugin, value, child>>

Continue(point) ==
  /\ pc' = point
  /\ UNCHANGED <<given, printing, plugin, value, child>>

-----------------------------------------------------------------------------
(* The command up to its first request.                                    *)

IsGet == job.kind \in {"get", "fetch"}

(* The arguments: the reference of a get, the format of an export. *)
ParseRef ==
  /\ pc = "parse"
  /\ IF (IF IsGet THEN Asked = BadRef ELSE format \notin Formats)
       THEN Die("usage") ELSE Continue("state")
  /\ UNCHANGED wire

(* load_state_for: not logged in, no configuration, no passphrase, or it   *)
(* does not open the keyring.                                              *)
LoadState ==
  /\ pc = "state" /\ session # Failed
  /\ Continue("open")
  /\ UNCHANGED wire

LoadStateErr ==
  /\ pc = "state"
  /\ Die("auth")
  /\ UNCHANGED wire

(* registry::open, and the first checks of get_secret. *)
Addressed == Asked.scheme \in Linked /\ At("/", Asked.locus) # {}

Open ==
  /\ pc = "open"
  /\ IF IsGet /\ ~ Addressed THEN Die("usage") ELSE Continue("sync")
  /\ UNCHANGED wire

-----------------------------------------------------------------------------
(* ops: the requests of a sync, one refresh after a 401, one retry.  What  *)
(* a proactive refresh changes is in module TokenLifecycle.                *)

Requesting == pc \in {"sync", "collections"}

(* The keys of the sync are opened before the collections are asked for. *)
Answer(response) ==
  /\ Requesting
  /\ answered' = [to |-> pc, response |-> response]
  /\ IF Ok(response)
       THEN IF pc = "sync" /\ Opened = Failed THEN Die(ExitOf("Crypto"))
            ELSE Continue(IF pc = "sync" THEN "collections" ELSE "read")
       ELSE IF ErrorOf(response) = "AuthExpired" /\ ~ retried
              THEN Continue("refresh")
              ELSE Die(ExitOf(ErrorOf(response)))
  /\ UNCHANGED retried

(* Any failure of the refresh is reported as an expired session. *)
Refresh(response) ==
  /\ pc = "refresh"
  /\ answered' = [to |-> pc, response |-> response]
  /\ retried' = TRUE
  /\ IF Ok(response) THEN Continue("sync") ELSE Die(ExitOf("Auth"))

(* refresh_session without a refresh token. *)
RefreshMissing ==
  /\ pc = "refresh"
  /\ Die(ExitOf("Auth"))
  /\ UNCHANGED wire

-----------------------------------------------------------------------------
(* get_secret over the answers, and the field of ops::get.                 *)

Item == After("/", Asked.locus)
Target == Before("/", Asked.locus)

Matching == {i \in DOMAIN ciphers : /\ NameOf(ciphers[i]) # Failed
                                     /\ NameOf(ciphers[i]) = Item}
Locked == {i \in DOMAIN ciphers : ItemKey(ciphers[i]) = Failed}

(* The first non-empty field of the chain. *)
Primary(bag) ==
  LET filled == {i \in DOMAIN Chain : Chain[i] \in DOMAIN bag /\ bag[Chain[i]] # <<>>}
  IN  IF filled = {} THEN Failed ELSE bag[Chain[Min(filled)]]

Named(bag) == {n \in DOMAIN bag : <<n>> = Asked.field}

(* mutant: a fragment that is not there falls back to the chain. *)
SelectedLenient(bag) ==
  IF Named(bag) # {} THEN bag[CHOOSE n \in Named(bag) : TRUE] ELSE Primary(bag)

(* The fragment names one field exactly; without one, the primary value.   *)
Selected(bag) ==
  IF ~ Asked.explicit THEN Primary(bag)
  ELSE IF Named(bag) = {} THEN Failed ELSE bag[CHOOSE n \in Named(bag) : TRUE]

(* mutant: the ciphers whose keys do not unwrap are not counted. *)
LookupErrorGhost ==
  IF Target # job.here THEN "NotFound"
  ELSE IF Matching # {} /\ ~ Mapped(ciphers[Min(Matching)]) THEN "Crypto"
  ELSE IF Matching = {} \/ Selected(Bag(ciphers[Min(Matching)])) = Failed
         THEN "NotFound"
  ELSE "none"

LookupError ==
  IF Target # job.here THEN "NotFound"
  ELSE IF Matching # {} /\ ~ Mapped(ciphers[Min(Matching)]) THEN "Crypto"
  ELSE IF Matching = {} THEN IF Locked # {} THEN "Crypto" ELSE "NotFound"
  ELSE IF Selected(Bag(ciphers[Min(Matching)])) = Failed THEN "NotFound"
  ELSE "none"

Lookup ==
  /\ pc = "read" /\ IsGet
  /\ LookupError = "none"
  /\ value' = Selected(Bag(ciphers[Min(Matching)]))
  /\ pc' = IF job.agent THEN "offer" ELSE "print"
  /\ UNCHANGED <<given, printing, plugin, wire, child>>

LookupErr ==
  /\ pc = "read" /\ IsGet
  /\ LookupError # "none"
  /\ Die(ExitOf(LookupError))
  /\ UNCHANGED wire

-----------------------------------------------------------------------------
(* add_to_agent                                                            *)

LooksLikeKey(text) == text # <<>> /\ text[1] = "key"

(* Not a key, no agent, no ssh-add, or it does not start. *)
OfferSkipped ==
  /\ pc = "offer"
  /\ Continue("print")
  /\ UNCHANGED wire

Spawned(state) ==
  /\ pc = "offer"
  /\ LooksLikeKey(value)
  /\ child' = state
  /\ UNCHANGED <<given, printing, plugin, wire, value>>

(* mutant: a child whose pipe broke is left behind. *)
PipeBrokeLeaves == Spawned("running") /\ pc' = "print"

(* The write fails: the child is killed and waited for. *)
PipeBroke == Spawned("killed") /\ pc' = "print"

(* The key is written and the pipe closed. *)
Offered == Spawned("running") /\ pc' = "child"

(* ssh-add adds the key, refuses it, or cannot be waited for. *)
ChildEnds ==
  /\ pc = "child"
  /\ child' \in {"added", "refused", "lost"}
  /\ pc' = "print"
  /\ UNCHANGED <<given, printing, plugin, wire, value>>

PrintValue ==
  /\ pc = "print"
  /\ out' = value
  /\ exit' = "ok"
  /\ pc' = "exited"
  /\ UNCHANGED <<given, fields, next, seen, plugin, wire, value, child>>

(* The steps of module Export. *)
ExportStep ==
  /\ pc = "read" /\ job.kind = "export"
  /\ Collect \/ PrintJson \/ PrintLine \/ RefuseNul \/ Done
  /\ pc' = IF exit' = "none" THEN "read" ELSE "exited"
  /\ UNCHANGED <<job, prelude, plugin, wire, value, child>>

-----------------------------------------------------------------------------
(* fetch                                                                   *)

(* _validate_env_map: a valid variable and a reference that starts with    *)
(* vw://, the others are warned about and left out.                        *)
Wellformed(binding) ==
  /\ binding.valid
  /\ Len(binding.ref) > 1 /\ SubSeq(binding.ref, 1, 2) = <<"vw", "://">>

Bindings == {i \in DOMAIN job.env : Wellformed(job.env[i])}
Left == {i \in Bindings : i > turn}

FetchFails(how) ==
  /\ kind' = how
  /\ pc' = "done"
  /\ UNCHANGED <<given, printing, turn, secrets, wire, value, child>>

NotConfigured ==
  /\ pc = "plugin" /\ turn = 0
  /\ Bindings = {}
  /\ FetchFails("NOT_CONFIGURED")

BinaryMissing ==
  /\ pc = "plugin" /\ turn = 0
  /\ Bindings # {}
  /\ FetchFails("BINARY_MISSING")

(* No request made yet. *)
Unasked == [to |-> "none", response |-> Down]

(* One get, with stdin closed and without --agent. *)
RunGet ==
  /\ pc = "plugin"
  /\ Left # {}
  /\ turn' = Min(Left)
  /\ pc' = "parse"
  /\ exit' = "none" /\ out' = <<>> /\ value' = <<>>
  /\ retried' = FALSE /\ answered' = Unasked
  /\ UNCHANGED <<given, fields, next, seen, secrets, kind, child>>

(* str.strip on what get printed, its final newline included. *)
Strip(text) ==
  LET inner == {i \in DOMAIN text : text[i] # "nl"}
  IN  IF inner = {} THEN <<>> ELSE SubSeq(text, Min(inner), Max(inner))

(* _EXIT_KINDS *)
KindOfExits == [usage |-> "REF_INVALID", auth |-> "AUTH_FAILED",
                fault |-> "NETWORK", absent |-> "EMPTY_VALUE"]

Assigned(map, var, text) ==
  [v \in DOMAIN map \cup {var} |-> IF v = var THEN text ELSE map[v]]

(* mutant: the value of a failed get is kept. *)
TakeAnyway ==
  /\ pc = "exited" /\ job.kind = "fetch"
  /\ secrets' = Assigned(secrets, job.env[turn].var, Strip(out))
  /\ pc' = "plugin"
  /\ UNCHANGED <<given, printing, turn, kind, wire, value, child>>

Take ==
  /\ pc = "exited" /\ job.kind = "fetch"
  /\ exit = "ok" /\ Strip(out) # <<>>
  /\ secrets' = Assigned(secrets, job.env[turn].var, Strip(out))
  /\ pc' = "plugin"
  /\ UNCHANGED <<given, printing, turn, kind, wire, value, child>>

GetFailed ==
  /\ pc = "exited" /\ job.kind = "fetch"
  /\ exit # "ok" \/ Strip(out) = <<>>
  /\ FetchFails(IF exit = "ok" THEN "EMPTY_VALUE" ELSE KindOfExits[exit])

FetchDone ==
  /\ pc = "plugin" /\ turn > 0
  /\ Left = {}
  /\ FetchFails("ok")

InCommand ==
  pc \in {"parse", "state", "open", "sync", "collections", "refresh", "read",
          "print"}

(* mutant: run_secret_cli is given no timeout. *)
NeverKilled == FALSE

(* run_secret_cli kills the command after 30 s. *)
Killed ==
  /\ InCommand /\ job.kind = "fetch"
  /\ FetchFails("NETWORK")

-----------------------------------------------------------------------------
DeliveryInit ==
  /\ \E j \in Jobs :
       /\ account = j.vault.account /\ ciphers = j.vault.ciphers
       /\ format = j.format
       /\ job = [kind |-> j.kind, here |-> j.here, env |-> j.env, agent |-> j.agent]
       /\ pc = (IF j.kind = "fetch" THEN "plugin" ELSE "parse")
       /\ turn = (IF j.kind = "get" THEN 1 ELSE 0)
       /\ prelude = j.prelude
       /\ session = UserKey(j.prelude, account)
  /\ fields = <<>> /\ next = 0 /\ seen = {} /\ out = <<>> /\ exit = "none"
  /\ retried = FALSE /\ answered = Unasked
  /\ value = <<>> /\ child = "none"
  /\ secrets = << >> /\ kind = "none"

Command ==
  \/ ParseRef \/ LoadState \/ LoadStateErr \/ Open \/ RefreshMissing
  \/ Lookup \/ LookupErr
  \/ OfferSkipped \/ PipeBroke \/ Offered \/ ChildEnds \/ PrintValue
  \/ ExportStep
  \/ \E response \in Responses : Answer(response) \/ Refresh(response)

Plugin == NotConfigured \/ BinaryMissing \/ RunGet \/ Take \/ GetFailed \/ FetchDone

DeliveryNext == Command \/ Plugin \/ Killed

(* The plugin takes its steps and the kill comes; nothing is assumed of    *)
(* the command, which waits for the server, or ssh-add, without a bound.   *)
DeliverySpec ==
  /\ DeliveryInit /\ [][DeliveryNext]_deliveryVars
  /\ WF_deliveryVars(Plugin) /\ WF_deliveryVars(Killed)

-----------------------------------------------------------------------------
Points == {"plugin", "parse", "state", "open", "sync", "collections", "refresh",
           "read", "offer", "child", "print", "exited", "done"}
Kinds == {"none", "ok", "NOT_CONFIGURED", "BINARY_MISSING", "REF_INVALID",
          "AUTH_FAILED", "NETWORK", "EMPTY_VALUE"}

DeliveryTypeOK ==
  /\ fields \in Seq([name : Names, value : Seq(Chars)])
  /\ next \in 0..(Len(fields) + 1) /\ IsFiniteSet(seen)
  /\ exit \in {"none", "ok", "nul", "usage", "auth", "fault", "absent"}
  /\ session \in Keys \cup {Failed}
  /\ pc \in Points
  /\ turn \in 0..Len(job.env)
  /\ retried \in BOOLEAN
  /\ answered \in [to : {"none", "sync", "collections", "refresh"}, response : Responses]
  /\ value \in Seq(Chars)
  /\ child \in {"none", "running", "killed", "added", "refused", "lost"}
  /\ DOMAIN secrets \subseteq {b.var : b \in ToSet(job.env)}
  /\ kind \in Kinds

(* A login gets the account's own user key or none.  It gets it whenever   *)
(* prelogin gave the parameters the account was made with, however close   *)
(* to 32 bits: no cut and no product of kdf_from_json spoils them.  It gets*)
(* it for no others, except where a number, or Argon2's memory in KiB,     *)
(* exceeds 32 bits and wraps onto the account's own.  That prelogin counts *)
(* memory in MiB is provider.rs 284 (derive_master_key, unwrap_user_key).  *)
Or(x, default) == IF x = Absent THEN default ELSE x
Kib(json) == 1024 * Or(json.memory, 64)

Means(json, params) ==
  IF Or(json.kind, 0) = 1
  THEN /\ params.kind = 1
       /\ params.iterations = Or(json.iterations, 3)
       /\ params.memory = Kib(json)
       /\ params.parallelism = Or(json.parallelism, 4)
  ELSE /\ params.kind = 0
       /\ params.iterations = Or(json.iterations, 600000)

Fits(json) ==
  /\ \A x \in {json.kind, json.iterations, json.parallelism} : Or(x, 0) < Word
  /\ Kib(json) < Word

UnlockIsExact ==
  /\ session \in {"user", Failed}
  /\ Or(prelude.kind, 0) < Word /\ Means(prelude, account.kdf) => session = "user"
  /\ Fits(prelude) /\ session = "user" => Means(prelude, account.kdf)

(* What a reference asks of an item: the field it names and no other, or   *)
(* the first of the chain that is there and not empty.                     *)
HeldIn(c, ref) ==
  LET filled == {i \in DOMAIN Chain : /\ Chain[i] \in NamesOf(c)
                                      /\ Holds(c, Chain[i]) # <<>>}
  IN  IF ref.explicit THEN {Holds(c, n) : n \in {m \in NamesOf(c) : <<m>> = ref.field}}
      ELSE {Holds(c, Chain[i]) : i \in {j \in filled : \A k \in filled : j <= k}}

(* The items it can mean; none of a namespace with a slash in its name,    *)
(* which no locus spells: the first slash ends the namespace.              *)
Meant(ref) ==
  {c \in ToSet(ciphers) : /\ At("/", job.here) = {} /\ NameOf(c) # Failed
                          /\ ref.locus = job.here \o (<<"/">> \o NameOf(c))}

Held(ref) == UNION {HeldIn(c, ref) : c \in {d \in Meant(ref) : Mapped(d)}}

(* What a get prints is what an item of that name in the namespace holds   *)
(* under the field asked for (ops::get; foundation/spec.md, "Type-aware    *)
(* default field resolution").                                             *)
ValueIsHeld == (IsGet /\ pc = "exited" /\ exit = "ok") => out \in Held(Asked)

(* A get that fails says why (main.rs die_provider, map_api, get_secret):  *)
(*   2 (usage)  only for what is no reference to an item of a collection;  *)
(*   5 (absent) only if the request was answered 404, or there is no such  *)
(*     namespace, or none of its items reads as having the name and the key*)
(*     of each one opens, or an item of the name lacks the field.  An item *)
(*     whose name does not decrypt is passed over in this (get_secret,     *)
(*     623-625);                                                           *)
(*   4 (fault)  only if the request for the data failed on the way or by   *)
(*     the server's fault, or a key of the account does not open, or the   *)
(*     item of the name is damaged, or none has the name and the key of one*)
(*     in its namespace does not open;                                     *)
(*   3 (auth)   only before any request was made, or if the refresh was the*)
(*     last of them and failed, or the request was refused with 4xx.       *)
WellFormed(s) ==
  /\ Len(s) > 4 /\ s[2] = "://"
  /\ s[1] \notin {"://", "#"} /\ Lower[s[1]] = "vw"
  /\ LET stop == IF At("#", s) # {} THEN Min(At("#", s)) ELSE Len(s) + 1
     IN  stop # Len(s) /\ \E i \in 3..(stop - 1) : s[i] = "/"

Fetched == answered.to \in {"sync", "collections"}
RefusedWith(statuses) ==
  Fetched /\ answered.response # Down /\ answered.response.status \in statuses

FailureIsReal ==
  (IsGet /\ pc = "exited" /\ exit # "ok") =>
    CASE exit = "usage"  -> ~ WellFormed(Written)
      [] exit = "absent" ->
           \/ RefusedWith({404})
           \/ /\ Opened # Failed
              /\ \/ Meant(Asked) = {} /\ (Target = job.here => Locked = {})
                 \/ \E c \in Meant(Asked) : Mapped(c) /\ HeldIn(c, Asked) = {}
      [] exit = "fault"  ->
           \/ Fetched /\ ~ Ok(answered.response) /\ ~ RefusedWith(400..499)
           \/ Opened = Failed
           \/ Meant(Asked) = {} /\ Target = job.here /\ Locked # {}
           \/ \E c \in Meant(Asked) : ~ Mapped(c)
      [] exit = "auth"   ->
           \/ answered = Unasked
           \/ answered.to = "refresh" /\ ~ Ok(answered.response)
           \/ RefusedWith((400..499) \ {404})
      [] OTHER           -> FALSE

(* A fetch that ends well has the value of every well-formed binding, each *)
(* from its own reference and none blank; one that fails has nothing for   *)
(* the binding it failed at (__init__.py fetch; foundation/spec.md:221,    *)
(* "contributes no value for that var").                                   *)
FetchIsWhole ==
  LET of(var) == {i \in Bindings : job.env[i].var = var}
  IN  /\ kind = "ok" => DOMAIN secrets = {job.env[i].var : i \in Bindings}
      /\ kind \in Kinds \ {"none", "ok"} =>
           \A i \in Bindings : i >= turn => job.env[i].var \notin DOMAIN secrets
      /\ \A var \in DOMAIN secrets : \E i \in of(var) :
           /\ i <= turn
           /\ secrets[var] # <<>>
           /\ \E text \in Held(Parse(job.env[i].ref)) : secrets[var] = Strip(text)

(* Only a private key reaches ssh-add, the command waits for every child   *)
(* before it exits, and the value is printed whatever the agent makes of   *)
(* it (agent.rs:8-16, main.rs:420-425).                                    *)
HandOffHarmless ==
  child # "none" =>
    /\ job.agent /\ LooksLikeKey(value)
    /\ pc = "exited" => child # "running" /\ exit = "ok" /\ out = value

-----------------------------------------------------------------------------
(* The inductive invariant of the proofs.                                  *)

(* What a command is given stays what the job says. *)
JobInv ==
  \E j \in Jobs :
    /\ account = j.vault.account /\ ciphers = j.vault.ciphers
    /\ format = j.format /\ prelude = j.prelude
    /\ job = [kind |-> j.kind, here |-> j.here, env |-> j.env, agent |-> j.agent]

(* An export as env lines: the keys used are the keys of the lines. *)
EnvInv ==
  format = "env" =>
    /\ job.kind = "export"
    /\ pc \notin {"plugin", "print", "offer", "child"}
    /\ Len(out) \in Nat /\ out = [i \in 1..Len(out) |-> out[i]]
    /\ seen = {out[i].key : i \in 1..Len(out)}

(* The fields to print are the namespace's, and the lines before the one   *)
(* the loop is at are printed.                                             *)
LinesInv ==
  /\ next = 0 => fields = <<>>
  /\ next # 0 => fields = Secrets /\ session # Failed /\ Opened # Failed
  /\ format = "env" =>
       /\ Len(out) = IF next = 0 THEN 0 ELSE next - 1
       /\ \A i \in 1..Len(out) : out[i].text = Escaped(fields[i].value)
       /\ exit = "ok" => next = Len(fields) + 1
  /\ format = "json" /\ exit = "ok" => next # 0 /\ out = Object

HandInv ==
  /\ job.agent => job.kind = "get"
  /\ pc \in {"offer", "child"} => job.agent
  /\ pc = "child" => child = "running"
  /\ child # "none" =>
       /\ job.agent /\ LooksLikeKey(value)
       /\ pc \in {"child", "print", "exited"}
       /\ child = "running" => pc = "child"
       /\ pc = "exited" => exit = "ok" /\ out = value

(* What a command knows at each point. *)
PointInv ==
  /\ pc \in {"parse", "state", "open"} => answered = Unasked /\ ~ retried
  /\ pc = "refresh" => RefusedWith({401})
  /\ pc \in {"open", "sync", "collections", "refresh", "read", "offer", "child",
             "print"} => session # Failed
  /\ pc \in {"collections", "read", "offer", "child", "print"} => Opened # Failed
  /\ IsGet /\ pc \in {"sync", "collections", "refresh", "read"} => Addressed
  /\ pc \in {"offer", "child", "print"} => IsGet /\ value \in Held(Asked)

(* The bindings a fetch has the value of: those before the one it is at,   *)
(* and that one once its get is taken.                                     *)
Taken ==
  {i \in Bindings : i < turn \/ (i = turn /\ (pc = "plugin" \/ kind = "ok"))}

FetchInv ==
  /\ kind # "none" => pc = "done"
  /\ kind = "ok" => Left = {}
  /\ pc \in {"plugin", "done"} => job.kind = "fetch"
  /\ job.kind = "get" => turn = 1
  /\ job.kind = "fetch" /\ pc \notin {"plugin", "done"} => turn \in Bindings
  /\ DOMAIN secrets = {job.env[i].var : i \in Taken}

DeliveryInv ==
  /\ JobInv /\ DeliveryTypeOK /\ UnlockIsExact
  /\ EnvInv /\ KeysDistinct /\ LinesInv
  /\ HandInv /\ PointInv /\ ValueIsHeld /\ FailureIsReal
  /\ FetchInv /\ FetchIsWhole

(* A fetch ends whatever the server does: a get that waits for it without  *)
(* end is killed (__init__.py:160, api.rs Client::new without a timeout).  *)
FetchEnds == job.kind = "fetch" ~> pc = "done"
=============================================================================
