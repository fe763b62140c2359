--------------------------- MODULE TokenLifecycle ---------------------------
(***************************************************************************)
(* The life of the access and refresh tokens across `cryptile get`,        *)
(* `list` and `export` (crates/cli/src/ops.rs, main.rs), the refresh grant *)
(* of the backend (crates/vaultwarden/src/provider.rs) and the sealed      *)
(* keyring, for any number of CLI processes that share one state           *)
(* directory within one login.                                             *)
(*                                                                         *)
(* A token is the number of the grant that issued it; grant 0 is the       *)
(* login.  What the token endpoint does with the refresh token it is given *)
(* is the server's policy, not the program's: see RefreshPolicy.           *)
(* The keyring file is one atomic cell here; module StateDir opens it up.  *)
(***************************************************************************)
EXTENDS Naturals, FiniteSets

CONSTANTS
  Procs,          \* CLI processes
  RefreshPolicy,  \* "rotate": a refresh token is single use;
                  \* "overlap": a new one is issued, the old one stays good;
                  \* "keep": the same refresh token is used for ever
  NoToken,        \* the login answer held no refresh token
  MaxGrants       \* bound: refresh grants the server answers

Policies == {"rotate", "overlap", "keep"}

ASSUME PolicyAssumption  == RefreshPolicy \in Policies
ASSUME NoTokenAssumption == NoToken \notin Nat
ASSUME MaxGrantsAssumption == MaxGrants \in Nat

VARIABLES
  keyring,   \* the session sealed on disk
  granted,   \* number of the latest grant
  valid,     \* refresh tokens the server honours
  expired,   \* access tokens the server answers with 401
  revoked,   \* the account's sessions were revoked (password change)
  pc,        \* control point of each process
  cmd,       \* the command each process runs
  orig,      \* `session` as loaded from the keyring: ops.rs passes it by reference
  cur,       \* the session the operation uses
  left,      \* requests the current attempt still has to make
  asked,     \* refresh requests sent by this command
  dropped    \* refresh tokens received, or granted to a lost reply, and discarded unsealed

server == <<granted, valid, expired, revoked>>
histories == <<asked, dropped>>
vars == <<keyring, granted, valid, expired, revoked, pc, cmd, orig, cur, left,
          asked, dropped>>

Commands == {"get", "list", "export"}

(* HTTP requests of one attempt: get = sync + collections (a warm hit needs *)
(* one); list without a namespace = one sync and collections; export and a  *)
(* namespace listing do that twice.                                         *)
Requests == [get |-> 2, list |-> 2, export |-> 4]

Tokens == Nat \cup {NoToken}
Session == [at : Nat, rt : Tokens]
ControlPoints ==
  {"idle", "ensure", "first", "renew", "second", "served", "reseal", "done"}
Running(p) == pc[p] \notin {"idle", "done"}

TypeOK ==
  /\ keyring \in Session
  /\ granted \in Nat
  /\ valid \in SUBSET Nat
  /\ expired \in SUBSET Nat
  /\ revoked \in BOOLEAN
  /\ pc \in [Procs -> ControlPoints]
  /\ cmd \in [Procs -> Commands]
  /\ orig \in [Procs -> Session]
  /\ cur \in [Procs -> Session]
  /\ left \in [Procs -> Nat]
  /\ asked \in [Procs -> Nat]
  /\ dropped \in SUBSET Nat

(* A fresh login: grant 0, with or without a refresh token. *)
Init ==
  /\ \E rt \in {0, NoToken} : keyring = [at |-> 0, rt |-> rt]
  /\ granted = 0
  /\ valid = {keyring.rt} \ {NoToken}
  /\ expired = {}
  /\ revoked = FALSE
  /\ pc = [p \in Procs |-> "idle"]
  /\ cmd = [p \in Procs |-> "get"]
  /\ orig = [p \in Procs |-> keyring]
  /\ cur = [p \in Procs |-> keyring]
  /\ left = [p \in Procs |-> 0]
  /\ asked = [p \in Procs |-> 0]
  /\ dropped = {}

-----------------------------------------------------------------------------
(* The token endpoint.                                                     *)

CanGrant(s) == s.rt \in valid /\ granted < MaxGrants

(* Mutant: the refresh token of the answer is not kept. *)
SuccessorForgetsToken(s) == [at |-> granted + 1, rt |-> NoToken]

(* What refresh_session builds from the answer: the new access token, and   *)
(* the new refresh token or, when the answer has none, the old one.         *)
Successor(s) ==
  [at |-> granted + 1,
   rt |-> IF RefreshPolicy = "keep" THEN s.rt ELSE granted + 1]

ServerGrants(s) ==
  /\ granted' = granted + 1
  /\ valid' = (IF RefreshPolicy = "rotate" THEN valid \ {s.rt} ELSE valid)
                \cup {Successor(s).rt}
  /\ UNCHANGED <<expired, revoked>>

(* An access token runs out (or the server forgets it). *)
Expire ==
  /\ \E t \in 0..granted : expired' = expired \cup {t}
  /\ UNCHANGED <<keyring, granted, valid, revoked, pc, cmd, orig, cur, left>>
  /\ UNCHANGED histories

(* A password change or a session revocation: every token dies. *)
Revoke ==
  /\ ~revoked
  /\ revoked' = TRUE
  /\ valid' = {}
  /\ expired' = 0..granted
  /\ UNCHANGED <<keyring, granted, pc, cmd, orig, cur, left>>
  /\ UNCHANGED histories

-----------------------------------------------------------------------------
(* Helpers of the command actions.                                         *)

Goto(p, l) == pc' = [pc EXCEPT ![p] = l]

(* The refresh tokens the process holds and the keyring does not. *)
Unsealed(p) == IF cur[p] # orig[p] THEN {cur[p].rt} \ {NoToken} ELSE {}

(* ops.rs or main.rs returns: the session in hand is dropped unsealed.      *)
Finish(p) ==
  /\ Goto(p, "done")
  /\ dropped' = dropped \cup Unsealed(p)

BeginAttempt(p, l) ==
  /\ Goto(p, l)
  /\ left' = [left EXCEPT ![p] = Requests[cmd[p]]]

(* A refresh attempt that returns Err: no refresh token (no request is      *)
(* sent), the server refuses it, the request never arrives, or the answer   *)
(* is lost after the grant.  `lost` is the set of tokens lost that way.     *)
RefreshErr(p, s) ==
  \/ /\ s.rt = NoToken
     /\ UNCHANGED server
     /\ UNCHANGED asked
  \/ /\ s.rt # NoToken
     /\ asked' = [asked EXCEPT ![p] = @ + 1]
     /\ UNCHANGED server
  \/ /\ CanGrant(s)
     /\ asked' = [asked EXCEPT ![p] = @ + 1]
     /\ ServerGrants(s)

LostInReply == IF granted' # granted THEN valid' \ valid ELSE {}

(* A refresh attempt that returns Ok. *)
RefreshOk(p, s) ==
  /\ CanGrant(s)
  /\ ServerGrants(s)
  /\ asked' = [asked EXCEPT ![p] = @ + 1]
  /\ cur' = [cur EXCEPT ![p] = Successor(s)]

-----------------------------------------------------------------------------
(* The commands.                                                           *)

(* load_state_for: unseal the keyring. *)
Start(p, c) ==
  /\ ~Running(p)
  /\ Goto(p, "ensure")
  /\ cmd' = [cmd EXCEPT ![p] = c]
  /\ orig' = [orig EXCEPT ![p] = keyring]
  /\ cur' = [cur EXCEPT ![p] = keyring]
  /\ asked' = [asked EXCEPT ![p] = 0]
  /\ UNCHANGED <<keyring, server, left, dropped>>

(* ensure_fresh, no expiry recorded or the expiry beyond the margin.  The   *)
(* local clock is not the server's: which branch runs is nondeterministic.  *)
StillFresh(p) ==
  /\ pc[p] = "ensure"
  /\ BeginAttempt(p, "first")
  /\ UNCHANGED <<keyring, server, cmd, orig, cur>>
  /\ UNCHANGED histories

(* Mutant: the rotated session is sealed at once, before the operation. *)
ProactiveOkSealsEarly(p) ==
  /\ pc[p] = "ensure"
  /\ RefreshOk(p, orig[p])
  /\ BeginAttempt(p, "first")
  /\ keyring' = Successor(orig[p])
  /\ UNCHANGED <<cmd, orig, dropped>>

(* ensure_fresh, stale, the refresh succeeds. *)
ProactiveOk(p) ==
  /\ pc[p] = "ensure"
  /\ RefreshOk(p, orig[p])
  /\ BeginAttempt(p, "first")
  /\ UNCHANGED <<keyring, cmd, orig, dropped>>

(* ensure_fresh, stale, the refresh fails: the old session is used. *)
ProactiveErr(p) ==
  /\ pc[p] = "ensure"
  /\ RefreshErr(p, orig[p])
  /\ BeginAttempt(p, "first")
  /\ dropped' = dropped \cup LostInReply
  /\ UNCHANGED <<keyring, cmd, orig, cur>>

(* One request of an attempt is answered; the last one ends the attempt. A  *)
(* get that hits the warm cache ends with its first request.                *)
RequestOk(p) ==
  /\ pc[p] \in {"first", "second"}
  /\ cur[p].at \notin expired
  /\ left' = [left EXCEPT ![p] = @ - 1]
  /\ \/ left[p] = 1 /\ Goto(p, "served")
     \/ left[p] > 1 /\ UNCHANGED pc
     \/ left[p] = 2 /\ cmd[p] = "get" /\ Goto(p, "served")
  /\ UNCHANGED <<keyring, server, cmd, orig, cur>>
  /\ UNCHANGED histories

(* Mutant: a 401 sends the command back to ensure_fresh. *)
FirstUnauthorizedLoops(p) ==
  /\ pc[p] = "first"
  /\ cur[p].at \in expired
  /\ Goto(p, "ensure")
  /\ UNCHANGED <<keyring, server, cmd, orig, cur, left>>
  /\ UNCHANGED histories

(* 401 in the first attempt: Err(AuthExpired) leads to the reactive refresh. *)
FirstUnauthorized(p) ==
  /\ pc[p] = "first"
  /\ cur[p].at \in expired
  /\ Goto(p, "renew")
  /\ UNCHANGED <<keyring, server, cmd, orig, cur, left>>
  /\ UNCHANGED histories

(* Mutant: a 401 in the second attempt leads to another refresh. *)
SecondUnauthorizedLoops(p) ==
  /\ pc[p] = "second"
  /\ cur[p].at \in expired
  /\ Goto(p, "renew")
  /\ UNCHANGED <<keyring, server, cmd, orig, cur, left>>
  /\ UNCHANGED histories

(* 401 in the second attempt: map_retry turns it into the hint. *)
SecondUnauthorized(p) ==
  /\ pc[p] = "second"
  /\ cur[p].at \in expired
  /\ Finish(p)
  /\ UNCHANGED <<keyring, server, cmd, orig, cur, left, asked>>

(* Any other error of an attempt (transport, 403, 404, crypto, namespace    *)
(* not found) goes straight to main.                                        *)
RequestErr(p) ==
  /\ pc[p] \in {"first", "second"}
  /\ Finish(p)
  /\ UNCHANGED <<keyring, server, cmd, orig, cur, left, asked>>

(* The reactive refresh presents `session`, the one the command was started *)
(* with, whether or not ensure_fresh already replaced it.                   *)
Presented(p) == orig[p]

RenewOk(p) ==
  /\ pc[p] = "renew"
  /\ RefreshOk(p, Presented(p))
  /\ BeginAttempt(p, "second")
  /\ dropped' = dropped \cup Unsealed(p)
  /\ UNCHANGED <<keyring, cmd, orig>>

(* The hint "session expired and refresh failed". *)
RenewErr(p) ==
  /\ pc[p] = "renew"
  /\ RefreshErr(p, Presented(p))
  /\ Goto(p, "done")
  /\ dropped' = dropped \cup Unsealed(p) \cup LostInReply
  /\ UNCHANGED <<keyring, cmd, orig, cur, left>>

(* get: the item has no such field, or no primary value. *)
FieldMissing(p) ==
  /\ pc[p] = "served"
  /\ cmd[p] = "get"
  /\ Finish(p)
  /\ UNCHANGED <<keyring, server, cmd, orig, cur, left, asked>>

Served(p) ==
  /\ pc[p] = "served"
  /\ Goto(p, "reseal")
  /\ UNCHANGED <<keyring, server, cmd, orig, cur, left>>
  /\ UNCHANGED histories

(* Mutants: reseal without the comparison; reseal of the session as loaded. *)
ResealAlways(p) ==
  /\ pc[p] = "reseal"
  /\ Goto(p, "done")
  /\ keyring' = cur[p]
  /\ UNCHANGED <<server, cmd, orig, cur, left>>
  /\ UNCHANGED histories

ResealOriginal(p) ==
  /\ pc[p] = "reseal"
  /\ Goto(p, "done")
  /\ keyring' = orig[p]
  /\ UNCHANGED <<server, cmd, orig, cur, left>>
  /\ UNCHANGED histories

(* reseal: the keyring is rewritten only when the handle changed. *)
Reseal(p) ==
  /\ pc[p] = "reseal"
  /\ Goto(p, "done")
  /\ keyring' = IF cur[p] = orig[p] THEN keyring ELSE cur[p]
  /\ UNCHANGED <<server, cmd, orig, cur, left>>
  /\ UNCHANGED histories

(* reseal: Keyring::save fails, main warns and prints the value all the same. *)
ResealErr(p) ==
  /\ pc[p] = "reseal"
  /\ cur[p] # orig[p]
  /\ Finish(p)
  /\ UNCHANGED <<keyring, server, cmd, orig, cur, left, asked>>

(* The process is killed (hermes kills a child that runs for 30 s). *)
Crash(p) ==
  /\ Running(p)
  /\ Goto(p, "idle")
  /\ dropped' = dropped \cup Unsealed(p)
  /\ UNCHANGED <<keyring, server, cmd, orig, cur, left>>
  /\ UNCHANGED asked

-----------------------------------------------------------------------------
Step(p) ==
  \/ StillFresh(p) \/ ProactiveOk(p) \/ ProactiveErr(p)
  \/ RequestOk(p) \/ FirstUnauthorized(p) \/ SecondUnauthorized(p)
  \/ RequestErr(p)
  \/ RenewOk(p) \/ RenewErr(p)
  \/ FieldMissing(p) \/ Served(p)
  \/ Reseal(p) \/ ResealErr(p)

Next ==
  \/ \E p \in Procs : \/ \E c \in Commands : Start(p, c)
                      \/ Step(p)
                      \/ Crash(p)
  \/ Expire
  \/ Revoke

Spec == Init /\ [][Next]_vars

(* Every request is answered or fails, and a process that can run does. *)
FairSpec == Spec /\ \A p \in Procs : WF_vars(Step(p))

-----------------------------------------------------------------------------
(* Properties.                                                             *)

(* p holds a session the keyring does not have. *)
Holds(p) == Running(p) /\ cur[p] # orig[p]

(* A refresh token that the keyring lost is accounted for: unless the        *)
(* account was revoked or never had one, the server still honours the sealed *)
(* refresh token, or the one a running command is about to seal, or one that *)
(* was discarded on a path without a reseal (a failed command, a failed      *)
(* save, a crash, a lost answer).  No success path strands the keyring.      *)
KeyringAlive ==
  \/ revoked
  \/ keyring.rt = NoToken
  \/ keyring.rt \in valid
  \/ (\E p \in Procs : Holds(p) /\ cur[p].rt \in valid)
  \/ dropped \cap valid # {}

(* With single-use refresh tokens at most one command holds a successor of   *)
(* the sealed session, and that session is the newest: two commands that run *)
(* at once cannot both win the refresh.                                      *)
SingleHeir ==
  RefreshPolicy = "rotate" =>
    \A p, q \in Procs : Holds(p) /\ Holds(q) => p = q /\ cur[p].at = granted

(* No loops (ops.rs 1-2): a command sends at most two refresh requests, one  *)
(* proactive and one reactive, and a second attempt always follows one.      *)
BoundedRefresh ==
  \A p \in Procs : /\ asked[p] <= 2
                   /\ pc[p] = "second" => asked[p] >= 1

(* With single-use refresh tokens reseal never replaces the sealed session   *)
(* by an older one, whatever order the processes finish in.                  *)
KeyringForward ==
  [][RefreshPolicy = "rotate" => keyring'.at > keyring.at]_keyring

(* Every command ends. *)
CommandEnds == \A p \in Procs : pc[p] = "ensure" ~> ~Running(p)

(* The silent-refresh scenario of the foundation specification: an access    *)
(* token that expires in mid-command is replaced as long as a valid refresh  *)
(* token exists.  So a command that reaches the reactive refresh with a live *)
(* refresh token in hand presents a live one.                                *)
LivePresented ==
  \A p \in Procs :
    pc[p] = "renew" /\ cur[p].rt \in valid => Presented(p).rt \in valid

(* The risk the token-lifecycle design accepts is a process that dies between *)
(* grant and re-seal.  A command that ran to its end leaves a keyring whose   *)
(* refresh token the server honours.                                          *)
EndedCommandSealed ==
  \A p \in Procs : pc[p] = "done" /\ cur[p] # orig[p] /\ cur[p].rt \in valid
                     => keyring.rt \in valid

-----------------------------------------------------------------------------
(* The inductive invariant behind the safety properties.                   *)

(* The refresh work a command has behind it at each control point. *)
WorkDone ==
  \A p \in Procs :
    /\ asked[p] <= 2
    /\ pc[p] = "ensure" => asked[p] = 0
    /\ pc[p] \in {"first", "renew"} => asked[p] <= 1
    /\ pc[p] = "second" => asked[p] >= 1

(* Single-use refresh tokens: the only one the server may honour is the     *)
(* newest; a session newer than the loaded one is the newest; nobody else   *)
(* holds such a session, and nothing on disk or loaded from it is as new.   *)
OwnRt(s) == s.rt \in {s.at, NoToken}
NewestOnly == valid \subseteq {granted}
SealedOlder ==
  /\ OwnRt(keyring)
  /\ keyring.at <= granted
  /\ keyring.rt = NoToken => granted = 0 /\ valid = {}
LoadedOlder ==
  \A p \in Procs : Running(p) => OwnRt(orig[p]) /\ orig[p].at <= keyring.at
HeldNewest ==
  \A p \in Procs : Holds(p) => /\ cur[p].at = granted
                               /\ cur[p].rt = granted
                               /\ keyring.at < granted
OneHolder == \A p, q \in Procs : Holds(p) /\ Holds(q) => p = q
RotateInv ==
  RefreshPolicy = "rotate" =>
    NewestOnly /\ SealedOlder /\ LoadedOlder /\ HeldNewest /\ OneHolder

(* Refresh tokens that survive their use: every one in sight stays good     *)
(* until the account is revoked.                                            *)
Good(s) == s.rt \in valid \cup {NoToken}
ReusableInv ==
  RefreshPolicy # "rotate" =>
    \/ revoked
    \/ Good(keyring) /\ \A p \in Procs : Running(p) => Good(orig[p]) /\ Good(cur[p])

IInv == TypeOK /\ WorkDone /\ RotateInv /\ ReusableInv /\ KeyringAlive

-----------------------------------------------------------------------------
(* The single-use refresh token is a baton: sealed in the keyring, in the    *)
(* hands of one command, or gone.                                            *)
Baton == INSTANCE RefreshBaton WITH
           sealed  <- keyring.rt \in valid,
           holders <- {p \in Procs : Holds(p) /\ cur[p].rt \in valid}
BatonSpec == Baton!Spec
=============================================================================
