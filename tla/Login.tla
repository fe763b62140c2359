------------------------------- MODULE Login -------------------------------
(***************************************************************************)
(* One `cryptile login` (crates/cli/src/main.rs) against the token         *)
(* endpoint: the bare grant, the choice of a second factor, the second     *)
(* call of VaultwardenProvider::login with its own challenge and resubmit  *)
(* (crates/vaultwarden/src/provider.rs), and the security-key ceremony on  *)
(* a thread of its own that the login waits for (webauthn.rs).             *)
(*                                                                         *)
(* A challenge is its number: the server keeps the last one it issued for  *)
(* the account, and other clients that log in overtake it.  A code or an   *)
(* assertion is the factor it belongs to and, for an assertion, the        *)
(* challenge it signs.                                                     *)
(***************************************************************************)
EXTENDS Naturals, Sequences, FiniteSets

CONSTANTS
  Builds,       \* the linked ceremony: "fidoh", "legacy", "neither"
  Offers,       \* the second factors an account may demand, in wire order
  MaxOvertakes  \* bound: other logins start while fewer challenges are issued

Codes == {"totp", "email"}
Factors == Codes \cup {"webauthn"}

ASSUME BuildsAssumption == Builds \subseteq {"fidoh", "legacy", "neither"}
ASSUME OffersAssumption == Offers \subseteq Seq(Factors \cup {"unknown"})
ASSUME OvertakesAssumption == MaxOvertakes \in Nat

VARIABLES
  build,
  flags,      \* --2fa-provider, the code flags, and whether stdin is a TTY
  demands,    \* the factors the account demands now, <<>> without 2FA
  issued,     \* challenges issued for the account; the last one is live
  pc,
  call,       \* which call of login() this is
  second,     \* LoginParams.second_factor: its tag, or "none"
  offered,    \* the factors the last challenge listed
  held,       \* the challenge in the body last received
  answer,     \* what the next grant request carries
  thread,     \* the ceremony thread
  exit,
  sent,       \* history: the grant requests of the command
  overtaken   \* history: another login was challenged since `held` was

server == <<demands, issued>>
params == <<build, flags>>
vars == <<build, flags, demands, issued, pc, call, second, offered, held,
          answer, thread, exit, sent, overtaken>>

NoAnswer == [factor |-> "none", of |-> 0]
Code(tag) == [factor |-> tag, of |-> 0]
Assertion(challenge) == [factor |-> "webauthn", of |-> challenge]

Listed(list) == {list[i] : i \in DOMAIN list}
Challenges == 0..(MaxOvertakes + 3)
Answers == [factor : Factors \cup {"none"}, of : Challenges]

Points == {"start", "grant", "resolve", "decode", "waiting", "resubmit",
           "unwrap", "save", "ended"}
Working == {"work", "pin", "touch"}
Failed == {"auth", "transport", "server"}

TypeOK ==
  /\ build \in Builds
  /\ flags \in [pref : Factors \cup {"any"},
                code : {"given", "unset", "none"}, tty : BOOLEAN]
  /\ demands \in Offers
  /\ issued \in Challenges /\ held \in Challenges
  /\ pc \in Points
  /\ call \in 1..2
  /\ second \in Factors \cup {"none"}
  /\ offered \in Offers \cup {<<>>}
  /\ answer \in Answers
  /\ thread \in [at : Working \cup Failed \cup {"none", "done"},
                 of : Challenges]
  /\ exit \in {"none", "ok", "usage", "auth", "fault", "state", "again"}
  /\ sent \in Seq([call : 1..2, answer : Answers, offered : Offers \cup {<<>>}])
  /\ overtaken \in BOOLEAN

Init ==
  /\ build \in Builds
  /\ flags \in [pref : Factors \cup {"any"},
                code : {"given", "unset", "none"}, tty : BOOLEAN]
  /\ demands \in Offers
  /\ issued = 0 /\ held = 0
  /\ pc = "start"
  /\ call = 1
  /\ second = "none"
  /\ offered = <<>>
  /\ answer = NoAnswer
  /\ thread = [at |-> "none", of |-> 0]
  /\ exit = "none"
  /\ sent = <<>>
  /\ overtaken = FALSE

(* The process ends, a ceremony still running with it. *)
End(how) == pc' = "ended" /\ exit' = how

-----------------------------------------------------------------------------
(* Before the network: the flag checks, passphrase, password and registry  *)
(* (exit 2), then the first call.                                          *)
Start ==
  /\ pc = "start"
  /\ \/ End("usage")
     \/ pc' = "grant" /\ UNCHANGED exit
  /\ UNCHANGED <<params, server, call, second, offered, held, answer, thread,
                 sent, overtaken>>

-----------------------------------------------------------------------------
(* The password grant: the bare or code-carrying one of a call ("grant")   *)
(* and the one with the answer to its challenge ("resubmit").              *)
Send ==
  /\ pc \in {"grant", "resubmit"}
  /\ sent' = Append(sent, [call |-> call, answer |-> answer,
                           offered |-> offered])

(* What the server honours: a code it takes for right, an assertion over   *)
(* the challenge it issued last.                                           *)
Honoured(a) ==
  \/ demands = <<>>
  \/ /\ a.factor \in Listed(demands)
     /\ a.factor = "webauthn" => a.of = issued

Granted ==
  /\ Send
  /\ Honoured(answer)
  /\ pc' = "unwrap"
  /\ UNCHANGED <<params, server, call, second, offered, held, answer, thread,
                 exit, overtaken>>

(* Prelogin or grant fail: transport, server, credentials, a wrong code.   *)
GrantErr ==
  /\ Send
  /\ \E how \in {"auth", "fault", "state"} : End(how)
  /\ UNCHANGED <<params, server, call, second, offered, held, answer, thread,
                 overtaken>>

(* mutant: the second call answers the challenge of the first. *)
ChallengeKeepsFirst ==
  /\ demands # <<>>
  /\ Send
  /\ issued' = issued + 1
  /\ held' = IF call = 1 THEN issued' ELSE held
  /\ offered' = demands
  /\ overtaken' = FALSE

(* A challenge on the wire, with a fresh number. *)
Challenge ==
  /\ demands # <<>>
  /\ Send
  /\ issued' = issued + 1
  /\ held' = issued'
  /\ offered' = demands
  /\ overtaken' = FALSE

(* mutant: the selected security key is forgotten with its empty code. *)
AnswerTwoFactorForgets == IF second \in Codes THEN "resubmit" ELSE "challenged"

(* answer_two_factor: what a call does about the challenge to its first    *)
(* grant.                                                                  *)
AnswerTwoFactor ==
  CASE second \in Codes       -> "resubmit"
    [] second = "webauthn"    -> "decode"
    [] second = "none"        -> "challenged"

(* The first grant of a call is challenged.  Without a second factor the   *)
(* CLI sees TwoFactorRequired: after the first call it resolves a factor,  *)
(* after the second it gives up.                                           *)
Challenged ==
  /\ pc = "grant"
  /\ Challenge
  /\ IF AnswerTwoFactor # "challenged"
       THEN pc' = AnswerTwoFactor /\ UNCHANGED exit
       ELSE IF call = 1 THEN pc' = "resolve" /\ UNCHANGED exit
                        ELSE End("again")
  /\ UNCHANGED <<params, demands, call, second, answer, thread>>

(* mutant: a rejected answer is answered again. *)
ChallengedAgainLoops ==
  /\ pc = "resubmit"
  /\ Challenge
  /\ pc' = AnswerTwoFactor
  /\ UNCHANGED <<params, demands, call, second, answer, thread, exit>>

(* A challenge to the answer: the answer was rejected. *)
ChallengedAgain ==
  /\ pc = "resubmit"
  /\ Challenge
  /\ End("auth")
  /\ UNCHANGED <<params, demands, call, second, answer, thread>>

-----------------------------------------------------------------------------
(* resolve_second_factor *)
HardwareCapable == build # "neither"
Answerable(tag) == tag \in Codes \/ (tag = "webauthn" /\ HardwareCapable)

(* mutant: --2fa-provider wins whatever the server offers. *)
PicksUnoffered(tag) ==
  IF flags.pref # "any" THEN tag = flags.pref
  ELSE \E i \in DOMAIN offered : tag = offered[i] /\ Answerable(tag)

Picks(tag) ==
  IF flags.pref # "any"
    THEN /\ tag = flags.pref
         /\ tag \in Listed(offered)
         /\ tag = "webauthn" => HardwareCapable
    ELSE \E i \in DOMAIN offered :
           /\ tag = offered[i] /\ Answerable(tag)
           /\ \A j \in 1..(i - 1) : ~ Answerable(offered[j])

(* --2fa-code, then --2fa-env, then the terminal. *)
CodeReady == flags.code = "given" \/ (flags.code = "none" /\ flags.tty)

(* The first grant of the second call carries a code, never a selected     *)
(* security key: its assertion needs a challenge first.                    *)
Carried(tag) == IF tag \in Codes THEN Code(tag) ELSE NoAnswer

Resolve ==
  /\ pc = "resolve"
  /\ \E tag \in Factors :
       /\ Picks(tag)
       /\ tag \in Codes => CodeReady
       /\ second' = tag
       /\ answer' = Carried(tag)
  /\ call' = 2
  /\ pc' = "grant"
  /\ UNCHANGED <<params, server, offered, held, thread, exit, sent, overtaken>>

(* Nothing to pick, no source for the code, or the prompt fails. *)
ResolveErr ==
  /\ pc = "resolve"
  /\ \A tag \in Factors : Picks(tag) => tag \in Codes /\ flags.code # "given"
  /\ End("auth")
  /\ UNCHANGED <<params, server, call, second, offered, held, answer, thread,
                 sent, overtaken>>

-----------------------------------------------------------------------------
(* The ceremony: the challenge is decoded (no provider-7 entry, or a       *)
(* malformed one, ends the login), then a thread runs it and the login     *)
(* waits for its result.                                                   *)
DecodeErr ==
  /\ pc = "decode"
  /\ End("auth")
  /\ UNCHANGED <<params, server, call, second, offered, held, answer, thread,
                 sent, overtaken>>

Spawn ==
  /\ pc = "decode"
  /\ "webauthn" \in Listed(offered)
  /\ thread' = [at |-> "work", of |-> held]
  /\ pc' = "waiting"
  /\ UNCHANGED <<params, server, call, second, offered, held, answer, exit,
                 sent, overtaken>>

(* How a ceremony thread may move, as the login sees it: it works, asks for *)
(* a PIN if a terminal can, waits for the touch, ends.  LoginCeremony has   *)
(* the steps themselves.                                                   *)
LegacyMoves ==
  ({"work"} \X {"auth", "transport", "server", "touch"})
    \cup ({"touch"} \X {"done", "auth", "transport"})

(* fidoh_perform_assertion adds the PIN, whose prompt waits outside every   *)
(* deadline, and a class for a token that cannot be assembled.              *)
FidohMoves ==
  LegacyMoves \cup {<<"touch", "server">>}
    \cup (IF flags.tty
            THEN {<<"work", "pin">>} \cup ({"pin"} \X {"touch", "auth", "transport"})
            ELSE {})

CeremonyMoves == IF build = "legacy" THEN LegacyMoves ELSE FidohMoves

CeremonyStep ==
  /\ pc = "waiting"
  /\ \E move \in CeremonyMoves :
       thread.at = move[1] /\ thread' = [thread EXCEPT !.at = move[2]]
  /\ UNCHANGED <<params, server, pc, call, second, offered, held, answer, exit,
                 sent, overtaken>>

Received ==
  /\ pc = "waiting"
  /\ thread.at = "done"
  /\ answer' = Assertion(thread.of)
  /\ pc' = "resubmit"
  /\ UNCHANGED <<params, server, call, second, offered, held, thread, exit,
                 sent, overtaken>>

(* exit_class for fidoh; the legacy path reports every error of the        *)
(* ceremony but a panic as a refusal.                                      *)
ReceivedErr ==
  /\ pc = "waiting"
  /\ thread.at \in Failed
  /\ End(IF thread.at = "auth" \/ (build = "legacy" /\ thread.at = "transport")
         THEN "auth" ELSE "fault")
  /\ UNCHANGED <<params, server, call, second, offered, held, answer, thread,
                 sent, overtaken>>

(* mutant: only the device's own waits are bounded, not the PIN prompt. *)
BudgetSparesPrompt ==
  /\ pc = "waiting"
  /\ build = "fidoh"
  /\ thread.at \in {"work", "touch"}
  /\ End("fault")
  /\ UNCHANGED <<params, server, call, second, offered, held, answer, thread,
                 sent, overtaken>>

(* recv_timeout: the login stops waiting, wherever the ceremony is; the    *)
(* legacy path joins the thread instead.                                   *)
BudgetExpired ==
  /\ pc = "waiting"
  /\ build = "fidoh"
  /\ thread.at \in Working
  /\ End("fault")
  /\ UNCHANGED <<params, server, call, second, offered, held, answer, thread,
                 sent, overtaken>>

-----------------------------------------------------------------------------
(* The grant is in: the user key must unwrap, then the state is saved      *)
(* (module StateDir).                                                      *)
Unwrap ==
  /\ pc = "unwrap"
  /\ \/ pc' = "save" /\ UNCHANGED exit
     \/ End("fault")
  /\ UNCHANGED <<params, server, call, second, offered, held, answer, thread,
                 sent, overtaken>>

Save ==
  /\ pc = "save"
  /\ End("ok") \/ End("state")
  /\ UNCHANGED <<params, server, call, second, offered, held, answer, thread,
                 sent, overtaken>>

-----------------------------------------------------------------------------
(* Others: the owner changes the account's factors; another client's login *)
(* is challenged, and its challenge replaces the live one.                 *)
ChangeFactors ==
  /\ pc # "ended"
  /\ demands' \in Offers
  /\ UNCHANGED <<params, issued, pc, call, second, offered, held, answer,
                 thread, exit, sent, overtaken>>

OtherLogin ==
  /\ pc # "ended"
  /\ demands # <<>>
  /\ issued < MaxOvertakes
  /\ issued' = issued + 1
  /\ overtaken' = TRUE
  /\ UNCHANGED <<params, demands, pc, call, second, offered, held, answer,
                 thread, exit, sent>>

Command ==
  \/ Start \/ Granted \/ GrantErr \/ Challenged \/ ChallengedAgain
  \/ Resolve \/ ResolveErr
  \/ DecodeErr \/ Spawn \/ Received \/ ReceivedErr \/ BudgetExpired
  \/ Unwrap \/ Save

Next == Command \/ CeremonyStep \/ ChangeFactors \/ OtherLogin

Spec == Init /\ [][Next]_vars

(* Every request is answered or fails and every prompt of the login itself *)
(* is answered.  Of the ceremony thread only the legacy one is known to    *)
(* move: its library clamps the device timeout at 60 s.                    *)
FairSpec ==
  /\ Spec
  /\ WF_vars(Command)
  /\ WF_vars(build = "legacy" /\ CeremonyStep)

-----------------------------------------------------------------------------
(* An assertion goes out only in answer to the challenge this call was     *)
(* given, by a server that listed the security key in it; so it is the one *)
(* the server will verify unless another login of the account was          *)
(* challenged meanwhile (provider.rs, login and answer_two_factor).        *)
AssertionIsLive ==
  (pc = "resubmit" /\ answer.factor = "webauthn") =>
    /\ answer.of = held
    /\ "webauthn" \in Listed(offered)
    /\ ~ overtaken => answer.of = issued

(* The request budget of login (provider.rs 388-399, "one answer, one       *)
(* resubmit"): one grant in the first call, without a factor; two in the    *)
(* second, the other one only with an answer.  An assertion goes out once,  *)
(* as the last request of a command whose grants before it were bare        *)
(* (two-factor-login/spec.md 70-77).  A code goes out twice at most: with   *)
(* the first grant of the second call and, the same code, with the one that *)
(* answers a challenge to that.  That is the code's budget and not the      *)
(* specification's, which has a code submitted once and not again when it   *)
(* is rejected (two-factor-login/spec.md 39-42, 51-56).                     *)
WireBudget ==
  LET factor(i) == sent[i].answer.factor
      grants(c) == {i \in DOMAIN sent : sent[i].call = c}
  IN  /\ Cardinality(grants(1)) <= 1 /\ Cardinality(grants(2)) <= 2
      /\ \A i \in grants(1) : factor(i) = "none"
      /\ \A i, j \in grants(2) : i < j =>
           factor(j) # "none" /\ (factor(j) \in Codes => factor(i) = factor(j))
      /\ \A i \in DOMAIN sent : factor(i) = "webauthn" =>
           Len(sent) = 3 /\ i = 3 /\ factor(1) = "none" /\ factor(2) = "none"

(* The CLI never sees TwoFactorRequired from the call it primed with a     *)
(* factor, so its own hard stop after the resubmit is never taken          *)
(* (provider.rs 373 and 395-399).                                          *)
NeverAskedAgain == exit # "again"

(* A factor is sent only after a challenge of this command listed it, and  *)
(* never another than the one --2fa-provider names (resolve_second_factor).*)
FactorWasAskedFor ==
  \A i \in DOMAIN sent : sent[i].answer.factor # "none" =>
    /\ flags.pref \in {"any", sent[i].answer.factor}
    /\ \E j \in 1..i : sent[i].answer.factor \in Listed(sent[j].offered)

(* A login ends, even when the key is wedged or its PIN is never typed     *)
(* (provider.rs 681-689).                                                  *)
LoginEnds == <>(pc = "ended")

-----------------------------------------------------------------------------
(* The inductive invariant behind the safety properties.                   *)

(* The selected factor is what --2fa-provider names. *)
Preferred(tag) == tag # "none" => flags.pref \in {"any", tag}

(* Where the command is, which call it makes and what it carries. *)
CallInv ==
  /\ Preferred(second)
  /\ pc \in {"start", "resolve"} => call = 1
  /\ pc \in {"decode", "waiting", "resubmit"} => call = 2
  /\ call = 1 => second = "none"
  /\ call = 2 => second \in Factors
  /\ pc \in {"start", "grant", "resolve", "decode", "waiting"} =>
       answer = Carried(second)
  /\ pc \in {"decode", "waiting"} => second = "webauthn"
  /\ pc = "resubmit" => answer.factor = second

(* The challenge in hand is the live one unless another login came between,*)
(* and the thread signs no other.                                          *)
ChallengeInv ==
  /\ pc \in {"decode", "waiting", "resubmit"} /\ ~ overtaken => held = issued
  /\ pc = "waiting" => thread.of = held
  /\ pc = "resubmit" /\ second = "webauthn" => answer.of = held
  /\ pc = "waiting" \/ (pc = "resubmit" /\ second = "webauthn") =>
       "webauthn" \in Listed(offered)

(* The grants sent so far: their number at each point, and what each may   *)
(* have carried.                                                           *)
SentInv ==
  /\ Len(sent) <= 3
  /\ call = 1 => Len(sent) <= 1
  /\ issued <= MaxOvertakes + Len(sent)
  /\ pc = "start" => Len(sent) = 0
  /\ pc = "grant" /\ call = 1 => Len(sent) = 0
  /\ pc = "grant" /\ call = 2 => Len(sent) = 1
  /\ pc = "resolve" => Len(sent) = 1
  /\ pc \in {"decode", "waiting", "resubmit"} => Len(sent) = 2
  /\ \A i \in DOMAIN sent :
       /\ sent[i].call = (IF i = 1 THEN 1 ELSE 2)
       /\ Preferred(sent[i].answer.factor)
       /\ i = 1 => sent[i].answer = NoAnswer
       /\ i = 2 => sent[i].answer = Carried(second)
       /\ i = 3 => sent[i].answer.factor = second

(* The factor of the second call was listed when it was chosen; a code is  *)
(* not looked up again.                                                    *)
OfferInv ==
  /\ pc = "grant" /\ call = 2 => second \in Listed(offered)
  /\ \A i \in DOMAIN sent :
       /\ i = 2 => second \in Listed(sent[i].offered)
       /\ i = 3 /\ second = "webauthn" => second \in Listed(sent[i].offered)

IInv ==
  /\ TypeOK
  /\ CallInv /\ ChallengeInv /\ SentInv /\ OfferInv
  /\ NeverAskedAgain
=============================================================================
