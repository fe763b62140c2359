--------------------------- MODULE LoginCeremony ---------------------------
(***************************************************************************)
(* Login with the ceremony thread in full (crates/vaultwarden/src/         *)
(* webauthn.rs): the provider-7 entry is decoded, the request assembled,   *)
(* both transports enumerated, the first key selected and connected, its   *)
(* PIN asked for, the touch awaited, and whatever ended it mapped to an    *)
(* exit class.  fidoh_core and the key are external: what they may answer  *)
(* is a choice.                                                            *)
(*                                                                         *)
(* The variables of Login are updated as Login allows: CeremonySpec        *)
(* implements Spec.                                                        *)
(***************************************************************************)
EXTENDS Login

VARIABLES
  ch,       \* the decoded WebauthnChallenge: its posture, and is it sound
  step,     \* how far the ceremony is
  plugged,  \* the transports on which enumeration met a key
  key,      \* the transport of the connected key, or "none"
  fate      \* history: what the key and its user did with the ceremony

ceremony == <<ch, step, plugged, key, fate>>
cvars == <<vars, ceremony>>

Steps == {"idle", "assemble", "discover", "connect", "exchange", "pin",
          "touch", "over"}
Fates == {"open", "signed", "refused", "foreign", "absent", "dead", "garbled",
          "machine"}

CeremonyTypeOK ==
  /\ TypeOK
  /\ ch \in [uv : {"discouraged", "preferred"}, sound : BOOLEAN]
  /\ step \in Steps
  /\ plugged \subseteq {"hid", "pcsc"}
  /\ key \in {"hid", "pcsc", "none"}
  /\ fate \in Fates

CeremonyInit ==
  /\ Init
  /\ ch = [uv |-> "discouraged", sound |-> TRUE]
  /\ step = "idle"
  /\ plugged = {}
  /\ key = "none"
  /\ fate = "open"

-----------------------------------------------------------------------------
(* challenge_from_body: an entry that is there, with every field and one   *)
(* credential at least, and a verification posture of a known spelling.    *)
Entries ==
  [whole : BOOLEAN, sound : BOOLEAN,
   uv : {"absent", "discouraged", "preferred", "required", "unknown",
         "notString"}]

(* mutant: the spelling is passed on as it came. *)
UvPostureEcho(spelling) ==
  IF spelling = "absent" THEN "discouraged" ELSE spelling

UvPosture(spelling) ==
  CASE spelling \in {"absent", "discouraged"}    -> "discouraged"
    [] spelling \in {"preferred", "required"}    -> "preferred"
    [] spelling \in {"unknown", "notString"}     -> "malformed"

Decodes(entry) == entry.whole /\ UvPosture(entry.uv) # "malformed"

ChallengeFromBody ==
  \E entry \in Entries :
    \/ /\ Decodes(entry)
       /\ Spawn
       /\ ch' = [uv |-> UvPosture(entry.uv), sound |-> entry.sound]
       /\ step' = "assemble"
       /\ UNCHANGED <<plugged, key, fate>>
    \/ /\ ~ Decodes(entry)
       /\ DecodeErr
       /\ UNCHANGED ceremony

-----------------------------------------------------------------------------
(* The errors of a ceremony, by what they are about.                       *)
NoConsent == {"UserActionTimeout", "UpRejected", "UserCancelled",
              "OperationDenied", "PuatRequired", "UvBlocked"}
NoPin == {"PinRequired", "PinNotSet", "PinTooLong", "IncorrectPin",
          "PinBlocked", "PinAuthBlocked"}
NoCredential == {"NoCredentials", "InvalidCredential", "CredentialMismatch"}
NoAnswerFromKey == {"Transport", "Timeout", "CtapOther"}

(* mutant: a missing key is a refusal, as on the legacy path. *)
ExitClassLegacy(error) ==
  CASE error \in NoConsent \cup NoPin \cup NoCredential \cup {"NoDevice"} -> "auth"
    [] error = "Assembly" -> "server"
    [] OTHER -> "transport"

(* map_ceremony_error and exit_class. *)
ExitClass(error) ==
  CASE error \in NoConsent \cup NoPin \cup NoCredential -> "auth"
    [] error \in NoAnswerFromKey \cup {"NoDevice", "PinProviderFailed"} -> "transport"
    [] error = "Assembly" -> "server"

(* The ceremony ends with one of errors; the legacy path keeps no classes. *)
Fails(how, errors) ==
  /\ fate' = how
  /\ step' = "over"
  /\ \E error \in errors :
       thread' = [thread EXCEPT !.at =
                    IF build = "legacy" THEN "auth" ELSE ExitClass(error)]

(* It goes on: the next step, and where the login sees the thread. *)
Goes(next, at) ==
  /\ step' = next
  /\ thread' = [thread EXCEPT !.at = at]
  /\ UNCHANGED fate

OfCeremony ==
  /\ pc = "waiting"
  /\ UNCHANGED <<params, server, pc, call, second, offered, held, answer, exit,
                 sent, overtaken, ch>>

(* The origin of the RP ID, the request and its clientDataJSON; then the   *)
(* device runtime.                                                         *)
Assemble ==
  /\ OfCeremony
  /\ step = "assemble"
  /\ IF ch.sound
       THEN Goes("discover", "work") \/ Fails("machine", {"Transport"})
       ELSE Fails("garbled", {"Assembly"})
  /\ UNCHANGED <<plugged, key>>

-----------------------------------------------------------------------------
(* What enumeration answers: "key", none, an error; PC/SC may be unlinked   *)
(* or its daemon down.                                                     *)
Buses == [hid : {"key", "none", "error"},
          pcsc : {"key", "none", "error", "down", "unlinked"}]

Holding(bus) == {port \in {"hid", "pcsc"} : bus[port] = "key"}

Answering(bus, port) == IF bus[port] = "key" THEN <<port>> ELSE <<>>

(* mutant: an error of the first transport ends discovery. *)
CandidatesShortCircuit(bus) ==
  IF bus.hid = "error" THEN <<>>
  ELSE Answering(bus, "hid") \o Answering(bus, "pcsc")

(* discover: HID, then PC/SC; an error is a diagnostic. *)
Candidates(bus) == Answering(bus, "hid") \o Answering(bus, "pcsc")

(* Discovery and, in the same turn, SelectionPolicy::First. *)
Discover ==
  /\ OfCeremony
  /\ step = "discover"
  /\ \E bus \in Buses :
       /\ plugged' = Holding(bus)
       /\ IF Candidates(bus) = <<>>
            THEN Fails("absent", {"NoDevice"}) /\ UNCHANGED key
            ELSE Goes("connect", "work") /\ key' = Head(Candidates(bus))

Connect ==
  /\ OfCeremony
  /\ step = "connect"
  /\ Goes("exchange", "work") \/ Fails("dead", NoAnswerFromKey)
  /\ UNCHANGED <<plugged, key>>

(* perform_assertion: the transports, then the first token that speaks     *)
(* CTAP2.                                                                  *)
LegacyDiscover ==
  /\ OfCeremony
  /\ step = "discover"
  /\ \E bus \in Buses :
       /\ plugged' = Holding(bus)
       /\ \/ \E port \in Holding(bus) : key' = port /\ Goes("exchange", "work")
          \/ Fails("machine", {"Transport", "NoDevice"}) /\ UNCHANGED key

-----------------------------------------------------------------------------
(* run_ceremony: the probe.  Only a posture that asks for verification     *)
(* makes the key demand its PIN, and only a terminal can ask for one.      *)
Verifies == build = "fidoh" /\ ch.uv = "preferred"

(* mutant: the PIN is asked for without looking for a terminal. *)
ProbeAsksAnyway ==
  /\ OfCeremony
  /\ step = "exchange"
  /\ \/ Goes("touch", "touch")
     \/ Verifies /\ Goes("pin", "pin")
     \/ Verifies /\ Fails("refused", {"PinNotSet", "PinAuthBlocked", "UvBlocked"})
     \/ Fails("dead", NoAnswerFromKey)
  /\ UNCHANGED <<plugged, key>>

Probe ==
  /\ OfCeremony
  /\ step = "exchange"
  /\ \/ Goes("touch", "touch")
     \/ Verifies /\ flags.tty /\ Goes("pin", "pin")
     \/ Verifies /\ ~ flags.tty /\ Fails("refused", {"PinRequired"})
     \/ Verifies /\ Fails("refused", {"PinNotSet", "PinAuthBlocked", "UvBlocked"})
     \/ Fails("dead", NoAnswerFromKey)
  /\ UNCHANGED <<plugged, key>>

(* The PIN source is invoked once; its failure is not the user's.          *)
Pin ==
  /\ OfCeremony
  /\ step = "pin"
  /\ \/ Goes("touch", "touch")
     \/ Fails("refused", NoPin)
     \/ Fails("machine", {"PinProviderFailed"})
     \/ Fails("dead", NoAnswerFromKey)
  /\ UNCHANGED <<plugged, key>>

(* The touch, then the token is put together (fido2_response_json). *)
Touch ==
  /\ OfCeremony
  /\ step = "touch"
  /\ \/ /\ step' = "over" /\ fate' = "signed"
        /\ thread' = [thread EXCEPT !.at = "done"]
     \/ Fails("refused", NoConsent)
     \/ Fails("foreign", NoCredential)
     \/ Fails("dead", NoAnswerFromKey)
     \/ Fails("garbled", {"Assembly"})
  /\ UNCHANGED <<plugged, key>>

Ceremony ==
  \/ Assemble
  \/ build = "fidoh" /\ (Discover \/ Connect)
  \/ build = "legacy" /\ LegacyDiscover
  \/ Probe \/ Pin \/ Touch

-----------------------------------------------------------------------------
(* The login around it. *)
CeremonyCommand ==
  \/ ChallengeFromBody
  \/ /\ \/ Start \/ Granted \/ GrantErr \/ Challenged \/ ChallengedAgain
        \/ Resolve \/ ResolveErr
        \/ Received \/ ReceivedErr \/ BudgetExpired
        \/ Unwrap \/ Save
     /\ UNCHANGED ceremony

CeremonyNext ==
  \/ CeremonyCommand
  \/ Ceremony
  \/ (ChangeFactors \/ OtherLogin) /\ UNCHANGED ceremony

CeremonySpec == CeremonyInit /\ [][CeremonyNext]_cvars

(* As in Login: of the thread only the legacy one is known to move.        *)
CeremonyFairSpec ==
  /\ CeremonySpec
  /\ WF_cvars(CeremonyCommand)
  /\ WF_cvars(build = "legacy" /\ Ceremony)

-----------------------------------------------------------------------------
(* The exit code tells credentials from devices: a fidoh ceremony that     *)
(* failed ends the login with the AUTH class exactly when a key answered   *)
(* and its user or its credentials said no; a missing, dead or misread key *)
(* is a fault (webauthn.rs 310-316 and exit_class, two-factor-login/       *)
(* spec.md "fidoh ceremony error mapping").                                *)
FailureClassIsRight ==
  (pc = "ended" /\ build = "fidoh" /\ thread.at \in Failed) =>
    /\ exit = "auth" <=> fate \in {"refused", "foreign"}
    /\ exit = "auth" => key \in plugged

(* A transport that fails hides no key of the other: "no security key      *)
(* found" is reported only if none of them found one (discover: collect,   *)
(* never short-circuit).                                                   *)
KeyIsNotHidden == fate = "absent" => plugged = {}
-----------------------------------------------------------------------------
(* The inductive invariant behind the two, and behind the refinement.      *)

(* Where the login sees the thread when the ceremony is at a step. *)
SeenAt(at) ==
  CASE at = "idle" -> {"none"}
    [] at \in {"assemble", "discover", "connect", "exchange"} -> {"work"}
    [] at = "pin" -> {"pin"}
    [] at = "touch" -> {"touch"}
    [] at = "over" -> Failed \cup {"done"}

(* One ceremony in a command, and it is over when the login goes on. *)
StepInv ==
  /\ thread.at \in SeenAt(step)
  /\ pc \in {"start", "grant", "resolve", "decode"} => step = "idle"
  /\ pc \in {"resubmit", "unwrap", "save"} => thread.at \in {"none", "done"}
  /\ step = "pin" => flags.tty /\ build = "fidoh"
  /\ step \in {"connect", "exchange", "pin", "touch"} => key \in plugged

(* What ended the ceremony is what the thread and then the exit code say. *)
FateInv ==
  /\ KeyIsNotHidden
  /\ step # "over" => fate = "open"
  /\ build = "fidoh" /\ step = "over" =>
       /\ thread.at = "auth" <=> fate \in {"refused", "foreign"}
       /\ thread.at = "auth" => key \in plugged
  /\ build = "fidoh" /\ pc = "ended" /\ thread.at \in Failed =>
       (exit = "auth" <=> thread.at = "auth")

CeremonyInv == CeremonyTypeOK /\ StepInv /\ FateInv
=============================================================================
