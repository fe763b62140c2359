------------------------ MODULE LoginCeremony_proofs ------------------------
(***************************************************************************)
(* Proofs about module LoginCeremony: every step of the ceremony is a step *)
(* that Login allows its thread, so every theorem about Login holds of the *)
(* login with the ceremony in full; the exit class is right and no key is  *)
(* hidden.                                                                 *)
(***************************************************************************)
EXTENDS LoginCeremony, Login_proofs

Detail ==
  /\ ch \in [uv : {"discouraged", "preferred"}, sound : BOOLEAN]
  /\ step \in Steps
  /\ plugged \subseteq {"hid", "pcsc"}
  /\ key \in {"hid", "pcsc", "none"}
  /\ fate \in Fates

(* map_ceremony_error and exit_class: refusals and wrong credentials, and  *)
(* they alone, are AUTH.                                                   *)
LEMMA Refusals ==
  ASSUME NEW error \in NoConsent \cup NoPin \cup NoCredential
  PROVE  ExitClass(error) = "auth"
  BY DEF ExitClass, NoConsent, NoPin, NoCredential, NoAnswerFromKey

LEMMA Faults ==
  ASSUME NEW error \in NoAnswerFromKey
                         \cup {"NoDevice", "PinProviderFailed", "Assembly"}
  PROVE  /\ ExitClass(error) # "auth"
         /\ error # "Assembly" => ExitClass(error) = "transport"
         /\ error = "Assembly" => ExitClass(error) = "server"
  BY DEF ExitClass, NoConsent, NoPin, NoCredential, NoAnswerFromKey

LEMMA CandidatesAreHolding ==
  ASSUME NEW bus \in Buses
  PROVE  /\ Candidates(bus) = <<>> => Holding(bus) = {}
         /\ Candidates(bus) # <<>> => Head(Candidates(bus)) \in Holding(bus)
<1>1. CASE bus.hid = "key" /\ bus.pcsc = "key"
  BY <1>1 DEF Candidates, Answering, Holding
<1>2. CASE bus.hid = "key" /\ bus.pcsc # "key"
  BY <1>2 DEF Candidates, Answering, Holding
<1>3. CASE bus.hid # "key" /\ bus.pcsc = "key"
  BY <1>3 DEF Candidates, Answering, Holding
<1>4. CASE bus.hid # "key" /\ bus.pcsc # "key"
  BY <1>4 DEF Candidates, Answering, Holding
<1> QED
  BY <1>1, <1>2, <1>3, <1>4

(* Where a step of the ceremony leaves the thread. *)
Moved(from, to) ==
  thread.at = from /\ thread' = [thread EXCEPT !.at = to]

LEMMA MovesAreLogins ==
  ASSUME OfCeremony, NEW from, NEW to, Moved(from, to),
         \/ from = "work" /\ to \in {"auth", "transport", "server", "touch"}
         \/ from = "touch" /\ to \in {"done", "auth", "transport"}
         \/ from = "touch" /\ to = "server" /\ build # "legacy"
         \/ /\ build # "legacy" /\ flags.tty
            /\ \/ from = "work" /\ to = "pin"
               \/ from = "pin" /\ to \in {"touch", "auth", "transport"}
  PROVE  CeremonyStep
<1>1. <<from, to>> \in CeremonyMoves
  BY DEF CeremonyMoves, LegacyMoves, FidohMoves
<1>2. <<from, to>>[1] = from /\ <<from, to>>[2] = to
  OBVIOUS
<1> QED
  BY <1>1, <1>2 DEF Moved, OfCeremony, CeremonyStep

(* The errors a step may end with, and what it may then say of the key.    *)
AuthErrors == NoConsent \cup NoPin \cup NoCredential
FaultErrors == NoAnswerFromKey \cup {"NoDevice", "PinProviderFailed"}

(* What a step leaves alone at every point but its own.                    *)
LEMMA Still ==
  ASSUME CeremonyInv, OfCeremony
  PROVE  /\ pc = "waiting" /\ pc' = "waiting" /\ build' = build /\ flags' = flags
         /\ thread \in [at : Working \cup Failed \cup {"none", "done"},
                        of : Challenges]
         /\ thread.at \in SeenAt(step)
         /\ step \in Steps /\ ch' = ch
  BY DEF CeremonyInv, CeremonyTypeOK, TypeOK, StepInv, OfCeremony, params

(* A step that goes on preserves the invariant. *)
LEMMA GoingOn ==
  ASSUME CeremonyInv, OfCeremony, NEW next \in Steps \ {"idle", "over"}, NEW at,
         Goes(next, at), at \in SeenAt(next), step # "over",
         plugged' \subseteq {"hid", "pcsc"}, key' \in {"hid", "pcsc", "none"},
         next = "pin" => flags.tty /\ build = "fidoh",
         next \in {"connect", "exchange", "pin", "touch"} => key' \in plugged'
  PROVE  Detail' /\ StepInv' /\ FateInv' /\ Moved(thread.at, at)
<1>1. /\ step' = next /\ fate' = fate /\ fate = "open"
      /\ thread' = [thread EXCEPT !.at = at] /\ thread'.at = at
  BY Still DEF Goes, CeremonyInv, FateInv
<1>2. Detail'
  BY <1>1, Still DEF Detail, CeremonyInv, CeremonyTypeOK
<1>3. StepInv'
  BY <1>1, Still DEF StepInv, SeenAt, Steps
<1>4. FateInv'
  BY <1>1, Still DEF FateInv, KeyIsNotHidden
<1> QED
  BY <1>1, <1>2, <1>3, <1>4 DEF Moved

(* A step that fails preserves the invariant, if it blames a key only for  *)
(* what a key said.                                                        *)
LEMMA Failing ==
  ASSUME CeremonyInv, OfCeremony, NEW how \in Fates \ {"open"}, NEW errors,
         Fails(how, errors), step # "over",
         plugged' \subseteq {"hid", "pcsc"}, key' \in {"hid", "pcsc", "none"},
         how = "absent" => plugged' = {},
         \/ how \in {"refused", "foreign"} /\ errors \subseteq AuthErrors
              /\ (build = "fidoh" => key' \in plugged')
         \/ how \notin {"refused", "foreign"} /\ errors \subseteq FaultErrors
         \/ how \notin {"refused", "foreign"} /\ errors \subseteq {"Assembly"}
  PROVE  /\ Detail' /\ StepInv' /\ FateInv'
         /\ \E to \in {"auth", "transport", "server"} :
              /\ Moved(thread.at, to)
              /\ to = "server" => "Assembly" \in errors /\ build # "legacy"
<1>1. PICK error \in errors :
        thread' = [thread EXCEPT !.at =
                     IF build = "legacy" THEN "auth" ELSE ExitClass(error)]
  BY DEF Fails
<1> DEFINE to == IF build = "legacy" THEN "auth" ELSE ExitClass(error)
<1>2. /\ how \in {"refused", "foreign"} => ExitClass(error) = "auth"
      /\ how \notin {"refused", "foreign"} => ExitClass(error) # "auth"
      /\ ExitClass(error) \in {"auth", "transport", "server"}
      /\ ExitClass(error) = "server" => error = "Assembly"
  <2>1. CASE error \in AuthErrors /\ how \in {"refused", "foreign"}
    BY <2>1, Refusals DEF AuthErrors
  <2>2. CASE /\ error \in FaultErrors \cup {"Assembly"}
             /\ how \notin {"refused", "foreign"}
    BY <2>2, Faults DEF FaultErrors
  <2> QED
    BY <1>1, <2>1, <2>2
<1>3. /\ to \in {"auth", "transport", "server"}
      /\ thread' = [thread EXCEPT !.at = to] /\ thread'.at = to
      /\ to = "server" => error = "Assembly" /\ build # "legacy"
      /\ step' = "over" /\ fate' = how
  BY <1>1, <1>2, Still DEF Fails
<1>4. Detail'
  BY <1>3, Still DEF Detail, CeremonyInv, CeremonyTypeOK, Steps
<1>5. StepInv'
  BY <1>3, Still DEF StepInv, SeenAt, Failed
<1>6. FateInv'
  BY <1>2, <1>3, Still DEF FateInv, KeyIsNotHidden
<1> QED
  BY <1>1, <1>3, <1>4, <1>5, <1>6 DEF Moved

(* A step inside "work" is one the login does not see. *)
LEMMA Unseen ==
  ASSUME CeremonyInv, OfCeremony, Moved("work", "work")
  PROVE  UNCHANGED vars
<1>1. thread' = thread
  BY Still DEF Moved
<1> QED
  BY <1>1 DEF OfCeremony, vars, params, server

(* Every step of the ceremony keeps the invariant, and is a CeremonyStep   *)
(* of Login or one it does not see.                                        *)
LEMMA CeremonySteps ==
  ASSUME CeremonyInv, Ceremony
  PROVE  Detail' /\ StepInv' /\ FateInv' /\ (CeremonyStep \/ UNCHANGED vars)
<1> DEFINE Kept == Detail' /\ StepInv' /\ FateInv'
           Allowed == CeremonyStep \/ UNCHANGED vars
           Ports == /\ plugged' \subseteq {"hid", "pcsc"}
                    /\ key' \in {"hid", "pcsc", "none"}
<1>0. /\ plugged \subseteq {"hid", "pcsc"} /\ key \in {"hid", "pcsc", "none"}
      /\ step \in {"connect", "exchange", "pin", "touch"} => key \in plugged
      /\ step = "pin" => flags.tty /\ build = "fidoh"
      /\ thread.at \in SeenAt(step)
      /\ ch.uv \in {"discouraged", "preferred"}
  BY DEF CeremonyInv, CeremonyTypeOK, TypeOK, StepInv
<1>1. ASSUME OfCeremony, step \in {"assemble", "discover", "connect"},
             NEW next \in {"discover", "connect", "exchange"},
             Goes(next, "work"), Ports,
             next \in {"connect", "exchange"} => key' \in plugged'
      PROVE  Kept /\ Allowed
  <2>1. thread.at = "work" /\ step # "over"
    BY <1>0, <1>1 DEF SeenAt
  <2>2. "work" \in SeenAt(next) /\ next \in Steps \ {"idle", "over"} /\ next # "pin"
    BY <1>1 DEF SeenAt, Steps
  <2>3. Kept /\ Moved("work", "work")
    BY <1>1, <2>1, <2>2, GoingOn
  <2> QED
    BY <1>1, <2>3, Unseen
<1>2. ASSUME OfCeremony, step = "exchange" \/ step = "pin",
             UNCHANGED <<plugged, key>>, Goes("touch", "touch")
      PROVE  Kept /\ Allowed
  <2>1. step # "over" /\ "touch" \in SeenAt("touch")
        /\ "touch" \in Steps \ {"idle", "over"} /\ key' \in plugged' /\ Ports
    BY <1>0, <1>2 DEF SeenAt, Steps
  <2>2. Kept /\ Moved(thread.at, "touch")
    BY <1>2, <2>1, GoingOn
  <2>3. thread.at = "work" \/ (thread.at = "pin" /\ flags.tty /\ build # "legacy")
    BY <1>0, <1>2 DEF SeenAt
  <2> QED
    BY <1>2, <2>2, <2>3, MovesAreLogins
<1>3. ASSUME OfCeremony, UNCHANGED <<plugged, key>> \/ step = "discover", Ports,
             step \in Steps \ {"idle", "over"},
             NEW how \in Fates \ {"open"}, NEW errors, Fails(how, errors),
             how = "absent" => plugged' = {},
             \/ /\ how \in {"refused", "foreign"} /\ errors \subseteq AuthErrors
                /\ step \in {"exchange", "pin", "touch"}
             \/ how \notin {"refused", "foreign"} /\ errors \subseteq FaultErrors
             \/ /\ how \notin {"refused", "foreign"} /\ errors \subseteq {"Assembly"}
                /\ step \in {"assemble", "touch"}
      PROVE  Kept /\ Allowed
  <2>1. how \in {"refused", "foreign"} => key' \in plugged'
    BY <1>0, <1>3
  <2>2. /\ Kept
        /\ \E to \in {"auth", "transport", "server"} :
             /\ Moved(thread.at, to)
             /\ to = "server" => "Assembly" \in errors /\ build # "legacy"
    BY <1>3, <2>1, Failing
  <2>3. PICK to \in {"auth", "transport", "server"} :
          /\ Moved(thread.at, to)
          /\ to = "server" => "Assembly" \in errors /\ build # "legacy"
    BY <2>2
  <2>4. "Assembly" \in errors => step \in {"assemble", "touch"}
    BY <1>3 DEF AuthErrors, FaultErrors, NoConsent, NoPin, NoCredential,
                NoAnswerFromKey
  <2>5. \/ thread.at = "work"
        \/ thread.at = "touch" /\ (to = "server" => build # "legacy")
        \/ thread.at = "pin" /\ to # "server" /\ flags.tty /\ build # "legacy"
    BY <1>0, <1>3, <2>3, <2>4 DEF SeenAt, Steps
  <2> QED
    BY <1>3, <2>2, <2>3, <2>5, MovesAreLogins
<1>4. ASSUME Assemble PROVE Kept /\ Allowed
  <2>1. /\ OfCeremony /\ step = "assemble" /\ UNCHANGED <<plugged, key>>
        /\ Ports
    BY <1>0, <1>4 DEF Assemble
  <2>2. CASE Goes("discover", "work")
    BY <1>1, <2>1, <2>2
  <2>3. CASE Fails("machine", {"Transport"})
    BY <1>3, <2>1, <2>3 DEF Fates, Steps, FaultErrors, NoAnswerFromKey
  <2>4. CASE Fails("garbled", {"Assembly"})
    BY <1>3, <2>1, <2>4 DEF Fates, Steps
  <2> QED
    BY <1>4, <2>2, <2>3, <2>4 DEF Assemble
<1>5. ASSUME Discover PROVE Kept /\ Allowed
  <2>1. OfCeremony /\ step = "discover" /\ step \in Steps \ {"idle", "over"}
    BY <1>5 DEF Discover, Steps
  <2>2. PICK bus \in Buses :
          /\ plugged' = Holding(bus)
          /\ IF Candidates(bus) = <<>>
               THEN Fails("absent", {"NoDevice"}) /\ UNCHANGED key
               ELSE Goes("connect", "work") /\ key' = Head(Candidates(bus))
    BY <1>5 DEF Discover
  <2>3. plugged' \subseteq {"hid", "pcsc"}
    BY <2>2 DEF Holding
  <2>4. CASE Candidates(bus) = <<>>
    <3>1. plugged' = {} /\ Ports /\ Fails("absent", {"NoDevice"})
      BY <1>0, <2>2, <2>4, CandidatesAreHolding
    <3> QED
      BY <1>3, <2>1, <3>1 DEF Fates, FaultErrors
  <2>5. CASE Candidates(bus) # <<>>
    <3>1. key' \in plugged' /\ Ports /\ Goes("connect", "work")
      BY <2>2, <2>3, <2>5, CandidatesAreHolding
    <3> QED
      BY <1>1, <2>1, <3>1
  <2> QED
    BY <2>4, <2>5
<1>6. ASSUME Connect PROVE Kept /\ Allowed
  <2>1. /\ OfCeremony /\ step = "connect" /\ UNCHANGED <<plugged, key>>
        /\ Ports /\ step \in Steps \ {"idle", "over"} /\ key' \in plugged'
    BY <1>0, <1>6 DEF Connect, Steps
  <2>2. CASE Goes("exchange", "work")
    BY <1>1, <2>1, <2>2
  <2>3. CASE Fails("dead", NoAnswerFromKey)
    BY <1>3, <2>1, <2>3 DEF Fates, FaultErrors
  <2> QED
    BY <1>6, <2>2, <2>3 DEF Connect
<1>7. ASSUME LegacyDiscover PROVE Kept /\ Allowed
  <2>1. OfCeremony /\ step = "discover" /\ step \in Steps \ {"idle", "over"}
    BY <1>7 DEF LegacyDiscover, Steps
  <2>2. PICK bus \in Buses :
          /\ plugged' = Holding(bus)
          /\ \/ \E port \in Holding(bus) : key' = port /\ Goes("exchange", "work")
             \/ Fails("machine", {"Transport", "NoDevice"}) /\ UNCHANGED key
    BY <1>7 DEF LegacyDiscover
  <2>3. plugged' \subseteq {"hid", "pcsc"}
    BY <2>2 DEF Holding
  <2>4. CASE \E port \in Holding(bus) : key' = port /\ Goes("exchange", "work")
    BY <1>1, <2>1, <2>2, <2>3, <2>4
  <2>5. CASE Fails("machine", {"Transport", "NoDevice"}) /\ UNCHANGED key
    BY <1>0, <1>3, <2>1, <2>3, <2>5 DEF Fates, FaultErrors, NoAnswerFromKey
  <2> QED
    BY <2>2, <2>4, <2>5
<1>8. ASSUME Probe PROVE Kept /\ Allowed
  <2>1. /\ OfCeremony /\ step = "exchange" /\ UNCHANGED <<plugged, key>>
        /\ Ports /\ step \in Steps \ {"idle", "over"} /\ key' \in plugged'
        /\ thread.at = "work"
    BY <1>0, <1>8 DEF Probe, Steps, SeenAt
  <2>2. CASE Goes("touch", "touch")
    BY <1>2, <2>1, <2>2
  <2>3. CASE Verifies /\ flags.tty /\ Goes("pin", "pin")
    <3>1. /\ "pin" \in SeenAt("pin") /\ "pin" \in Steps \ {"idle", "over"}
          /\ build = "fidoh"
      BY <2>3 DEF SeenAt, Steps, Verifies
    <3>2. Kept /\ Moved("work", "pin")
      BY <2>1, <2>3, <3>1, GoingOn
    <3> QED
      BY <2>1, <2>3, <3>1, <3>2, MovesAreLogins
  <2>4. CASE Fails("refused", {"PinRequired"})
    BY <1>3, <2>1, <2>4 DEF Fates, AuthErrors, NoPin
  <2>5. CASE Fails("refused", {"PinNotSet", "PinAuthBlocked", "UvBlocked"})
    BY <1>3, <2>1, <2>5 DEF Fates, AuthErrors, NoPin, NoConsent
  <2>6. CASE Fails("dead", NoAnswerFromKey)
    BY <1>3, <2>1, <2>6 DEF Fates, FaultErrors
  <2> QED
    BY <1>8, <2>2, <2>3, <2>4, <2>5, <2>6 DEF Probe
<1>9. ASSUME Pin PROVE Kept /\ Allowed
  <2>1. /\ OfCeremony /\ step = "pin" /\ UNCHANGED <<plugged, key>>
        /\ Ports /\ step \in Steps \ {"idle", "over"}
    BY <1>0, <1>9 DEF Pin, Steps
  <2>2. CASE Goes("touch", "touch")
    BY <1>2, <2>1, <2>2
  <2>3. CASE Fails("refused", NoPin)
    BY <1>3, <2>1, <2>3 DEF Fates, AuthErrors
  <2>4. CASE Fails("machine", {"PinProviderFailed"})
    BY <1>3, <2>1, <2>4 DEF Fates, FaultErrors
  <2>5. CASE Fails("dead", NoAnswerFromKey)
    BY <1>3, <2>1, <2>5 DEF Fates, FaultErrors
  <2> QED
    BY <1>9, <2>2, <2>3, <2>4, <2>5 DEF Pin
<1>10. ASSUME Touch PROVE Kept /\ Allowed
  <2>1. /\ OfCeremony /\ step = "touch" /\ UNCHANGED <<plugged, key>>
        /\ Ports /\ step \in Steps \ {"idle", "over"} /\ thread.at = "touch"
    BY <1>0, <1>10 DEF Touch, Steps, SeenAt
  <2>2. CASE /\ step' = "over" /\ fate' = "signed"
             /\ thread' = [thread EXCEPT !.at = "done"]
    <3>1. Moved("touch", "done") /\ thread'.at = "done"
      BY <2>1, <2>2, Still DEF Moved
    <3>2. Detail'
      BY <2>1, <2>2, Still DEF Detail, Steps, Fates, CeremonyInv, CeremonyTypeOK
    <3>3. StepInv'
      BY <2>1, <2>2, <3>1, Still DEF StepInv, SeenAt
    <3>4. FateInv'
      BY <2>1, <2>2, <3>1, Still DEF FateInv, KeyIsNotHidden, Failed
    <3> QED
      BY <2>1, <3>1, <3>2, <3>3, <3>4, MovesAreLogins
  <2>3. CASE Fails("refused", NoConsent)
    BY <1>3, <2>1, <2>3 DEF Fates, AuthErrors
  <2>4. CASE Fails("foreign", NoCredential)
    BY <1>3, <2>1, <2>4 DEF Fates, AuthErrors
  <2>5. CASE Fails("dead", NoAnswerFromKey)
    BY <1>3, <2>1, <2>5 DEF Fates, FaultErrors
  <2>6. CASE Fails("garbled", {"Assembly"})
    BY <1>3, <2>1, <2>6 DEF Fates, FaultErrors
  <2> QED
    BY <1>10, <2>2, <2>3, <2>4, <2>5, <2>6 DEF Touch
<1> QED
  BY <1>4, <1>5, <1>6, <1>7, <1>8, <1>9, <1>10 DEF Ceremony

-----------------------------------------------------------------------------
(* The points before and after the ceremony. *)
Before == {"start", "grant", "resolve", "decode"}
After == {"resubmit", "unwrap", "save"}

(* A step of the login around the ceremony keeps the invariant if it moves *)
(* to a point that suits the ceremony's.                                   *)
LEMMA Around ==
  ASSUME CeremonyInv, UNCHANGED ceremony, UNCHANGED <<build, flags, thread>>,
         pc' \in Before => step = "idle",
         pc' \in After => thread.at \in {"none", "done"},
         build = "fidoh" /\ pc' = "ended" /\ thread.at \in Failed =>
           (exit' = "auth" <=> thread.at = "auth")
  PROVE  Detail' /\ StepInv' /\ FateInv'
<1>1. Detail'
  BY DEF Detail, CeremonyInv, CeremonyTypeOK, ceremony
<1>2. StepInv'
  BY DEF StepInv, CeremonyInv, ceremony, Before, After
<1>3. FateInv'
  BY DEF FateInv, KeyIsNotHidden, CeremonyInv, ceremony
<1> QED
  BY <1>1, <1>2, <1>3

(* Outside the ceremony the thread is not there or is done. *)
LEMMA Quiet ==
  ASSUME CeremonyInv
  PROVE  /\ pc \in Before => step = "idle" /\ thread.at = "none"
         /\ pc \in Before \cup After => thread.at \notin Failed
  BY DEF CeremonyInv, CeremonyTypeOK, StepInv, SeenAt, Before, After, Failed

LEMMA CommandSteps ==
  ASSUME CeremonyInv, CeremonyCommand
  PROVE  Detail' /\ StepInv' /\ FateInv' /\ Command
<1> DEFINE Kept == Detail' /\ StepInv' /\ FateInv'
<1>1. CASE ChallengeFromBody
  <2>1. PICK entry \in Entries :
          \/ /\ Decodes(entry)
             /\ Spawn
             /\ ch' = [uv |-> UvPosture(entry.uv), sound |-> entry.sound]
             /\ step' = "assemble"
             /\ UNCHANGED <<plugged, key, fate>>
          \/ DecodeErr /\ UNCHANGED ceremony
    BY <1>1 DEF ChallengeFromBody
  <2>2. CASE /\ Decodes(entry)
             /\ Spawn
             /\ ch' = [uv |-> UvPosture(entry.uv), sound |-> entry.sound]
             /\ step' = "assemble"
             /\ UNCHANGED <<plugged, key, fate>>
    <3>1. ch' \in [uv : {"discouraged", "preferred"}, sound : BOOLEAN]
      BY <2>2 DEF Entries, Decodes, UvPosture
    <3>2. /\ pc = "decode" /\ pc' = "waiting" /\ thread'.at = "work"
          /\ step = "idle"
      BY <2>2, Quiet DEF Spawn, Before
    <3>3. Detail'
      BY <2>2, <3>1 DEF Detail, CeremonyInv, CeremonyTypeOK, Steps
    <3>4. StepInv'
      BY <2>2, <3>2 DEF StepInv, SeenAt
    <3>5. FateInv'
      BY <2>2, <3>2 DEF FateInv, KeyIsNotHidden, CeremonyInv
    <3> QED
      BY <2>2, <3>3, <3>4, <3>5 DEF Command
  <2>3. CASE DecodeErr /\ UNCHANGED ceremony
    <3>1. Kept
      BY <2>3, Around, Quiet DEF DecodeErr, End, params, Before, After
    <3> QED
      BY <2>3, <3>1 DEF Command
  <2> QED
    BY <2>1, <2>2, <2>3
<1>2. ASSUME UNCHANGED ceremony, Start \/ Resolve \/ ResolveErr
      PROVE  Kept
  BY <1>2, Around, Quiet DEF Start, Resolve, ResolveErr, End, params, Before, After
<1>3. ASSUME UNCHANGED ceremony, Granted \/ GrantErr \/ ChallengedAgain
      PROVE  Kept
  <2>1. /\ pc \in Before \cup After /\ UNCHANGED <<build, flags, thread>>
        /\ pc' \in {"unwrap", "ended"}
    BY <1>3 DEF Granted, GrantErr, ChallengedAgain, Send, Challenge, End, params,
                Before, After
  <2>2. thread.at \in {"none", "done"}
    BY <2>1, Quiet DEF CeremonyInv, StepInv, Before, After
  <2> QED
    BY <1>3, <2>1, <2>2, Around DEF Before, After, Failed
<1>4. ASSUME UNCHANGED ceremony, Challenged PROVE Kept
  <2>1. pc = "grant" /\ UNCHANGED <<build, flags, thread>>
    BY <1>4 DEF Challenged, params
  <2>2. pc' \in {"resubmit", "decode", "resolve", "ended"}
    BY <1>4 DEF Challenged, AnswerTwoFactor, End, CeremonyInv, CeremonyTypeOK,
                TypeOK, Codes, Factors
  <2> QED
    BY <1>4, <2>1, <2>2, Around, Quiet DEF Before, After
<1>5. ASSUME UNCHANGED ceremony, Received PROVE Kept
  BY <1>5, Around DEF Received, params, Before, After
<1>6. ASSUME UNCHANGED ceremony, ReceivedErr \/ BudgetExpired PROVE Kept
  <2>1. /\ UNCHANGED <<build, flags, thread>> /\ pc' = "ended"
        /\ build = "fidoh" /\ thread.at \in Failed =>
             (exit' = "auth" <=> thread.at = "auth")
    BY <1>6 DEF ReceivedErr, BudgetExpired, End, params, Failed, Working
  <2> QED
    BY <1>6, <2>1, Around DEF Before, After
<1>7. ASSUME UNCHANGED ceremony, Unwrap \/ Save PROVE Kept
  <2>1. /\ pc \in {"unwrap", "save"} /\ UNCHANGED <<build, flags, thread>>
        /\ pc' \in {"save", "ended"}
    BY <1>7 DEF Unwrap, Save, End, params
  <2>2. thread.at \in {"none", "done"}
    BY <2>1 DEF CeremonyInv, StepInv
  <2> QED
    BY <1>7, <2>1, <2>2, Around DEF Before, After, Failed
<1> QED
  BY <1>1, <1>2, <1>3, <1>4, <1>5, <1>6, <1>7 DEF CeremonyCommand, Command

(* Every step of CeremonySpec keeps the invariant and is a step of Login.  *)
LEMMA StepRefines ==
  ASSUME CeremonyInv, [CeremonyNext]_cvars
  PROVE  Detail' /\ StepInv' /\ FateInv' /\ [Next]_vars
<1>1. CASE CeremonyCommand
  BY <1>1, CommandSteps DEF Next
<1>2. CASE Ceremony
  BY <1>2, CeremonySteps DEF Next
<1>3. CASE (ChangeFactors \/ OtherLogin) /\ UNCHANGED ceremony
  <2>1. UNCHANGED <<build, flags, thread, pc, exit>>
    BY <1>3 DEF ChangeFactors, OtherLogin, params
  <2>2. Detail' /\ StepInv' /\ FateInv'
    BY <1>3, <2>1, Around DEF Before, After, CeremonyInv, StepInv, FateInv
  <2> QED
    BY <1>3, <2>2 DEF Next
<1>4. CASE UNCHANGED cvars
  <2>1. UNCHANGED <<build, flags, thread, pc, exit>> /\ UNCHANGED ceremony
        /\ UNCHANGED vars
    BY <1>4 DEF cvars, vars
  <2>2. Detail' /\ StepInv' /\ FateInv'
    BY <2>1, Around DEF Before, After, CeremonyInv, StepInv, FateInv
  <2> QED
    BY <2>1, <2>2
<1> QED
  BY <1>1, <1>2, <1>3, <1>4 DEF CeremonyNext

LEMMA CeremonyInitially == CeremonyInit => CeremonyInv /\ IInv
<1> SUFFICES ASSUME CeremonyInit PROVE CeremonyInv /\ IInv
  OBVIOUS
<1>1. IInv
  BY Initially DEF CeremonyInit
<1>2. CeremonyTypeOK
  BY <1>1 DEF IInv, CeremonyInit, CeremonyTypeOK, Steps, Fates
<1>3. StepInv /\ FateInv
  BY DEF CeremonyInit, Init, StepInv, SeenAt, FateInv, KeyIsNotHidden
<1> QED
  BY <1>1, <1>2, <1>3 DEF CeremonyInv

LEMMA CeremonyInductive ==
  CeremonyInv /\ IInv /\ [CeremonyNext]_cvars => CeremonyInv' /\ IInv'
<1> SUFFICES ASSUME CeremonyInv, IInv, [CeremonyNext]_cvars
             PROVE  CeremonyInv' /\ IInv'
  OBVIOUS
<1>1. Detail' /\ StepInv' /\ FateInv' /\ [Next]_vars
  BY StepRefines
<1>2. IInv'
  BY <1>1, Inductive
<1>3. CeremonyTypeOK'
  BY <1>1, <1>2 DEF IInv, Detail, CeremonyTypeOK
<1> QED
  BY <1>1, <1>2, <1>3 DEF CeremonyInv

-----------------------------------------------------------------------------
(* The invariant of the login with its ceremony holds for all constants.   *)
THEOREM CeremonyInvariance == CeremonySpec => [](CeremonyInv /\ IInv)
<1> QED
  BY CeremonyInitially, CeremonyInductive, PTL DEF CeremonySpec

(* Every reachable state of the login with its ceremony is well typed.     *)
THEOREM CeremonyTypeCorrect == CeremonySpec => []CeremonyTypeOK
<1>1. CeremonyInv => CeremonyTypeOK
  BY DEF CeremonyInv
<1> QED
  BY <1>1, CeremonyInvariance, PTL

(* The ceremony of webauthn.rs, step by step, does to the login only what  *)
(* Login lets a ceremony thread do: what is proved of Login holds here.    *)
THEOREM CeremonyImplementsLogin == CeremonySpec => Spec
<1>1. CeremonyInit => Init
  BY DEF CeremonyInit
<1>2. CeremonyInv /\ [CeremonyNext]_cvars => [Next]_vars
  BY StepRefines
<1> QED
  BY <1>1, <1>2, CeremonyInvariance, PTL DEF CeremonySpec, Spec

(* A missing or dead key is never reported as wrong credentials, and a     *)
(* refusal always is (exit_class).                                         *)
THEOREM ExitClassIsRight == CeremonySpec => []FailureClassIsRight
<1>1. CeremonyInv => FailureClassIsRight
  <2> SUFFICES ASSUME CeremonyInv, pc = "ended", build = "fidoh",
                      thread.at \in Failed
               PROVE  /\ exit = "auth" <=> fate \in {"refused", "foreign"}
                      /\ exit = "auth" => key \in plugged
    BY DEF FailureClassIsRight
  <2>1. step = "over"
    BY DEF CeremonyInv, CeremonyTypeOK, Steps, StepInv, SeenAt, Failed
  <2> QED
    BY <2>1 DEF CeremonyInv, FateInv
<1> QED
  BY <1>1, CeremonyInvariance, PTL

(* No transport's failure hides a key of the other (discover).             *)
THEOREM NoKeyIsHidden == CeremonySpec => []KeyIsNotHidden
<1>1. CeremonyInv => KeyIsNotHidden
  BY DEF CeremonyInv, FateInv
<1> QED
  BY <1>1, CeremonyInvariance, PTL
=============================================================================
