---------------------------- MODULE Login_proofs ----------------------------
(***************************************************************************)
(* Proofs about module Login, for every set of builds, every set of offers *)
(* and every number of other logins: the invariant IInv is inductive, and  *)
(* the request budget and the provenance of what is sent follow from it.   *)
(***************************************************************************)
EXTENDS Login, FiniteSetTheorems, TLAPS

USE DEF Codes, Factors

(* Init establishes the invariant. *)
LEMMA Initially == Init => IInv
<1> SUFFICES ASSUME Init PROVE IInv
  OBVIOUS
<1>1. TypeOK
  <2>1. 0 \in Challenges
    BY OvertakesAssumption DEF Challenges
  <2>2. answer \in Answers /\ thread \in
          [at : Working \cup Failed \cup {"none", "done"}, of : Challenges]
    BY <2>1 DEF Init, NoAnswer, Answers, Working, Failed
  <2>3. sent \in Seq([call : 1..2, answer : Answers,
                      offered : Offers \cup {<<>>}])
    BY DEF Init
  <2>4. pc \in Points /\ call \in 1..2 /\ second \in Factors \cup {"none"}
    BY DEF Init, Points
  <2> QED
    BY <2>1, <2>2, <2>3, <2>4 DEF Init, TypeOK
<1>2. CallInv
  BY DEF Init, CallInv, Preferred, Carried
<1>3. ChallengeInv
  BY DEF Init, ChallengeInv
<1>4. SentInv
  BY OvertakesAssumption DEF Init, SentInv
<1>5. OfferInv
  BY DEF Init, OfferInv
<1>6. NeverAskedAgain
  BY DEF Init, NeverAskedAgain
<1> QED
  BY <1>1, <1>2, <1>3, <1>4, <1>5, <1>6 DEF IInv

(* What every grant request adds to the history. *)
LEMMA SendIsLogged ==
  ASSUME IInv, Send
  PROVE  /\ sent' \in Seq([call : 1..2, answer : Answers,
                           offered : Offers \cup {<<>>}])
         /\ Len(sent') = Len(sent) + 1
         /\ Len(sent') <= 3
         /\ call = 1 => Len(sent') <= 1
         /\ \A i \in DOMAIN sent' :
              /\ sent'[i].call = (IF i = 1 THEN 1 ELSE 2)
              /\ Preferred(sent'[i].answer.factor)
              /\ i = 1 => sent'[i].answer = NoAnswer
              /\ i = 2 => sent'[i].answer = Carried(second)
              /\ i = 3 => sent'[i].answer.factor = second
              /\ i = 2 => second \in Listed(sent'[i].offered)
              /\ i = 3 /\ second = "webauthn" =>
                   second \in Listed(sent'[i].offered)
<1> DEFINE new == [call |-> call, answer |-> answer, offered |-> offered]
<1>1. /\ sent \in Seq([call : 1..2, answer : Answers,
                       offered : Offers \cup {<<>>}])
      /\ new \in [call : 1..2, answer : Answers, offered : Offers \cup {<<>>}]
      /\ sent' = Append(sent, new)
  BY DEF IInv, TypeOK, Send
<1>2. /\ Len(sent) \in Nat
      /\ pc = "grant" /\ call = 1 => Len(sent) = 0
      /\ pc = "grant" /\ call = 2 => Len(sent) = 1
      /\ pc = "resubmit" => Len(sent) = 2
  BY <1>1 DEF IInv, SentInv
<1>3. pc \in {"grant", "resubmit"} /\ call \in {1, 2}
  BY DEF Send, IInv, TypeOK
<1>4. /\ Len(sent') = Len(sent) + 1 /\ Len(sent') <= 3
      /\ call = 1 => Len(sent') <= 1
  <2>1. Len(sent') = Len(sent) + 1
    BY <1>1
  <2>2. call = 1 => pc = "grant"
    BY <1>3 DEF IInv, CallInv
  <2>3. Len(sent) \in {0, 1, 2} /\ (call = 1 => Len(sent) = 0)
    BY <1>2, <1>3, <2>2
  <2>4. \A n \in {0, 1, 2} : n + 1 <= 3 /\ (n = 0 => n + 1 <= 1)
    OBVIOUS
  <2> QED
    BY <2>1, <2>3, <2>4, Zenon
<1>5. ASSUME NEW i \in DOMAIN sent'
      PROVE  IF i = Len(sent') THEN sent'[i] = new
             ELSE i \in DOMAIN sent /\ sent'[i] = sent[i]
  BY <1>1, <1>2, <1>4
<1>6. /\ new.call = (IF Len(sent') = 1 THEN 1 ELSE 2)
      /\ Preferred(new.answer.factor)
      /\ Len(sent') = 1 => new.answer = NoAnswer
      /\ Len(sent') = 2 => new.answer = Carried(second)
      /\ Len(sent') = 3 => new.answer.factor = second
      /\ Len(sent') = 2 => second \in Listed(new.offered)
      /\ Len(sent') = 3 /\ second = "webauthn" => second \in Listed(new.offered)
  <2>1. CASE pc = "grant" /\ call = 1
    <3>1. second = "none" /\ answer = Carried(second) /\ Len(sent') = 1
      BY <1>2, <1>4, <2>1 DEF IInv, CallInv
    <3> QED
      BY <2>1, <3>1, <1>4 DEF Carried, NoAnswer, Preferred
  <2>2. CASE pc = "grant" /\ call = 2
    <3>0. Len(sent') = 2
      <4>1. Len(sent) = 1
        BY <1>2, <2>2
      <4> QED
        BY <1>4, <4>1
    <3>1. /\ second \in Factors /\ Preferred(second)
          /\ answer = Carried(second)
      BY <2>2 DEF IInv, CallInv
    <3>2. second \in Listed(offered)
      BY <2>2 DEF IInv, OfferInv
    <3> QED
      BY <2>2, <3>0, <3>1, <3>2 DEF Carried, NoAnswer, Code, Preferred
  <2>3. CASE pc = "resubmit"
    <3>0. Len(sent') = 3
      BY <1>2, <1>4, <2>3
    <3>1. call = 2 /\ Preferred(second) /\ answer.factor = second
      BY <2>3 DEF IInv, CallInv
    <3>2. second = "webauthn" => second \in Listed(offered)
      BY <2>3 DEF IInv, ChallengeInv
    <3> QED
      BY <3>0, <3>1, <3>2
  <2> QED
    BY <1>3, <2>1, <2>2, <2>3
<1>7. \A i \in DOMAIN sent :
        /\ sent[i].call = (IF i = 1 THEN 1 ELSE 2)
        /\ Preferred(sent[i].answer.factor)
        /\ i = 1 => sent[i].answer = NoAnswer
        /\ i = 2 => sent[i].answer = Carried(second)
        /\ i = 3 => sent[i].answer.factor = second
        /\ i = 2 => second \in Listed(sent[i].offered)
        /\ i = 3 /\ second = "webauthn" => second \in Listed(sent[i].offered)
  BY DEF IInv, SentInv, OfferInv
<1>8. sent' \in Seq([call : 1..2, answer : Answers,
                     offered : Offers \cup {<<>>}])
  BY <1>1
<1> HIDE DEF new
<1> QED
  BY <1>4, <1>5, <1>6, <1>7, <1>8

-----------------------------------------------------------------------------
(* The four shapes a step has: the command ends, the command moves on, a   *)
(* grant request is answered, or the world outside changes.                *)

(* A step that ends the command without a request keeps the invariant.     *)
LEMMA Ends ==
  ASSUME IInv, NEW how \in {"ok", "usage", "auth", "fault", "state"}, End(how),
         UNCHANGED <<params, server, call, second, offered, held, answer,
                     thread, sent, overtaken>>
  PROVE  IInv'
<1> USE DEF End, params, server
<1>1. TypeOK'
  BY DEF IInv, TypeOK, Points
<1>2. CallInv'
  BY DEF IInv, CallInv, Preferred, Carried
<1>3. ChallengeInv'
  BY DEF IInv, ChallengeInv
<1>4. SentInv'
  BY DEF IInv, SentInv, Preferred, Carried, NoAnswer, Code
<1>5. OfferInv'
  BY DEF IInv, OfferInv, Listed
<1>6. NeverAskedAgain'
  BY DEF NeverAskedAgain
<1> QED
  BY <1>1, <1>2, <1>3, <1>4, <1>5, <1>6 DEF IInv

(* A step of the command or its thread that sends nothing and leaves the   *)
(* challenge alone.                                                        *)
LEMMA Moves ==
  ASSUME IInv, pc' \in Points, exit' = exit, TypeOK',
         UNCHANGED <<params, server, offered, held, sent, overtaken>>,
         CallInv', ChallengeInv',
         pc' \notin {"start", "resolve"},
         call' = 1 => Len(sent) <= 1,
         pc' = "grant" /\ call' = 1 => Len(sent) = 0,
         pc' = "grant" /\ call' = 2 => Len(sent) = 1,
         pc' \in {"decode", "waiting", "resubmit"} => Len(sent) = 2,
         second' = second \/ Len(sent) <= 1,
         pc' = "grant" /\ call' = 2 => second' \in Listed(offered)
  PROVE  IInv'
<1> USE DEF params, server
<1>0. Len(sent) \in Nat /\ DOMAIN sent = 1..Len(sent)
  BY DEF IInv, TypeOK
<1>4. SentInv'
  <2>1. ASSUME NEW i \in DOMAIN sent
        PROVE  /\ sent[i].call = (IF i = 1 THEN 1 ELSE 2)
               /\ Preferred(sent[i].answer.factor)'
               /\ i = 1 => sent[i].answer = NoAnswer
               /\ i = 2 => sent[i].answer = Carried(second')
               /\ i = 3 => sent[i].answer.factor = second'
    <3>1. /\ sent[i].call = (IF i = 1 THEN 1 ELSE 2)
          /\ i = 1 => sent[i].answer = NoAnswer
          /\ i = 2 => sent[i].answer = Carried(second)
          /\ i = 3 => sent[i].answer.factor = second
      BY DEF IInv, SentInv
    <3>2. Preferred(sent[i].answer.factor)'
      BY DEF IInv, SentInv, Preferred
    <3>3. i > 1 => second' = second
      BY <1>0
    <3> QED
      BY <1>0, <3>1, <3>2, <3>3
  <2>2. sent' = sent /\ Len(sent') = Len(sent)
    OBVIOUS
  <2>3. Len(sent) <= 3 /\ issued' <= MaxOvertakes + Len(sent)
    BY DEF IInv, SentInv
  <2> QED
    BY <2>1, <2>2, <2>3 DEF SentInv, NoAnswer, Carried, Code
<1>5. OfferInv'
  BY <1>0 DEF IInv, OfferInv, Listed
<1>6. NeverAskedAgain'
  BY DEF IInv, NeverAskedAgain
<1> QED
  BY <1>4, <1>5, <1>6 DEF IInv

(* A grant request and its answer: the history stays as SentInv and        *)
(* OfferInv say, wherever the answer leads.                                *)
LEMMA AfterSend ==
  ASSUME IInv, Send, pc' \notin {"start", "grant"},
         pc' = "resolve" => call = 1,
         pc' \in {"decode", "waiting", "resubmit"} => pc = "grant" /\ call = 2,
         UNCHANGED <<params, call, second>>,
         issued' \in {issued, issued + 1}
  PROVE  SentInv' /\ OfferInv' /\ issued' \in Challenges
<1> USE DEF params
<1>1. /\ Len(sent') = Len(sent) + 1 /\ Len(sent') <= 3
      /\ call = 1 => Len(sent') <= 1
      /\ \A i \in DOMAIN sent' :
           /\ sent'[i].call = (IF i = 1 THEN 1 ELSE 2)
           /\ Preferred(sent'[i].answer.factor)
           /\ i = 1 => sent'[i].answer = NoAnswer
           /\ i = 2 => sent'[i].answer = Carried(second)
           /\ i = 3 => sent'[i].answer.factor = second
           /\ i = 2 => second \in Listed(sent'[i].offered)
           /\ i = 3 /\ second = "webauthn" =>
                second \in Listed(sent'[i].offered)
  BY SendIsLogged
<1>2. Len(sent) \in Nat /\ issued \in Nat /\ MaxOvertakes \in Nat
  BY OvertakesAssumption DEF IInv, TypeOK, Challenges
<1>3. issued <= MaxOvertakes + Len(sent)
  BY DEF IInv, SentInv
<1>4. issued' <= MaxOvertakes + Len(sent') /\ issued' \in Challenges
  <2>1. ASSUME NEW n \in Nat, NEW m \in Nat, NEW i \in Nat,
               i <= m + n, n + 1 <= 3
        PROVE  /\ i <= m + (n + 1) /\ i + 1 <= m + (n + 1)
               /\ i \in 0..(m + 3) /\ i + 1 \in 0..(m + 3)
    BY <2>1
  <2> QED
    BY <1>1, <1>2, <1>3, <2>1 DEF Challenges
<1>5. ASSUME pc' = "resolve" PROVE Len(sent') = 1
  BY <1>1, <1>2, <1>5
<1>6. ASSUME pc' \in {"decode", "waiting", "resubmit"} PROVE Len(sent') = 2
  <2>1. Len(sent) = 1
    BY <1>6 DEF IInv, SentInv
  <2> QED
    BY <1>1, <2>1
<1>7. \A f : Preferred(f)' <=> Preferred(f)
  BY DEF Preferred
<1>8. SentInv'
  BY <1>1, <1>4, <1>5, <1>6 DEF SentInv, Preferred, NoAnswer, Carried, Code
<1>9. OfferInv'
  BY <1>1 DEF OfferInv, Listed
<1> QED
  BY <1>4, <1>8, <1>9

-----------------------------------------------------------------------------
(* Every step keeps the invariant: one step of the proof per action.       *)
LEMMA Inductive == IInv /\ [Next]_vars => IInv'
<1> SUFFICES ASSUME IInv, [Next]_vars PROVE IInv'
  OBVIOUS
<1> USE DEF params, server
<1>0. TypeOK /\ CallInv /\ ChallengeInv /\ SentInv /\ OfferInv /\ NeverAskedAgain
  BY DEF IInv
<1>1. CASE Start
  <2>1. CASE End("usage")
    BY <1>1, <2>1, Ends DEF Start
  <2>2. CASE pc' = "grant" /\ UNCHANGED exit
    <3>1. TypeOK'
      BY <1>0, <1>1, <2>2 DEF Start, TypeOK, Points
    <3>2. CallInv' /\ ChallengeInv' /\ call = 1 /\ Len(sent) = 0
      BY <1>0, <1>1, <2>2
      DEF Start, CallInv, ChallengeInv, SentInv, Preferred, Carried
    <3> QED
      BY <1>1, <2>2, <3>1, <3>2, Moves DEF Start, Points
  <2> QED
    BY <1>1, <2>1, <2>2 DEF Start
<1>2. CASE Granted
  <2>1. SentInv' /\ OfferInv'
    BY <1>2, AfterSend DEF Granted
  <2>s. sent' \in Seq([call : 1..2, answer : Answers,
                       offered : Offers \cup {<<>>}])
    BY <1>2, SendIsLogged DEF Granted
  <2>2. TypeOK'
    BY <1>0, <1>2, <2>s DEF Granted, TypeOK, Points
  <2>3. CallInv' /\ ChallengeInv' /\ NeverAskedAgain'
    BY <1>0, <1>2
    DEF Granted, CallInv, ChallengeInv, NeverAskedAgain, Preferred
  <2> QED
    BY <2>1, <2>2, <2>3 DEF IInv
<1>3. CASE GrantErr
  <2>1. SentInv' /\ OfferInv'
    BY <1>3, AfterSend DEF GrantErr, End
  <2>s. sent' \in Seq([call : 1..2, answer : Answers,
                       offered : Offers \cup {<<>>}])
    BY <1>3, SendIsLogged DEF GrantErr
  <2>2. TypeOK'
    BY <1>0, <1>3, <2>s DEF GrantErr, TypeOK, Points, End
  <2>3. CallInv' /\ ChallengeInv' /\ NeverAskedAgain'
    BY <1>0, <1>3
    DEF GrantErr, CallInv, ChallengeInv, NeverAskedAgain, Preferred, End
  <2> QED
    BY <2>1, <2>2, <2>3 DEF IInv
<1>4. CASE Challenged
  <2>1. pc = "grant" /\ second \in Factors \cup {"none"} /\ call \in {1, 2}
    BY <1>0, <1>4 DEF Challenged, TypeOK
  <2>2. call = 1 <=> second = "none"
    BY <1>0, <2>1 DEF CallInv
  <2>3. /\ second = "none" => pc' = "resolve"
        /\ second \in Codes => pc' = "resubmit"
        /\ second = "webauthn" => pc' = "decode"
        /\ exit' = exit
    BY <1>4, <2>1, <2>2 DEF Challenged, AnswerTwoFactor
  <2>4. /\ Send /\ UNCHANGED <<params, demands, call, second, answer, thread>>
        /\ issued' = issued + 1 /\ held' = issued' /\ offered' = demands
        /\ overtaken' = FALSE
    BY <1>4 DEF Challenged, Challenge
  <2>5. pc' \in {"resolve", "resubmit", "decode"}
    BY <2>1, <2>3
  <2>6. SentInv' /\ OfferInv' /\ issued' \in Challenges
    BY <2>1, <2>2, <2>3, <2>4, <2>5, AfterSend
  <2>s. sent' \in Seq([call : 1..2, answer : Answers,
                       offered : Offers \cup {<<>>}])
    BY <2>4, SendIsLogged
  <2>7. TypeOK'
    <3>1. issued' \in Challenges /\ held' \in Challenges
      BY <2>4, <2>6
    <3>2. demands' \in Offers /\ offered' \in Offers \cup {<<>>}
      BY <1>0, <2>4 DEF TypeOK
    <3>3. pc' \in Points
      BY <2>5 DEF Points
    <3>4. /\ exit' = exit
          /\ UNCHANGED <<params, call, second, answer, thread>>
          /\ overtaken' \in BOOLEAN
      BY <2>3, <2>4
    <3> QED
      BY <1>0, <2>s, <3>1, <3>2, <3>3, <3>4 DEF TypeOK
  <2>8. CallInv'
    BY <1>0, <2>1, <2>2, <2>3, <2>4, <2>5 DEF CallInv, Preferred, Carried, Code
  <2>9. ChallengeInv' /\ NeverAskedAgain'
    BY <1>0, <2>1, <2>2, <2>3, <2>4, <2>5 DEF ChallengeInv, NeverAskedAgain
  <2> QED
    BY <2>6, <2>7, <2>8, <2>9 DEF IInv
<1>5. CASE ChallengedAgain
  <2>1. /\ Send /\ UNCHANGED <<params, demands, call, second, answer, thread>>
        /\ issued' = issued + 1 /\ held' = issued' /\ offered' = demands
        /\ overtaken' = FALSE /\ pc' = "ended" /\ exit' = "auth"
    BY <1>5 DEF ChallengedAgain, Challenge, End
  <2>2. SentInv' /\ OfferInv' /\ issued' \in Challenges
    BY <2>1, AfterSend
  <2>s. sent' \in Seq([call : 1..2, answer : Answers,
                       offered : Offers \cup {<<>>}])
    BY <2>1, SendIsLogged
  <2>3. TypeOK'
    BY <1>0, <2>1, <2>2, <2>s DEF TypeOK, Points
  <2>4. CallInv' /\ ChallengeInv' /\ NeverAskedAgain'
    BY <1>0, <2>1 DEF CallInv, ChallengeInv, NeverAskedAgain, Preferred
  <2> QED
    BY <2>2, <2>3, <2>4 DEF IInv
<1>6. CASE Resolve
  <2>1. PICK tag \in Factors : /\ Picks(tag)
                              /\ second' = tag /\ answer' = Carried(tag)
    BY <1>6 DEF Resolve
  <2>2. tag \in Listed(offered) /\ flags.pref \in {"any", tag}
    BY <2>1 DEF Picks, Listed
  <2>3. Carried(tag) \in Answers
    BY OvertakesAssumption
    DEF Carried, Code, NoAnswer, Answers, Challenges
  <2>4. TypeOK'
    BY <1>0, <1>6, <2>1, <2>3 DEF Resolve, TypeOK, Points
  <2>5. CallInv' /\ ChallengeInv'
    BY <1>0, <1>6, <2>1, <2>2
    DEF Resolve, CallInv, ChallengeInv, Preferred
  <2>6. Len(sent) = 1
    BY <1>0, <1>6 DEF Resolve, SentInv
  <2> QED
    BY <1>6, <2>1, <2>2, <2>4, <2>5, <2>6, Moves DEF Resolve, Points
<1>7. CASE ResolveErr
  BY <1>7, Ends DEF ResolveErr
<1>8. CASE DecodeErr
  BY <1>8, Ends DEF DecodeErr
<1>9. CASE Spawn
  <2>1. TypeOK'
    BY <1>0, <1>9 DEF Spawn, TypeOK, Points, Working
  <2>2. CallInv' /\ ChallengeInv' /\ Len(sent) = 2 /\ call = 2
    BY <1>0, <1>9
    DEF Spawn, CallInv, ChallengeInv, SentInv, Preferred, Carried
  <2> QED
    BY <1>9, <2>1, <2>2, Moves DEF Spawn, Points
<1>10. CASE Received
  <2>1. /\ call = 2 /\ second = "webauthn" /\ Len(sent) = 2
        /\ thread.of = held /\ "webauthn" \in Listed(offered)
        /\ ~ overtaken => held = issued
    BY <1>0, <1>10 DEF Received, CallInv, ChallengeInv, SentInv
  <2>2. /\ answer' = Assertion(held) /\ Assertion(held) \in Answers
        /\ answer'.factor = "webauthn" /\ answer'.of = held
    BY <1>0, <1>10, <2>1 DEF Received, Assertion, Answers, TypeOK
  <2>3. TypeOK'
    BY <1>0, <1>10, <2>2 DEF Received, TypeOK, Points
  <2>4. CallInv' /\ ChallengeInv'
    BY <1>0, <1>10, <2>1, <2>2
    DEF Received, CallInv, ChallengeInv, Preferred, Listed
  <2> QED
    BY <1>10, <2>1, <2>3, <2>4, Moves DEF Received, Points
<1>11. CASE ReceivedErr
  <2>1. \E how \in {"auth", "fault"} : End(how)
    BY <1>11 DEF ReceivedErr
  <2> QED
    BY <1>11, <2>1, Ends DEF ReceivedErr
<1>12. CASE BudgetExpired
  BY <1>12, Ends DEF BudgetExpired
<1>13. CASE Unwrap
  <2>1. CASE End("fault")
    BY <1>13, <2>1, Ends DEF Unwrap
  <2>2. CASE pc' = "save" /\ UNCHANGED exit
    <3>1. TypeOK'
      BY <1>0, <1>13, <2>2 DEF Unwrap, TypeOK, Points
    <3>2. CallInv' /\ ChallengeInv' /\ (call = 1 => Len(sent) <= 1)
      BY <1>0, <1>13, <2>2
      DEF Unwrap, CallInv, ChallengeInv, SentInv, Preferred
    <3> QED
      BY <1>13, <2>2, <3>1, <3>2, Moves DEF Unwrap, Points
  <2> QED
    BY <1>13, <2>1, <2>2 DEF Unwrap
<1>14. CASE Save
  BY <1>14, Ends DEF Save
<1>15. CASE CeremonyStep
  <2>1. PICK move \in CeremonyMoves :
          thread.at = move[1] /\ thread' = [thread EXCEPT !.at = move[2]]
    BY <1>15 DEF CeremonyStep
  <2>2. move[2] \in Working \cup Failed \cup {"none", "done"}
    BY <2>1 DEF CeremonyMoves, LegacyMoves, FidohMoves, Working, Failed
  <2>3. /\ thread' \in [at : Working \cup Failed \cup {"none", "done"},
                       of : Challenges]
        /\ thread'.of = thread.of
    BY <1>0, <2>1, <2>2 DEF TypeOK
  <2>4. TypeOK'
    BY <1>0, <1>15, <2>3 DEF CeremonyStep, TypeOK
  <2>5. CallInv' /\ ChallengeInv' /\ call = 2 /\ Len(sent) = 2
    BY <1>0, <1>15, <2>3
    DEF CeremonyStep, CallInv, ChallengeInv, SentInv, Preferred, Carried, Listed
  <2> QED
    BY <1>15, <2>4, <2>5, Moves DEF CeremonyStep, Points
<1>16. CASE ChangeFactors
  <2>1. TypeOK'
    BY <1>0, <1>16 DEF ChangeFactors, TypeOK
  <2>2. CallInv' /\ ChallengeInv' /\ NeverAskedAgain'
    BY <1>0, <1>16
    DEF ChangeFactors, CallInv, ChallengeInv, NeverAskedAgain, Preferred,
        Carried, Listed
  <2>3. SentInv' /\ OfferInv'
    BY <1>0, <1>16
    DEF ChangeFactors, SentInv, OfferInv, Preferred, Carried, NoAnswer, Code,
        Listed
  <2> QED
    BY <2>1, <2>2, <2>3 DEF IInv
<1>17. CASE OtherLogin
  <2>1. issued \in Nat /\ Len(sent) \in Nat /\ issued + 1 <= MaxOvertakes
    BY <1>0, <1>17, OvertakesAssumption DEF OtherLogin, TypeOK, Challenges
  <2>2. /\ issued' \in Challenges /\ issued' <= MaxOvertakes + Len(sent)
    BY <1>17, <2>1, OvertakesAssumption DEF OtherLogin, Challenges
  <2>3. TypeOK'
    BY <1>0, <1>17, <2>2 DEF OtherLogin, TypeOK
  <2>4. CallInv' /\ ChallengeInv' /\ NeverAskedAgain'
    BY <1>0, <1>17
    DEF OtherLogin, CallInv, ChallengeInv, NeverAskedAgain, Preferred,
        Carried, Listed
  <2>5. SentInv' /\ OfferInv'
    BY <1>0, <1>17, <2>2
    DEF OtherLogin, SentInv, OfferInv, Preferred, Carried, NoAnswer, Code,
        Listed
  <2> QED
    BY <2>3, <2>4, <2>5 DEF IInv
<1>18. CASE UNCHANGED vars
  <2> USE <1>18 DEF vars
  <2>1. TypeOK' /\ CallInv' /\ ChallengeInv' /\ NeverAskedAgain'
    BY <1>0
    DEF TypeOK, CallInv, ChallengeInv, NeverAskedAgain, Preferred, Carried,
        Listed
  <2>2. SentInv' /\ OfferInv'
    BY <1>0
    DEF SentInv, OfferInv, Preferred, Carried, NoAnswer, Code, Listed
  <2> QED
    BY <2>1, <2>2 DEF IInv
<1> QED
  BY <1>1, <1>2, <1>3, <1>4, <1>5, <1>6, <1>7, <1>8, <1>9, <1>10, <1>11,
     <1>12, <1>13, <1>14, <1>15, <1>16, <1>17, <1>18 DEF Next, Command

-----------------------------------------------------------------------------
(* The invariant holds of every login. *)
THEOREM Invariance == Spec => []IInv
BY Initially, Inductive, PTL DEF Spec

(* Every variable of the login keeps to its domain, whatever the builds,   *)
(* the offers and the number of other logins.                              *)
THEOREM TypeCorrect == Spec => []TypeOK
<1>1. IInv => TypeOK
  BY DEF IInv
<1> QED
  BY <1>1, Invariance, PTL

(* The assertion that goes out signs the challenge of its own call, and is *)
(* the one the server verifies unless another login was challenged since.  *)
THEOREM AssertionAnswersItsChallenge == Spec => []AssertionIsLive
<1>1. IInv => AssertionIsLive
  BY DEF IInv, AssertionIsLive, CallInv, ChallengeInv
<1> QED
  BY <1>1, Invariance, PTL

(* The primed call never comes back to the CLI as TwoFactorRequired: its   *)
(* hard stop after the resubmit is dead code.                              *)
THEOREM OneResubmit == Spec => []NeverAskedAgain
<1>1. IInv => NeverAskedAgain
  BY DEF IInv
<1> QED
  BY <1>1, Invariance, PTL

(* What is sent as a second factor was listed by a challenge of this       *)
(* command, and is the one --2fa-provider names when it names one.         *)
THEOREM SentWasAskedFor == Spec => []FactorWasAskedFor
<1>1. ASSUME IInv, NEW i \in DOMAIN sent, sent[i].answer.factor # "none"
      PROVE  /\ flags.pref \in {"any", sent[i].answer.factor}
             /\ \E j \in 1..i : sent[i].answer.factor \in Listed(sent[j].offered)
  <2>1. /\ Preferred(sent[i].answer.factor)
        /\ i = 1 => sent[i].answer = NoAnswer
        /\ i = 2 => sent[i].answer = Carried(second)
        /\ i = 3 => sent[i].answer.factor = second
    BY <1>1 DEF IInv, SentInv
  <2>2. i \in {1, 2, 3} /\ (i = 3 => 2 \in DOMAIN sent) /\ i \in 1..i
    BY <1>1 DEF IInv, TypeOK, SentInv
  <2>3. CASE i = 2
    <3>1. second \in Listed(sent[i].offered)
      BY <1>1, <2>3 DEF IInv, OfferInv
    <3>2. sent[i].answer.factor = second
      BY <1>1, <2>1, <2>3 DEF Carried, Code, NoAnswer
    <3> QED
      BY <1>1, <2>1, <2>2, <3>1, <3>2 DEF Preferred
  <2>4. CASE i = 3
    <3>1. second \in Factors
      BY <1>1, <2>1, <2>4 DEF IInv, TypeOK
    <3>2. CASE second = "webauthn"
      <4>1. second \in Listed(sent[i].offered)
        BY <1>1, <2>4, <3>2 DEF IInv, OfferInv
      <4> QED
        BY <1>1, <2>1, <2>2, <2>4, <4>1 DEF Preferred
    <3>3. CASE second \in Codes
      <4>1. second \in Listed(sent[2].offered) /\ 2 \in 1..i
        BY <1>1, <2>2, <2>4 DEF IInv, OfferInv
      <4> QED
        BY <1>1, <2>1, <2>4, <4>1 DEF Preferred
    <3> QED
      BY <3>1, <3>2, <3>3
  <2> QED
    BY <1>1, <2>1, <2>2, <2>3, <2>4 DEF NoAnswer
<1>2. IInv => FactorWasAskedFor
  BY <1>1 DEF FactorWasAskedFor
<1> QED
  BY <1>2, Invariance, PTL

(* The request budget: one bare grant in the first call, two in the second,*)
(* the last with an answer (the code again, or an assertion, after which   *)
(* there is nothing).                                                      *)
THEOREM BudgetHolds == Spec => []WireBudget
<1> DEFINE grants(c) == {i \in DOMAIN sent : sent[i].call = c}
<1>1. ASSUME IInv
      PROVE  /\ DOMAIN sent \subseteq {1, 2, 3}
             /\ \A i \in DOMAIN sent : sent[i].call = (IF i = 1 THEN 1 ELSE 2)
  BY <1>1 DEF IInv, TypeOK, SentInv
<1>2. ASSUME IInv
      PROVE  Cardinality(grants(1)) <= 1 /\ Cardinality(grants(2)) <= 2
  <2>1. grants(1) \subseteq {1} /\ grants(2) \subseteq {2, 3}
    BY <1>1, <1>2
  <2>2. /\ IsFiniteSet({1}) /\ Cardinality({1}) = 1
        /\ IsFiniteSet({2, 3}) /\ Cardinality({2, 3}) <= 2
    <3>1. IsFiniteSet({1}) /\ Cardinality({1}) = 1
      BY FS_Singleton
    <3>2. IsFiniteSet({2}) /\ Cardinality({2}) = 1
      BY FS_Singleton
    <3>3. {2, 3} = {2} \cup {3}
      OBVIOUS
    <3>4. /\ IsFiniteSet({2} \cup {3})
          /\ Cardinality({2} \cup {3}) = IF 3 \in {2} THEN 1 ELSE 1 + 1
      BY <3>2, FS_AddElement
    <3> QED
      BY <3>1, <3>3, <3>4
  <2>3. /\ IsFiniteSet(grants(1)) /\ Cardinality(grants(1)) <= Cardinality({1})
        /\ IsFiniteSet(grants(2)) /\ Cardinality(grants(2)) <= Cardinality({2, 3})
    BY <2>1, <2>2, FS_Subset
  <2>4. Cardinality(grants(1)) \in Nat /\ Cardinality(grants(2)) \in Nat
    BY <2>3, FS_CardinalityType
  <2>5. Cardinality({2, 3}) \in Nat
    BY <2>2, FS_CardinalityType
  <2> QED
    BY <2>2, <2>3, <2>4, <2>5
<1>3. ASSUME IInv, NEW i \in grants(2), NEW j \in grants(2), i < j
      PROVE  sent[j].answer.factor # "none"
  <2>1. j = 3 /\ 3 \in DOMAIN sent
    BY <1>1, <1>3
  <2>2. sent[3].answer.factor = second /\ call \in {1, 2}
    BY <1>3, <2>1 DEF IInv, TypeOK, SentInv
  <2>3. Len(sent) >= 3
    BY <1>3, <2>1 DEF IInv, TypeOK
  <2>4. call # 1
    BY <1>3, <2>3 DEF IInv, TypeOK, SentInv
  <2> QED
    BY <1>3, <2>1, <2>2, <2>4 DEF IInv, CallInv
<1>4. ASSUME IInv, NEW i \in DOMAIN sent, sent[i].answer.factor = "webauthn"
      PROVE  /\ Len(sent) = 3 /\ i = 3
             /\ sent[1].answer.factor = "none" /\ sent[2].answer.factor = "none"
  <2>1. i \in {1, 2, 3}
    BY <1>1, <1>4
  <2>2. i # 1
    BY <1>4 DEF IInv, SentInv, NoAnswer
  <2>3. i # 2
    BY <1>4 DEF IInv, SentInv, Carried, Code, NoAnswer
  <2>4. i = 3 /\ Len(sent) \in Nat /\ Len(sent) <= 3 /\ DOMAIN sent = 1..Len(sent)
    BY <1>4, <2>1, <2>2, <2>3 DEF IInv, TypeOK, SentInv
  <2>5. Len(sent) = 3 /\ 1 \in DOMAIN sent /\ 2 \in DOMAIN sent
    BY <2>4
  <2>6. second = "webauthn"
    BY <1>4, <2>4 DEF IInv, SentInv
  <2> QED
    BY <1>4, <2>4, <2>5, <2>6 DEF IInv, SentInv, Carried, NoAnswer
<1>6. ASSUME IInv, NEW i \in grants(1) PROVE sent[i].answer.factor = "none"
  <2>1. i = 1 /\ i \in DOMAIN sent
    BY <1>1, <1>6
  <2> QED
    BY <1>6, <2>1 DEF IInv, SentInv, NoAnswer
<1>7. ASSUME IInv, NEW i \in grants(2), NEW j \in grants(2), i < j,
             sent[j].answer.factor \in Codes
      PROVE  sent[i].answer.factor = sent[j].answer.factor
  <2>1. i = 2 /\ j = 3 /\ i \in DOMAIN sent /\ j \in DOMAIN sent
    BY <1>1, <1>7
  <2>2. sent[3].answer.factor = second /\ sent[2].answer = Carried(second)
    BY <1>7, <2>1 DEF IInv, SentInv
  <2> QED
    BY <1>7, <2>1, <2>2 DEF Carried, Code
<1>5. IInv => WireBudget
  BY <1>2, <1>3, <1>4, <1>6, <1>7 DEF WireBudget
<1> QED
  BY <1>5, Invariance, PTL
=============================================================================
