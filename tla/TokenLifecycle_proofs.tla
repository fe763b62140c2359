------------------------ MODULE TokenLifecycle_proofs ------------------------
(***************************************************************************)
(* What TLC checks of TokenLifecycle for two processes and two grants,     *)
(* proved for every set of processes, every policy of the server and every *)
(* number of grants.                                                       *)
(***************************************************************************)
EXTENDS TokenLifecycle, TLAPS

-----------------------------------------------------------------------------
(* The variables keep their types: the shape of sessions and counters that  *)
(* ops.rs, provider.rs and the token endpoint maintain.                     *)
LEMMA SuccessorType ==
  ASSUME granted \in Nat, NEW s \in Session
  PROVE  Successor(s) \in Session
BY DEF Successor, Session, Tokens

(* A fresh login is well typed.                                            *)
LEMMA TypeInit == Init => TypeOK
<1> SUFFICES ASSUME Init PROVE TypeOK
  OBVIOUS
<1>1. PICK rt \in {0, NoToken} : keyring = [at |-> 0, rt |-> rt]
  BY DEF Init
<1>2. keyring \in Session
  BY <1>1 DEF Session, Tokens
<1>3. valid \in SUBSET Nat
  BY <1>1 DEF Init
<1> QED
  BY <1>2, <1>3 DEF Init, TypeOK, ControlPoints, Commands

(* Every step of a command, the server and the network keeps the types.    *)
LEMMA TypeStep == TypeOK /\ [Next]_vars => TypeOK'
<1> SUFFICES ASSUME TypeOK, [Next]_vars PROVE TypeOK'
  OBVIOUS
<1> USE DEF TypeOK
<1>g. ASSUME NEW s \in Session, s.rt \in Nat, ServerGrants(s)
      PROVE  granted' \in Nat /\ valid' \in SUBSET Nat
  <2>1. granted' \in Nat /\ Successor(s).rt \in Nat
    BY <1>g DEF ServerGrants, Successor
  <2> QED
    BY <1>g, <2>1 DEF ServerGrants
<1>o. ASSUME NEW p \in Procs, NEW s \in Session, RefreshOk(p, s)
      PROVE  /\ granted' \in Nat /\ valid' \in SUBSET Nat
             /\ expired' = expired /\ revoked' = revoked
             /\ asked' \in [Procs -> Nat]
             /\ cur' \in [Procs -> Session]
  <2>1. Successor(s) \in Session
    BY SuccessorType
  <2>2. granted' \in Nat /\ valid' \in SUBSET Nat
    BY <1>o, <1>g DEF RefreshOk, CanGrant
  <2> QED
    BY <1>o, <2>1, <2>2 DEF RefreshOk, ServerGrants
<1>e. ASSUME NEW p \in Procs, NEW s \in Session, RefreshErr(p, s)
      PROVE  /\ granted' \in Nat /\ valid' \in SUBSET Nat
             /\ expired' = expired /\ revoked' = revoked
             /\ asked' \in [Procs -> Nat]
  <2>1. CASE UNCHANGED server /\ UNCHANGED asked
    BY <2>1 DEF server
  <2>2. CASE /\ asked' = [asked EXCEPT ![p] = @ + 1]
             /\ UNCHANGED server
    BY <2>2 DEF server
  <2>3. CASE CanGrant(s) /\ ServerGrants(s)
                /\ asked' = [asked EXCEPT ![p] = @ + 1]
    <3>1. granted' \in Nat /\ valid' \in SUBSET Nat
      BY <2>3, <1>g DEF CanGrant
    <3> QED
      BY <2>3, <3>1 DEF ServerGrants
  <2> QED
    BY <1>e, <2>1, <2>2, <2>3 DEF RefreshErr
<1>r. \A c \in Commands : Requests[c] \in Nat
  BY DEF Requests, Commands
<1>1. ASSUME NEW p \in Procs, NEW c \in Commands, Start(p, c) PROVE TypeOK'
  BY <1>1 DEF Start, Goto, ControlPoints, server
<1>2. ASSUME NEW p \in Procs, StillFresh(p) PROVE TypeOK'
  BY <1>2, <1>r DEF StillFresh, BeginAttempt, Goto, ControlPoints, server, histories
<1>3. ASSUME NEW p \in Procs, ProactiveOk(p) PROVE TypeOK'
  BY <1>3, <1>r, <1>o DEF ProactiveOk, BeginAttempt, Goto, ControlPoints
<1>4. ASSUME NEW p \in Procs, ProactiveErr(p) PROVE TypeOK'
  <2>1. /\ granted' \in Nat /\ valid' \in SUBSET Nat
        /\ expired' = expired /\ revoked' = revoked
        /\ asked' \in [Procs -> Nat]
    BY <1>4, <1>e DEF ProactiveErr
  <2>2. dropped' \in SUBSET Nat
    BY <1>4, <2>1 DEF ProactiveErr, LostInReply
  <2> QED
    BY <1>4, <1>r, <2>1, <2>2 DEF ProactiveErr, BeginAttempt, Goto, ControlPoints
<1>u. \A p \in Procs : Unsealed(p) \in SUBSET Nat
  BY DEF Unsealed, Session, Tokens
<1>5. ASSUME NEW p \in Procs, RequestOk(p) PROVE TypeOK'
  <2>1. left[p] > 0 /\ left' \in [Procs -> Nat]
    BY <1>5 DEF RequestOk
  <2> QED
    BY <1>5, <2>1 DEF RequestOk, Goto, ControlPoints, server, histories
<1>6. ASSUME NEW p \in Procs, FirstUnauthorized(p) PROVE TypeOK'
  BY <1>6 DEF FirstUnauthorized, Goto, ControlPoints, server, histories
<1>7. ASSUME NEW p \in Procs,
             \/ SecondUnauthorized(p) \/ RequestErr(p)
             \/ FieldMissing(p) \/ ResealErr(p)
      PROVE  TypeOK'
  BY <1>7, <1>u DEF SecondUnauthorized, RequestErr, FieldMissing, ResealErr,
                    Finish, Goto, ControlPoints, server
<1>8. ASSUME NEW p \in Procs, RenewOk(p) PROVE TypeOK'
  BY <1>8, <1>r, <1>u, <1>o
     DEF RenewOk, Presented, BeginAttempt, Goto, ControlPoints
<1>9. ASSUME NEW p \in Procs, RenewErr(p) PROVE TypeOK'
  <2>1. /\ granted' \in Nat /\ valid' \in SUBSET Nat
        /\ expired' = expired /\ revoked' = revoked
        /\ asked' \in [Procs -> Nat]
    BY <1>9, <1>e DEF RenewErr, Presented
  <2>2. dropped' \in SUBSET Nat
    BY <1>9, <1>u, <2>1 DEF RenewErr, LostInReply
  <2> QED
    BY <1>9, <2>1, <2>2 DEF RenewErr, Goto, ControlPoints
<1>10. ASSUME NEW p \in Procs, Served(p) PROVE TypeOK'
  BY <1>10 DEF Served, Goto, ControlPoints, server, histories
<1>11. ASSUME NEW p \in Procs, Reseal(p) PROVE TypeOK'
  BY <1>11 DEF Reseal, Goto, ControlPoints, server, histories
<1>12. ASSUME NEW p \in Procs, Crash(p) PROVE TypeOK'
  BY <1>12, <1>u DEF Crash, Goto, ControlPoints, server
<1>13. ASSUME Expire PROVE TypeOK'
  BY <1>13 DEF Expire, histories
<1>14. ASSUME Revoke PROVE TypeOK'
  BY <1>14 DEF Revoke, histories
<1>15. ASSUME UNCHANGED vars PROVE TypeOK'
  BY <1>15 DEF vars
<1> QED
  BY <1>1, <1>2, <1>3, <1>4, <1>5, <1>6, <1>7, <1>8, <1>9, <1>10, <1>11, <1>12,
     <1>13, <1>14, <1>15 DEF Next, Step

(* The keyring, the tokens and every command's copy of them keep their     *)
(* types, for any number of processes under any refresh policy.            *)
THEOREM TypeCorrect == Spec => []TypeOK
BY TypeInit, TypeStep, PTL DEF Spec

-----------------------------------------------------------------------------
(* The rest of the inductive invariant.                                    *)

(* A fresh login satisfies the inductive invariant.                        *)
LEMMA InvInit == Init => IInv
<1> SUFFICES ASSUME Init PROVE IInv
  OBVIOUS
<1>1. PICK rt \in {0, NoToken} : keyring = [at |-> 0, rt |-> rt]
  BY DEF Init
<1>2. keyring.at = 0 /\ keyring.rt = rt
  BY <1>1
<1>3. \A p \in Procs : ~Running(p) /\ ~Holds(p)
  BY DEF Init, Running, Holds
<1>4. WorkDone
  BY DEF Init, WorkDone
<1>5. RotateInv
  BY <1>2, <1>3, NoTokenAssumption
     DEF Init, RotateInv, NewestOnly, SealedOlder, LoadedOlder, HeldNewest,
         OneHolder, OwnRt
<1>6. ReusableInv
  BY <1>2, <1>3 DEF Init, ReusableInv, Good
<1>7. KeyringAlive
  BY <1>2 DEF Init, KeyringAlive
<1> QED
  BY <1>4, <1>5, <1>6, <1>7, TypeInit DEF IInv

(* How much refresh work a command has done depends on its own steps only. *)
LEMMA WorkStep == TypeOK /\ WorkDone /\ [Next]_vars => WorkDone'
<1> SUFFICES ASSUME TypeOK, WorkDone, [Next]_vars PROVE WorkDone'
  OBVIOUS
<1> USE DEF TypeOK, WorkDone
<1>1. ASSUME NEW p \in Procs, NEW c \in Commands, Start(p, c) PROVE WorkDone'
  BY <1>1 DEF Start, Goto
<1>2. ASSUME NEW p \in Procs, StillFresh(p) PROVE WorkDone'
  BY <1>2 DEF StillFresh, BeginAttempt, Goto, histories
<1>3. ASSUME NEW p \in Procs, ProactiveOk(p) PROVE WorkDone'
  BY <1>3 DEF ProactiveOk, RefreshOk, BeginAttempt, Goto
<1>e. ASSUME NEW p \in Procs, NEW s, RefreshErr(p, s)
      PROVE  asked' = asked \/ asked' = [asked EXCEPT ![p] = @ + 1]
  BY <1>e DEF RefreshErr
<1>4. ASSUME NEW p \in Procs, ProactiveErr(p) PROVE WorkDone'
  <2>1. asked' = asked \/ asked' = [asked EXCEPT ![p] = @ + 1]
    BY <1>4, <1>e DEF ProactiveErr
  <2> QED
    BY <1>4, <2>1 DEF ProactiveErr, BeginAttempt, Goto
<1>5. ASSUME NEW p \in Procs, RequestOk(p) PROVE WorkDone'
  BY <1>5 DEF RequestOk, Goto, histories
<1>6. ASSUME NEW p \in Procs, FirstUnauthorized(p) PROVE WorkDone'
  BY <1>6 DEF FirstUnauthorized, Goto, histories
<1>7. ASSUME NEW p \in Procs,
             \/ SecondUnauthorized(p) \/ RequestErr(p)
             \/ FieldMissing(p) \/ ResealErr(p)
      PROVE  WorkDone'
  BY <1>7 DEF SecondUnauthorized, RequestErr, FieldMissing, ResealErr, Finish, Goto
<1>8. ASSUME NEW p \in Procs, RenewOk(p) PROVE WorkDone'
  BY <1>8 DEF RenewOk, RefreshOk, BeginAttempt, Goto
<1>9. ASSUME NEW p \in Procs, RenewErr(p) PROVE WorkDone'
  <2>1. asked' = asked \/ asked' = [asked EXCEPT ![p] = @ + 1]
    BY <1>9, <1>e DEF RenewErr
  <2> QED
    BY <1>9, <2>1 DEF RenewErr, Goto
<1>10. ASSUME NEW p \in Procs, Served(p) PROVE WorkDone'
  BY <1>10 DEF Served, Goto, histories
<1>11. ASSUME NEW p \in Procs, Reseal(p) PROVE WorkDone'
  BY <1>11 DEF Reseal, Goto, histories
<1>12. ASSUME NEW p \in Procs, Crash(p) PROVE WorkDone'
  BY <1>12 DEF Crash, Goto
<1>13. ASSUME Expire \/ Revoke \/ UNCHANGED vars PROVE WorkDone'
  BY <1>13 DEF Expire, Revoke, histories, vars
<1> QED
  BY <1>1, <1>2, <1>3, <1>4, <1>5, <1>6, <1>7, <1>8, <1>9, <1>10, <1>11, <1>12,
     <1>13 DEF Next, Step

-----------------------------------------------------------------------------
(* What a step does to the tokens, whichever action takes it: p begins,     *)
(* goes on, wins a refresh, loses the answer of one, ends or seals; or the  *)
(* server acts.                                                             *)

Apart(p) ==
  \A q \in Procs : q # p => /\ Running(q)' = Running(q)
                           /\ orig'[q] = orig[q]
                           /\ cur'[q] = cur[q]

Begins(p) ==
  /\ Apart(p) /\ ~Running(p) /\ Running(p)'
  /\ orig'[p] = keyring /\ cur'[p] = keyring
  /\ UNCHANGED <<keyring, granted, valid, revoked, dropped>>

GoesOn(p) ==
  /\ Apart(p) /\ Running(p) /\ Running(p)'
  /\ orig'[p] = orig[p] /\ cur'[p] = cur[p]
  /\ UNCHANGED <<keyring, granted, valid, revoked, dropped>>

Wins(p) ==
  /\ Apart(p) /\ Running(p) /\ Running(p)'
  /\ orig'[p] = orig[p] /\ cur'[p] = Successor(orig[p])
  /\ orig[p].rt \in valid /\ ServerGrants(orig[p])
  /\ keyring' = keyring
  /\ dropped' \in {dropped, dropped \cup Unsealed(p)}

Loses(p) ==
  /\ Apart(p) /\ Running(p)
  /\ orig'[p] = orig[p] /\ cur'[p] = cur[p]
  /\ orig[p].rt \in valid /\ ServerGrants(orig[p])
  /\ keyring' = keyring
  /\ valid' \ valid \subseteq dropped' /\ dropped \subseteq dropped'

Ends(p) ==
  /\ Apart(p) /\ Running(p) /\ ~Running(p)'
  /\ UNCHANGED <<keyring, granted, valid, revoked>>
  /\ dropped' = dropped \cup Unsealed(p)

Seals(p) ==
  /\ Apart(p) /\ Running(p) /\ ~Running(p)'
  /\ keyring' = IF cur[p] = orig[p] THEN keyring ELSE cur[p]
  /\ UNCHANGED <<granted, valid, revoked, dropped>>

ServerActs ==
  /\ UNCHANGED <<keyring, granted, dropped, pc, orig, cur>>
  /\ \/ UNCHANGED <<valid, revoked>>
     \/ valid' = {} /\ revoked'

(* Every step is one of six things a command does, or the server acts: what *)
(* the invariants need to know of the thirteen actions of ops.rs.           *)
LEMMA StepKinds ==
  ASSUME TypeOK, [Next]_vars
  PROVE  \/ \E p \in Procs : \/ Begins(p) \/ GoesOn(p) \/ Wins(p)
                             \/ Loses(p) \/ Ends(p) \/ Seals(p)
         \/ ServerActs
<1> USE DEF TypeOK, Running, Goto, Apart, server, histories
<1>1. ASSUME NEW p \in Procs, NEW c \in Commands, Start(p, c) PROVE Begins(p)
  BY <1>1 DEF Start, Begins
<1>2. ASSUME NEW p \in Procs, StillFresh(p) PROVE GoesOn(p)
  BY <1>2 DEF StillFresh, BeginAttempt, GoesOn
<1>3. ASSUME NEW p \in Procs, ProactiveOk(p) PROVE Wins(p)
  BY <1>3 DEF ProactiveOk, RefreshOk, CanGrant, BeginAttempt, Wins, ServerGrants
<1>4. ASSUME NEW p \in Procs, ProactiveErr(p) PROVE GoesOn(p) \/ Loses(p)
  <2>1. CASE UNCHANGED server
    BY <1>4, <2>1 DEF ProactiveErr, BeginAttempt, GoesOn, LostInReply
  <2>2. CASE CanGrant(orig[p]) /\ ServerGrants(orig[p])
    <3>1. granted' # granted
      BY <2>2 DEF ServerGrants
    <3> QED
      BY <1>4, <2>2, <3>1 DEF ProactiveErr, BeginAttempt, CanGrant, LostInReply, Loses
  <2> QED
    BY <1>4, <2>1, <2>2 DEF ProactiveErr, RefreshErr
<1>5. ASSUME NEW p \in Procs, RequestOk(p) PROVE GoesOn(p)
  BY <1>5 DEF RequestOk, GoesOn
<1>6. ASSUME NEW p \in Procs, FirstUnauthorized(p) \/ Served(p) PROVE GoesOn(p)
  BY <1>6 DEF FirstUnauthorized, Served, GoesOn
<1>7. ASSUME NEW p \in Procs,
             \/ SecondUnauthorized(p) \/ RequestErr(p) \/ FieldMissing(p)
             \/ ResealErr(p) \/ Crash(p)
      PROVE  Ends(p)
  BY <1>7 DEF SecondUnauthorized, RequestErr, FieldMissing, ResealErr, Crash,
              Finish, Ends
<1>8. ASSUME NEW p \in Procs, RenewOk(p) PROVE Wins(p)
  BY <1>8 DEF RenewOk, Presented, RefreshOk, CanGrant, BeginAttempt, Wins,
              ServerGrants
<1>9. ASSUME NEW p \in Procs, RenewErr(p) PROVE Ends(p) \/ Loses(p)
  <2>1. CASE UNCHANGED server
    BY <1>9, <2>1 DEF RenewErr, Ends, LostInReply
  <2>2. CASE CanGrant(orig[p]) /\ ServerGrants(orig[p])
    <3>1. granted' # granted
      BY <2>2 DEF ServerGrants
    <3> QED
      BY <1>9, <2>2, <3>1 DEF RenewErr, CanGrant, LostInReply, Loses
  <2> QED
    BY <1>9, <2>1, <2>2 DEF RenewErr, Presented, RefreshErr
<1>10. ASSUME NEW p \in Procs, Reseal(p) PROVE Seals(p)
  BY <1>10 DEF Reseal, Seals
<1>11. ASSUME Expire \/ Revoke \/ UNCHANGED vars PROVE ServerActs
  BY <1>11 DEF Expire, Revoke, vars, ServerActs
<1> QED
  BY <1>1, <1>2, <1>3, <1>4, <1>5, <1>6, <1>7, <1>8, <1>9, <1>10, <1>11
     DEF Next, Step

-----------------------------------------------------------------------------
(* Single-use refresh tokens.                                              *)

(* A refresh can be granted only while the keyring has the live token: then *)
(* no command holds a newer session.                                        *)
LEMMA GrantFromKeyring ==
  ASSUME TypeOK, RefreshPolicy = "rotate", RotateInv,
         NEW p \in Procs, Running(p), orig[p].rt \in valid
  PROVE  /\ valid = {granted}
         /\ keyring.at = granted /\ keyring.rt = granted
         /\ \A q \in Procs : ~Holds(q)
<1> USE DEF TypeOK, Session, Tokens
<1>1. valid = {granted} /\ orig[p].rt = granted
  BY DEF RotateInv, NewestOnly
<1>2. OwnRt(orig[p]) /\ orig[p].at <= keyring.at
  BY DEF RotateInv, LoadedOlder
<1>3. orig[p].at = granted
  BY <1>1, <1>2, NoTokenAssumption DEF OwnRt
<1>4. OwnRt(keyring) /\ keyring.at <= granted /\ keyring.rt # NoToken
  <2>1. granted # 0 \/ valid # {}
    BY <1>1
  <2>2. SealedOlder
    BY DEF RotateInv
  <2> HIDE DEF TypeOK, Session, Tokens
  <2> QED
    BY <2>1, <2>2 DEF SealedOlder
<1>5. keyring.at = granted
  <2>1. keyring.at \in Nat /\ granted \in Nat
    OBVIOUS
  <2> HIDE DEF TypeOK, Session, Tokens
  <2> QED
    BY <1>2, <1>3, <1>4, <2>1
<1>6. keyring.rt = granted
  BY <1>4, <1>5 DEF OwnRt
<1> QED
  BY <1>1, <1>5, <1>6 DEF RotateInv, HeldNewest

(* A grant for the loaded session leaves its own refresh token the only one.*)
LEMMA GrantRotates ==
  ASSUME TypeOK, RefreshPolicy = "rotate", RotateInv,
         NEW p \in Procs, Running(p), orig[p].rt \in valid,
         ServerGrants(orig[p])
  PROVE  granted' = granted + 1 /\ valid' = {granted + 1}
BY GrantFromKeyring DEF ServerGrants, Successor

(* Every step keeps the order of sealed, loaded and held sessions.         *)
LEMMA RotateStep ==
  ASSUME TypeOK, TypeOK', RotateInv, [Next]_vars PROVE RotateInv'
<1> SUFFICES ASSUME RefreshPolicy = "rotate"
             PROVE  /\ NewestOnly' /\ SealedOlder' /\ LoadedOlder'
                    /\ HeldNewest' /\ OneHolder'
  BY DEF RotateInv
<1> USE DEF TypeOK, Session, Tokens, NewestOnly, SealedOlder, LoadedOlder,
            HeldNewest, OneHolder, OwnRt, Holds
<1>i. NewestOnly /\ SealedOlder /\ LoadedOlder /\ HeldNewest /\ OneHolder
  BY DEF RotateInv
<1>1. ASSUME NEW p \in Procs, Begins(p)
      PROVE  /\ NewestOnly' /\ SealedOlder' /\ LoadedOlder'
             /\ HeldNewest' /\ OneHolder'
  <2>1. ~Holds(p)' /\ \A q \in Procs : q # p => Holds(q)' = Holds(q)
    BY <1>1 DEF Begins, Apart
  <2>2. NewestOnly' /\ SealedOlder'
    BY <1>i, <1>1 DEF Begins
  <2>3. LoadedOlder'
    <3>1. UNCHANGED keyring /\ orig'[p] = keyring
      BY <1>1 DEF Begins
    <3>2. \A q \in Procs : q # p => Running(q)' = Running(q) /\ orig'[q] = orig[q]
      BY <1>1 DEF Begins, Apart
    <3>3. OwnRt(keyring) /\ keyring.at <= keyring.at
      BY <1>i
    <3> QED
      BY <1>i, <3>1, <3>2, <3>3
  <2>4. HeldNewest' /\ OneHolder'
    <3>1. UNCHANGED <<keyring, granted>>
      BY <1>1 DEF Begins
    <3>2. \A q \in Procs : Holds(q)' => Holds(q) /\ cur'[q] = cur[q]
      BY <1>1, <2>1 DEF Begins, Apart
    <3> HIDE DEF Holds
    <3> QED
      BY <1>i, <3>1, <3>2
  <2> QED
    BY <2>2, <2>3, <2>4
<1>2. ASSUME NEW p \in Procs, GoesOn(p)
      PROVE  /\ NewestOnly' /\ SealedOlder' /\ LoadedOlder'
             /\ HeldNewest' /\ OneHolder'
  <2>1. UNCHANGED <<keyring, granted, valid>>
    BY <1>2 DEF GoesOn
  <2>2. \A q \in Procs : /\ Running(q)' = Running(q)
                         /\ orig'[q] = orig[q] /\ cur'[q] = cur[q]
    <3>1. ASSUME NEW q \in Procs, q # p
          PROVE  /\ Running(q)' = Running(q)
                 /\ orig'[q] = orig[q] /\ cur'[q] = cur[q]
      BY <1>2, <3>1 DEF GoesOn, Apart
    <3>2. /\ Running(p)' = Running(p)
          /\ orig'[p] = orig[p] /\ cur'[p] = cur[p]
      BY <1>2 DEF GoesOn, Running
    <3> QED
      BY <3>1, <3>2
  <2>3. \A q \in Procs : Holds(q)' = Holds(q)
    BY <2>2 DEF Holds
  <2> HIDE DEF Holds
  <2>4. NewestOnly' /\ SealedOlder'
    BY <1>i, <2>1
  <2>5. LoadedOlder'
    BY <1>i, <2>1, <2>2
  <2>6. HeldNewest' /\ OneHolder'
    BY <1>i, <2>1, <2>2, <2>3
  <2> QED
    BY <2>4, <2>5, <2>6
<1>3. ASSUME NEW p \in Procs, Wins(p) \/ Loses(p)
      PROVE  /\ NewestOnly' /\ SealedOlder' /\ LoadedOlder'
             /\ HeldNewest' /\ OneHolder'
  <2>1. /\ keyring' = keyring /\ keyring.at = granted /\ keyring.rt = granted
        /\ granted' = granted + 1 /\ valid' = {granted + 1}
        /\ \A q \in Procs : ~Holds(q)
    BY <1>3, GrantFromKeyring, GrantRotates DEF Wins, Loses
  <2>2. Wins(p) => cur'[p] = [at |-> granted + 1, rt |-> granted + 1]
    BY DEF Wins, Successor
  <2>3. \A q \in Procs : q # p => ~Holds(q)'
    BY <1>3, <2>1 DEF Wins, Loses, Apart
  <2>4. Loses(p) => ~Holds(p)'
    BY <2>1 DEF Loses
  <2>5. NewestOnly' /\ SealedOlder'
    BY <2>1, NoTokenAssumption
  <2>6. LoadedOlder'
    BY <1>3, <1>i, <2>1 DEF Wins, Loses, Apart
  <2>7. HeldNewest'
    BY <1>3, <2>1, <2>2, <2>3, <2>4
  <2>8. OneHolder'
    BY <2>3
  <2> QED
    BY <2>5, <2>6, <2>7, <2>8
<1>4. ASSUME NEW p \in Procs, Ends(p)
      PROVE  /\ NewestOnly' /\ SealedOlder' /\ LoadedOlder'
             /\ HeldNewest' /\ OneHolder'
  BY <1>i, <1>4 DEF Ends, Apart
<1>5. ASSUME NEW p \in Procs, Seals(p)
      PROVE  /\ NewestOnly' /\ SealedOlder' /\ LoadedOlder'
             /\ HeldNewest' /\ OneHolder'
  <2>1. CASE cur[p] = orig[p]
    <3>1. ~Holds(p)' /\ \A q \in Procs : q # p => Holds(q)' = Holds(q)
      BY <1>5 DEF Seals, Apart
    <3>2. NewestOnly' /\ SealedOlder'
      BY <1>i, <1>5, <2>1 DEF Seals
    <3>3. LoadedOlder'
      BY <1>i, <1>5, <2>1 DEF Seals, Apart
    <3>4. HeldNewest' /\ OneHolder'
      BY <1>i, <1>5, <2>1, <3>1 DEF Seals, Apart
    <3> QED
      BY <3>2, <3>3, <3>4
  <2>2. CASE cur[p] # orig[p]
    <3>1. /\ Holds(p) /\ keyring' = cur[p]
          /\ keyring'.at = granted /\ keyring'.rt = granted
          /\ keyring.at < granted
      BY <1>i, <1>5, <2>2 DEF Seals
    <3>2. \A q \in Procs : ~Holds(q)'
      BY <1>i, <1>5, <3>1 DEF Seals, Apart
    <3>3. NewestOnly' /\ SealedOlder'
      BY <1>i, <1>5, <3>1, NoTokenAssumption DEF Seals
    <3>4. LoadedOlder'
      <4>1. \A q \in Procs : Running(q)' => Running(q) /\ orig'[q] = orig[q]
        BY <1>5 DEF Seals, Apart
      <4>2. keyring.at \in Nat /\ keyring'.at \in Nat /\ keyring.at < keyring'.at
        BY <3>1
      <4>3. \A q \in Procs : Running(q) => OwnRt(orig[q]) /\ orig[q].at <= keyring.at
        BY <1>i
      <4>4. \A q \in Procs : orig[q].at \in Nat
        OBVIOUS
      <4> HIDE DEF TypeOK, OwnRt, Holds
      <4> QED
        BY <4>1, <4>2, <4>3, <4>4 DEF OwnRt
    <3> QED
      BY <3>2, <3>3, <3>4
  <2> QED
    BY <2>1, <2>2
<1>6. ASSUME ServerActs
      PROVE  /\ NewestOnly' /\ SealedOlder' /\ LoadedOlder'
             /\ HeldNewest' /\ OneHolder'
  BY <1>i, <1>6 DEF ServerActs, Running
<1> QED
  BY StepKinds, <1>1, <1>2, <1>3, <1>4, <1>5, <1>6

-----------------------------------------------------------------------------
(* Refresh tokens that survive their use.                                  *)

(* Every step keeps the sealed and loaded refresh tokens good until a       *)
(* revocation.                                                             *)
LEMMA ReusableStep ==
  ASSUME TypeOK, TypeOK', ReusableInv, [Next]_vars PROVE ReusableInv'
<1> SUFFICES ASSUME RefreshPolicy # "rotate"
             PROVE  \/ revoked'
                    \/ /\ Good(keyring)'
                       /\ \A p \in Procs :
                            Running(p)' => Good(orig[p])' /\ Good(cur[p])'
  BY DEF ReusableInv
<1> USE DEF TypeOK, Session, Tokens, Good
<1>k. ASSUME NEW p \in Procs, ServerGrants(orig[p])
      PROVE  /\ valid \subseteq valid' /\ revoked' = revoked
             /\ Successor(orig[p]).rt \in valid'
  BY <1>k DEF ServerGrants
<1>1. CASE revoked
  <2>1. ASSUME NEW p \in Procs,
               \/ Begins(p) \/ GoesOn(p) \/ Wins(p)
               \/ Loses(p) \/ Ends(p) \/ Seals(p)
        PROVE  revoked'
    BY <1>1, <2>1 DEF Begins, GoesOn, Wins, Loses, Ends, Seals, ServerGrants
  <2>2. ServerActs => revoked'
    BY <1>1 DEF ServerActs
  <2> QED
    BY StepKinds, <2>1, <2>2
<1>2. CASE ~revoked
  <2>i. Good(keyring) /\ \A p \in Procs : Running(p) => Good(orig[p]) /\ Good(cur[p])
    BY <1>2 DEF ReusableInv
  <2>1. ASSUME NEW p \in Procs, Begins(p) \/ GoesOn(p) \/ Ends(p) \/ Seals(p)
        PROVE  /\ Good(keyring)'
               /\ \A q \in Procs : Running(q)' => Good(orig[q])' /\ Good(cur[q])'
    BY <2>i, <2>1 DEF Begins, GoesOn, Ends, Seals, Apart
  <2>2. ASSUME NEW p \in Procs, Wins(p) \/ Loses(p)
        PROVE  /\ Good(keyring)'
               /\ \A q \in Procs : Running(q)' => Good(orig[q])' /\ Good(cur[q])'
    <3>1. valid \subseteq valid' /\ Successor(orig[p]).rt \in valid'
      BY <1>k, <2>2 DEF Wins, Loses
    <3> QED
      BY <2>i, <2>2, <3>1 DEF Wins, Loses, Apart
  <2>3. ServerActs => \/ revoked'
                      \/ /\ Good(keyring)'
                         /\ \A q \in Procs :
                              Running(q)' => Good(orig[q])' /\ Good(cur[q])'
    BY <2>i DEF ServerActs, Running
  <2> QED
    BY StepKinds, <2>1, <2>2, <2>3
<1> QED
  BY <1>1, <1>2

-----------------------------------------------------------------------------
(* The live refresh token is never lost track of.                          *)

(* Every step accounts for the refresh token the keyring lost.             *)
LEMMA AliveStep ==
  ASSUME TypeOK, TypeOK', RotateInv, ReusableInv', KeyringAlive, [Next]_vars
  PROVE  KeyringAlive'
<1>1. CASE RefreshPolicy # "rotate"
  BY <1>1 DEF ReusableInv, Good, KeyringAlive
<1>2. CASE RefreshPolicy = "rotate"
  <2> USE <1>2 DEF TypeOK, Session, Tokens, KeyringAlive, Holds
  <2>i. NewestOnly /\ SealedOlder /\ LoadedOlder /\ HeldNewest /\ OneHolder
    BY DEF RotateInv
  <2>a. ASSUME NEW p \in Procs, Apart(p), NEW q \in Procs, q # p, Holds(q)
        PROVE  Holds(q)' /\ cur'[q] = cur[q]
    BY <2>a DEF Apart
  <2>1. ASSUME NEW p \in Procs, Begins(p) \/ GoesOn(p) PROVE KeyringAlive'
    <3>1. ASSUME NEW q \in Procs, Holds(q) PROVE Holds(q)' /\ cur'[q] = cur[q]
      <4>1. CASE q = p
        BY <2>1, <3>1, <4>1 DEF Begins, GoesOn
      <4> QED
        BY <2>1, <3>1, <4>1, <2>a DEF Begins, GoesOn
    <3>2. UNCHANGED <<keyring, valid, revoked, dropped>>
      BY <2>1 DEF Begins, GoesOn
    <3> HIDE DEF Holds
    <3> QED
      BY <3>1, <3>2
  <2>2. ASSUME NEW p \in Procs, Wins(p) PROVE KeyringAlive'
    <3>1. Running(p)' /\ cur'[p].rt = granted + 1 /\ valid' = {granted + 1}
      BY <2>2, GrantRotates DEF Wins, Successor
    <3>2. cur'[p] # orig'[p]
      BY <2>2, <3>1, GrantFromKeyring, NoTokenAssumption, <2>i
         DEF Wins, LoadedOlder, OwnRt
    <3> QED
      BY <3>1, <3>2
  <2>3. ASSUME NEW p \in Procs, Loses(p) PROVE KeyringAlive'
    <3>1. valid' = {granted + 1} /\ valid = {granted}
      BY <2>3, GrantRotates, GrantFromKeyring DEF Loses
    <3>2. valid' \cap dropped' # {}
      BY <2>3, <3>1 DEF Loses
    <3> QED
      BY <3>2
  <2>4. ASSUME NEW p \in Procs, Ends(p) PROVE KeyringAlive'
    <3>1. ASSUME NEW q \in Procs, Holds(q), cur[q].rt \in valid
          PROVE  (Holds(q)' /\ cur'[q] = cur[q]) \/ cur[q].rt \in dropped'
      <4>1. CASE q = p
        BY <2>4, <3>1, <4>1, NoTokenAssumption DEF Ends, Unsealed
      <4> QED
        BY <2>4, <3>1, <4>1, <2>a DEF Ends
    <3>2. UNCHANGED <<keyring, valid, revoked>> /\ dropped \subseteq dropped'
      BY <2>4 DEF Ends
    <3> HIDE DEF Holds
    <3> QED
      BY <3>1, <3>2
  <2>5. ASSUME NEW p \in Procs, Seals(p) PROVE KeyringAlive'
    <3>1. UNCHANGED <<valid, revoked, dropped>>
      BY <2>5 DEF Seals
    <3>2. CASE cur[p] = orig[p]
      <4>1. ASSUME NEW q \in Procs, Holds(q) PROVE Holds(q)' /\ cur'[q] = cur[q]
        BY <2>5, <3>2, <4>1, <2>a DEF Seals
      <4>2. keyring' = keyring
        BY <2>5, <3>2 DEF Seals
      <4> HIDE DEF Holds
      <4> QED
        BY <3>1, <4>1, <4>2
    <3>3. CASE cur[p] # orig[p]
      <4>1. Holds(p) /\ keyring' = cur[p] /\ keyring'.rt = granted
        BY <2>i, <2>5, <3>3 DEF Seals, HeldNewest
      <4>2. keyring.at < granted /\ OwnRt(keyring) /\ valid \subseteq {granted}
        BY <2>i, <4>1 DEF HeldNewest, SealedOlder, NewestOnly
      <4>3. keyring.rt # NoToken
        BY <2>i, <4>2 DEF SealedOlder
      <4>4. keyring.rt \notin valid
        BY <4>2, <4>3 DEF OwnRt
      <4>5. ASSUME ~revoked PROVE granted \in valid
        BY <2>i, <4>2, <4>3, <4>4, <4>5
      <4> QED
        BY <3>1, <4>1, <4>5
    <3> QED
      BY <3>2, <3>3
  <2>6. ASSUME ServerActs PROVE KeyringAlive'
    BY <2>6 DEF ServerActs, Running
  <2> QED
    BY StepKinds, <2>1, <2>2, <2>3, <2>4, <2>5, <2>6
<1> QED
  BY <1>1, <1>2

(* Every step keeps the inductive invariant.                               *)
LEMMA InvStep == IInv /\ [Next]_vars => IInv'
BY TypeStep, WorkStep, RotateStep, ReusableStep, AliveStep DEF IInv

(* The inductive invariant holds in every run of any number of commands.   *)
THEOREM Invariance == Spec => []IInv
BY InvInit, InvStep, PTL DEF Spec

-----------------------------------------------------------------------------
(* The properties the runs check, for every instance.                      *)

(* The keyring is stranded only by an event that drops the live token: a     *)
(* command that seals never strands it (ops.rs, reseal in main.rs).          *)
THEOREM KeyringStaysAlive == Spec => []KeyringAlive
<1>1. IInv => KeyringAlive
  BY DEF IInv
<1> QED
  BY <1>1, Invariance, PTL

(* With single-use refresh tokens two commands that run at once cannot both  *)
(* hold a successor of the sealed session.                                   *)
THEOREM HeirIsSingle == Spec => []SingleHeir
<1>1. IInv => SingleHeir
  BY DEF IInv, RotateInv, HeldNewest, OneHolder, SingleHeir
<1> QED
  BY <1>1, Invariance, PTL

(* A command sends at most two refresh requests (ops.rs: no loops).          *)
THEOREM RefreshIsBounded == Spec => []BoundedRefresh
<1>1. IInv => BoundedRefresh
  BY DEF IInv, WorkDone, BoundedRefresh
<1> QED
  BY <1>1, Invariance, PTL

(* With single-use refresh tokens the keyring only moves to newer sessions.  *)
THEOREM KeyringMovesForward == Spec => KeyringForward
<1>1. IInv /\ [Next]_vars =>
        [RefreshPolicy = "rotate" => keyring'.at > keyring.at]_keyring
  <2> SUFFICES ASSUME IInv, [Next]_vars, RefreshPolicy = "rotate",
                      keyring' # keyring
               PROVE  keyring'.at > keyring.at
    OBVIOUS
  <2>1. TypeOK /\ HeldNewest
    BY DEF IInv, RotateInv
  <2>2. PICK p \in Procs : Seals(p)
    BY <2>1, StepKinds
       DEF Begins, GoesOn, Wins, Loses, Ends, ServerActs
  <2>3. Holds(p) /\ keyring' = cur[p]
    BY <2>2 DEF Seals, Holds
  <2>4. keyring.at < cur[p].at /\ keyring.at \in Nat /\ cur[p].at \in Nat
    BY <2>1, <2>3 DEF TypeOK, HeldNewest, Session
  <2> QED
    BY <2>3, <2>4
<1> QED
  BY <1>1, Invariance, PTL DEF Spec, KeyringForward

-----------------------------------------------------------------------------
(* With single-use refresh tokens the commands implement the baton.        *)

Holders == {p \in Procs : Holds(p) /\ cur[p].rt \in valid}

(* A step of a command that neither gains nor loses a live token leaves the *)
(* set of holders alone.                                                   *)
LEMMA HoldersOfStep ==
  ASSUME NEW p \in Procs, Apart(p), valid' = valid,
         (Holds(p) /\ cur[p].rt \in valid)' = (Holds(p) /\ cur[p].rt \in valid)
  PROVE  Holders' = Holders
<1>1. \A q \in Procs : q # p =>
        (Holds(q) /\ cur[q].rt \in valid)' = (Holds(q) /\ cur[q].rt \in valid)
  BY DEF Apart, Holds
<1>2. \A q \in Procs :
        (Holds(q) /\ cur[q].rt \in valid)' = (Holds(q) /\ cur[q].rt \in valid)
  BY <1>1
<1> QED
  BY <1>2 DEF Holders

(* When the only holder ends, nobody holds the token.                      *)
LEMMA HoldersAfterEnd ==
  ASSUME NEW p \in Procs, Apart(p), valid' = valid, ~Running(p)',
         OneHolder, Holds(p)
  PROVE  Holders' = {} /\ Holders \subseteq {p}
BY DEF Apart, Holds, Holders, OneHolder

(* Every step of the lifecycle is a step of the baton or stutters.         *)
LEMMA BatonStep ==
  ASSUME IInv, IInv', RefreshPolicy = "rotate", [Next]_vars
  PROVE  [Baton!Next]_(Baton!vars)
<1> DEFINE sealed == keyring.rt \in valid
<1>i. TypeOK /\ RotateInv /\ NewestOnly /\ SealedOlder /\ HeldNewest /\ OneHolder
  BY DEF IInv, RotateInv
<1>s. \/ \E p \in Procs : \/ sealed /\ ~sealed' /\ Holders' = {p}
                          \/ Holders = {p} /\ sealed' /\ Holders' = {}
                          \/ Holders = {p} /\ Holders' = {} /\ sealed' = sealed
      \/ sealed /\ ~sealed' /\ Holders' = Holders
      \/ ~sealed' /\ Holders' = {}
      \/ sealed' = sealed /\ Holders' = Holders
  <2>1. ASSUME NEW p \in Procs, Begins(p) \/ GoesOn(p)
        PROVE  sealed' = sealed /\ Holders' = Holders
    <3>1. Apart(p) /\ valid' = valid /\ keyring' = keyring
      BY <2>1 DEF Begins, GoesOn
    <3>2. (Holds(p) /\ cur[p].rt \in valid)' = (Holds(p) /\ cur[p].rt \in valid)
      BY <2>1, <3>1 DEF Begins, GoesOn, Holds
    <3> QED
      BY <3>1, <3>2, HoldersOfStep
  <2>2. ASSUME NEW p \in Procs, Wins(p)
        PROVE  sealed /\ ~sealed' /\ Holders' = {p}
    <3>1. /\ valid = {granted} /\ valid' = {granted + 1}
          /\ keyring' = keyring /\ keyring.at = granted /\ keyring.rt = granted
          /\ \A q \in Procs : ~Holds(q)
      BY <1>i, <2>2, GrantFromKeyring, GrantRotates DEF Wins
    <3>2. sealed /\ ~sealed'
      BY <1>i, <3>1 DEF TypeOK
    <3>3. \A q \in Procs : q # p => ~Holds(q)'
      BY <2>2, <3>1 DEF Wins, Apart, Holds
    <3>4. cur'[p].rt = granted + 1 /\ cur'[p].at = granted + 1
      BY <2>2 DEF Wins, Successor
    <3>5. orig'[p].at <= granted
      BY <1>i, <2>2, <3>1 DEF Wins, RotateInv, LoadedOlder
    <3>6. orig'[p].at \in Nat /\ granted \in Nat
      BY DEF IInv, TypeOK, Session
    <3>7. Holds(p)'
      BY <2>2, <3>4, <3>5, <3>6 DEF Wins, Holds
    <3> QED
      BY <3>1, <3>2, <3>3, <3>4, <3>7 DEF Holders
  <2>3. ASSUME NEW p \in Procs, Loses(p)
        PROVE  sealed /\ ~sealed' /\ Holders' = Holders
    <3>1. /\ valid = {granted} /\ valid' = {granted + 1}
          /\ keyring' = keyring /\ keyring.rt = granted
          /\ \A q \in Procs : ~Holds(q)
      BY <1>i, <2>3, GrantFromKeyring, GrantRotates DEF Loses
    <3>2. \A q \in Procs : ~Holds(q)'
      BY <2>3, <3>1 DEF Loses, Apart, Holds
    <3> QED
      BY <1>i, <3>1, <3>2 DEF TypeOK, Holders
  <2>4. ASSUME NEW p \in Procs, Ends(p)
        PROVE  \/ sealed' = sealed /\ Holders' = Holders
               \/ sealed' = sealed /\ Holders = {p} /\ Holders' = {}
    <3>1. Apart(p) /\ ~Running(p)' /\ valid' = valid /\ keyring' = keyring
      BY <2>4 DEF Ends
    <3>2. CASE Holds(p) /\ cur[p].rt \in valid
      BY <1>i, <3>1, <3>2, HoldersAfterEnd DEF Holders
    <3>3. CASE ~(Holds(p) /\ cur[p].rt \in valid)
      BY <3>1, <3>3, HoldersOfStep DEF Holds
    <3> QED
      BY <3>2, <3>3
  <2>5. ASSUME NEW p \in Procs, Seals(p)
        PROVE  \/ sealed' = sealed /\ Holders' = Holders
               \/ Holders = {p} /\ sealed' /\ Holders' = {}
    <3>1. Apart(p) /\ Running(p) /\ ~Running(p)' /\ valid' = valid
      BY <2>5 DEF Seals
    <3>2. CASE cur[p] = orig[p]
      <4>1. keyring' = keyring /\ ~Holds(p) /\ ~Holds(p)'
        BY <2>5, <3>1, <3>2 DEF Seals, Holds
      <4> QED
        BY <3>1, <4>1, HoldersOfStep
    <3>3. CASE cur[p] # orig[p]
      <4>1. Holds(p) /\ keyring' = cur[p]
        BY <2>5, <3>1, <3>3 DEF Seals, Holds
      <4>2. keyring.rt \notin valid
        BY <1>i, <4>1, NoTokenAssumption
           DEF HeldNewest, SealedOlder, NewestOnly, OwnRt, TypeOK, Session
      <4>3. CASE cur[p].rt \in valid
        BY <1>i, <3>1, <4>1, <4>3, HoldersAfterEnd DEF Holders
      <4>4. CASE cur[p].rt \notin valid
        <5>1. Holders' = {} /\ Holders = {}
          BY <1>i, <3>1, <4>1, <4>4, HoldersAfterEnd DEF Holders
        <5> QED
          BY <3>1, <4>1, <4>2, <4>4, <5>1
      <4> QED
        BY <4>3, <4>4
    <3> QED
      BY <3>2, <3>3
  <2>6. ASSUME ServerActs
        PROVE  \/ ~sealed' /\ Holders' = {}
               \/ sealed' = sealed /\ Holders' = Holders
    BY <2>6 DEF ServerActs, Holders, Holds, Running
  <2> QED
    BY <1>i, StepKinds, <2>1, <2>2, <2>3, <2>4, <2>5, <2>6
<1> QED
  BY <1>s DEF Baton!Next, Baton!vars, Baton!Take, Baton!Seal, Baton!Drop,
              Baton!Strand, Baton!Revoke, Holders

(* The lifecycle refines RefreshBaton under single-use refresh tokens: the    *)
(* refresh token is in one place, and only its holder can put it back.        *)
THEOREM ImplementsBaton ==
  ASSUME RefreshPolicy = "rotate" PROVE Spec => BatonSpec
<1>1. Init => Baton!Init
  BY DEF Init, Baton!Init, Holds, Running
<1>2. IInv /\ IInv' /\ [Next]_vars => [Baton!Next]_(Baton!vars)
  BY BatonStep
<1> QED
  BY <1>1, <1>2, Invariance, PTL DEF Spec, BatonSpec, Baton!Spec
=============================================================================
