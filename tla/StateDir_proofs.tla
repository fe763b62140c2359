--------------------------- MODULE StateDir_proofs ---------------------------
(***************************************************************************)
(* Proofs about module StateDir, for any number of processes, accounts and *)
(* logins: however the processes interleave and wherever they are killed,  *)
(* a keyring saved by one process at a time unseals and a config parses,   *)
(* and a directory used by one process at a time never goes back.          *)
(***************************************************************************)
EXTENDS StateDir, SequenceTheorems, TLAPS

LEMMA Initially == Init => StateInv
<1> SUFFICES ASSUME Init PROVE StateInv
  OBVIOUS
<1>1. TypeOK
  <2>1. logins \in Seq(Accounts) /\ Len(logins) <= MaxLogins
    BY MaxLoginsAssumption, EmptySeq DEF Init
  <2> QED
    BY <2>1 DEF Init, TypeOK, Points, Contents, Absent
<1>2. MineInv
  BY DEF Init, MineInv, LoggingIn, Loaded, Writing
<1>3. SaveInv
  BY DEF Init, SaveInv, Saving
<1>5. ConfigInv
  BY DEF Init, ConfigInv, Configuring
<1>4. AloneInv
  BY ContentAssumption DEF Init, AloneInv, Resting, LoggingIn, Loaded, Writing,
                           Whole, Logins, Absent
<1> QED
  BY <1>1, <1>2, <1>3, <1>4, <1>5 DEF StateInv

(* A login in progress, or a loaded session, has a number. *)
LEMMA MineIsALogin ==
  ASSUME TypeOK, MineInv, NEW p \in Procs, LoggingIn(p) \/ Loaded(p)
  PROVE  mine[p] \in Logins
  BY DEF MineInv

(* Each kind of step keeps the types. *)
LEMMA TypeStep ==
  ASSUME TypeOK, MineInv, [Next]_vars
  PROVE  TypeOK'
<1> USE MaxLoginsAssumption DEF TypeOK, Points, Contents, Logins, Absent
<1>1. ASSUME NEW p \in Procs, NEW a \in Accounts, LoginAccepted(p, a) PROVE TypeOK'
  <2>1. logins' \in Seq(Accounts) /\ Len(logins') = Len(logins) + 1
    BY <1>1, AppendProperties DEF LoginAccepted
  <2>2. Len(logins) \in Nat /\ Len(logins) < MaxLogins
    BY <1>1 DEF LoginAccepted
  <2>3. Len(logins') <= MaxLogins /\ Len(logins) + 1 \in Logins
    BY <2>1, <2>2
  <2>4. pc' \in [Procs -> Points] /\ mine' \in [Procs -> Logins \cup {0}]
        /\ together' \in BOOLEAN
    BY <1>1, <2>3 DEF LoginAccepted, Goto, NowTogether
  <2> QED
    BY <1>1, <2>1, <2>3, <2>4 DEF LoginAccepted, disk
<1>2. ASSUME NEW p \in Procs, PurgeCache(p) PROVE TypeOK'
  BY <1>2 DEF PurgeCache, Goto, locals, histories
<1>15. ASSUME NEW p \in Procs, OpenConfigTmp(p) PROVE TypeOK'
  BY <1>15 DEF OpenConfigTmp, Goto
<1>3. ASSUME NEW p \in Procs, WriteConfigTmp(p) PROVE TypeOK'
  <2>1. mine[p] \in Logins
    BY <1>3, MineIsALogin DEF WriteConfigTmp, At, LoggingIn
  <2>2. config' \in Contents /\ configTmp' \in Contents
    BY <1>3, <2>1 DEF WriteConfigTmp, Overwritten
  <2> QED
    BY <1>3, <2>2 DEF WriteConfigTmp, Goto, histories
<1>4. ASSUME NEW p \in Procs, RenameConfig(p) PROVE TypeOK'
  BY <1>4 DEF RenameConfig, Followed, Goto, histories
<1>5. ASSUME NEW p \in Procs, StartCommand(p) PROVE TypeOK'
  BY <1>5 DEF StartCommand, Goto, NowTogether, disk, locals
<1>6. ASSUME NEW p \in Procs, LoadConfig(p) PROVE TypeOK'
  BY <1>6 DEF LoadConfig, Whole, Goto, disk, histories
<1>7. ASSUME NEW p \in Procs, LoadSession(p) PROVE TypeOK'
  BY <1>7 DEF LoadSession, Whole, Goto, disk, histories
<1>8. ASSUME NEW p \in Procs, LoadConfigErr(p) \/ LoadSessionErr(p) \/ Stops(p)
      PROVE  TypeOK'
  BY <1>8 DEF LoadConfigErr, LoadSessionErr, Stops, Exit, Goto, disk, histories
<1>9. ASSUME NEW p \in Procs, Operate(p) PROVE TypeOK'
  <2>1. mine[p] \in Logins
    BY <1>9, MineIsALogin DEF Operate, At, Loaded
  <2> QED
    BY <1>9, <2>1 DEF Operate, Exit, Goto, histories
<1>10. ASSUME NEW p \in Procs, OpenTmp(p) PROVE TypeOK'
  BY <1>10 DEF OpenTmp, Goto
<1>11. ASSUME NEW p \in Procs, WriteTmp(p) PROVE TypeOK'
  <2>1. mine[p] \in Logins
    BY <1>11, MineIsALogin DEF WriteTmp, At, LoggingIn, Loaded, Writing
  <2>2. tmp' \in Contents /\ keyring' \in Contents
    BY <1>11, <2>1 DEF WriteTmp, Overwritten
  <2> QED
    BY <1>11, <2>2 DEF WriteTmp, Goto, histories
<1>12. ASSUME NEW p \in Procs, RenameTmp(p) PROVE TypeOK'
  BY <1>12 DEF RenameTmp, Followed, Exit, Goto, histories
<1>13. CASE RefreshCache
  BY <1>13 DEF RefreshCache, locals, histories
<1>14. CASE UNCHANGED vars
  BY <1>14 DEF vars
<1> QED
  BY <1>1, <1>2, <1>3, <1>4, <1>5, <1>6, <1>7, <1>8, <1>9, <1>10, <1>11, <1>12,
     <1>13, <1>14, <1>15 DEF Next

(* Who works keeps a login. *)
LEMMA MineStep ==
  ASSUME TypeOK, MineInv, [Next]_vars, TypeOK'
  PROVE  MineInv'
<1> USE DEF MineInv, LoggingIn, Loaded, Writing, At, Resting
<1>0. /\ Len(logins) \in Nat /\ pc \in [Procs -> Points]
      /\ mine \in [Procs -> Logins \cup {0}] /\ cfg \in [Procs -> Logins \cup {0}]
  BY DEF TypeOK
<1>1. ASSUME NEW p \in Procs, NEW a \in Accounts, LoginAccepted(p, a) PROVE MineInv'
  <2>1. Len(logins) + 1 \in Logins
    BY <1>0, <1>1, MaxLoginsAssumption DEF LoginAccepted, Logins
  <2> QED
    BY <1>0, <1>1, <2>1 DEF LoginAccepted, Goto, disk
<1>2. ASSUME NEW p \in Procs, PurgeCache(p) PROVE MineInv'
  BY <1>0, <1>2 DEF PurgeCache, Goto, locals, histories
<1>15. ASSUME NEW p \in Procs, OpenConfigTmp(p) PROVE MineInv'
  BY <1>0, <1>15 DEF OpenConfigTmp, Goto
<1>3. ASSUME NEW p \in Procs, WriteConfigTmp(p) PROVE MineInv'
  BY <1>0, <1>3 DEF WriteConfigTmp, Goto, histories
<1>4. ASSUME NEW p \in Procs, RenameConfig(p) PROVE MineInv'
  BY <1>0, <1>4 DEF RenameConfig, Goto, histories
<1>5. ASSUME NEW p \in Procs, StartCommand(p) PROVE MineInv'
  BY <1>0, <1>5 DEF StartCommand, Goto, disk, locals
<1>6. ASSUME NEW p \in Procs, LoadConfig(p) PROVE MineInv'
  BY <1>0, <1>6 DEF LoadConfig, Goto, disk, histories
<1>7. ASSUME NEW p \in Procs, LoadSession(p) PROVE MineInv'
  BY <1>0, <1>7 DEF LoadSession, Whole, Goto, disk, histories
<1>8. ASSUME NEW p \in Procs, LoadConfigErr(p) \/ LoadSessionErr(p) \/ Stops(p)
      PROVE  MineInv'
  BY <1>0, <1>8 DEF LoadConfigErr, LoadSessionErr, Stops, Exit, Goto, disk, histories
<1>9. ASSUME NEW p \in Procs, Operate(p) PROVE MineInv'
  BY <1>0, <1>9 DEF Operate, Exit, Goto, histories
<1>10. ASSUME NEW p \in Procs, OpenTmp(p) PROVE MineInv'
  BY <1>0, <1>10 DEF OpenTmp, Goto
<1>11. ASSUME NEW p \in Procs, WriteTmp(p) PROVE MineInv'
  BY <1>0, <1>11 DEF WriteTmp, Goto, histories
<1>12. ASSUME NEW p \in Procs, RenameTmp(p) PROVE MineInv'
  BY <1>0, <1>12 DEF RenameTmp, Exit, Goto, histories
<1>13. CASE RefreshCache
  BY <1>0, <1>13 DEF RefreshCache, locals, histories
<1>14. CASE UNCHANGED vars
  BY <1>14 DEF vars
<1> QED
  BY <1>1, <1>2, <1>3, <1>4, <1>5, <1>6, <1>7, <1>8, <1>9, <1>10, <1>11, <1>12,
     <1>13, <1>14, <1>15 DEF Next

(* As long as no two processes are inside Keyring::save, the temporary     *)
(* file is the saver's, and what is renamed is whole.                      *)
LEMMA SaveStep ==
  ASSUME TypeOK, MineInv, SaveInv, [Next]_vars
  PROVE  SaveInv'
<1> USE DEF SaveInv, Saving, At
<1>0. /\ pc \in [Procs -> Points] /\ mine \in [Procs -> Logins \cup {0}]
      /\ fd \in [Procs -> {"configTmp", "config", "tmp", "keyring", "gone", "none"}]
  BY DEF TypeOK
<1>1. ASSUME NEW p \in Procs, NEW a \in Accounts, LoginAccepted(p, a) PROVE SaveInv'
  BY <1>0, <1>1 DEF LoginAccepted, Goto, disk, Resting, Whole
<1>2. ASSUME NEW p \in Procs, PurgeCache(p) PROVE SaveInv'
  BY <1>0, <1>2 DEF PurgeCache, Goto, locals, histories, Whole
<1>15. ASSUME NEW p \in Procs, OpenConfigTmp(p) PROVE SaveInv'
  BY <1>0, <1>15 DEF OpenConfigTmp, Goto, Whole
<1>3. ASSUME NEW p \in Procs, WriteConfigTmp(p) PROVE SaveInv'
  BY <1>0, <1>3 DEF WriteConfigTmp, Goto, histories, Whole
<1>4. ASSUME NEW p \in Procs, RenameConfig(p) PROVE SaveInv'
  BY <1>0, <1>4 DEF RenameConfig, Followed, Goto, histories, Whole
<1>5. ASSUME NEW p \in Procs, StartCommand(p) PROVE SaveInv'
  BY <1>0, <1>5 DEF StartCommand, Goto, disk, locals, Resting, Whole
<1>6. ASSUME NEW p \in Procs, LoadConfig(p) PROVE SaveInv'
  BY <1>0, <1>6 DEF LoadConfig, Goto, disk, histories, Whole
<1>7. ASSUME NEW p \in Procs, LoadSession(p) PROVE SaveInv'
  BY <1>0, <1>7 DEF LoadSession, Goto, disk, histories, Whole
<1>8. ASSUME NEW p \in Procs, LoadConfigErr(p) \/ LoadSessionErr(p) \/ Stops(p)
      PROVE  SaveInv'
  BY <1>0, <1>8 DEF LoadConfigErr, LoadSessionErr, Stops, Exit, Goto, disk, histories, Whole
<1>9. ASSUME NEW p \in Procs, Operate(p) PROVE SaveInv'
  BY <1>0, <1>9 DEF Operate, Exit, Goto, histories, Whole
<1>10. ASSUME NEW p \in Procs, OpenTmp(p) PROVE SaveInv'
  BY <1>0, <1>10 DEF OpenTmp, Goto, Whole
<1>11. ASSUME NEW p \in Procs, WriteTmp(p) PROVE SaveInv'
  BY <1>0, <1>11 DEF WriteTmp, Overwritten, Goto, histories, Whole
<1>12. ASSUME NEW p \in Procs, RenameTmp(p) PROVE SaveInv'
  <2>1. mine[p] \in Logins
    BY <1>12, MineIsALogin DEF RenameTmp, LoggingIn, Loaded, Writing
  <2> QED
    BY <1>0, <1>12, <2>1 DEF RenameTmp, Exit, Goto, histories, Whole
<1>13. CASE RefreshCache
  BY <1>0, <1>13 DEF RefreshCache, locals, histories, Whole
<1>14. CASE UNCHANGED vars
  BY <1>14 DEF vars, Whole
<1> QED
  BY <1>1, <1>2, <1>3, <1>4, <1>5, <1>6, <1>7, <1>8, <1>9, <1>10, <1>11, <1>12,
     <1>13, <1>14, <1>15 DEF Next

(* The same of two logins that write the config.                           *)
LEMMA ConfigStep ==
  ASSUME TypeOK, MineInv, ConfigInv, [Next]_vars
  PROVE  ConfigInv'
<1> USE DEF ConfigInv, Configuring, At
<1>0. /\ pc \in [Procs -> Points] /\ mine \in [Procs -> Logins \cup {0}]
      /\ fd \in [Procs -> {"configTmp", "config", "tmp", "keyring", "gone", "none"}]
  BY DEF TypeOK
<1>1. ASSUME NEW p \in Procs, NEW a \in Accounts, LoginAccepted(p, a) PROVE ConfigInv'
  BY <1>0, <1>1 DEF LoginAccepted, Goto, disk, Resting, Whole
<1>2. ASSUME NEW p \in Procs, PurgeCache(p) PROVE ConfigInv'
  BY <1>0, <1>2 DEF PurgeCache, Goto, locals, histories, Whole
<1>15. ASSUME NEW p \in Procs, OpenConfigTmp(p) PROVE ConfigInv'
  BY <1>0, <1>15 DEF OpenConfigTmp, Goto, Whole
<1>3. ASSUME NEW p \in Procs, WriteConfigTmp(p) PROVE ConfigInv'
  BY <1>0, <1>3 DEF WriteConfigTmp, Overwritten, Goto, histories, Whole
<1>4. ASSUME NEW p \in Procs, RenameConfig(p) PROVE ConfigInv'
  <2>1. mine[p] \in Logins
    BY <1>4, MineIsALogin DEF RenameConfig, LoggingIn
  <2> QED
    BY <1>0, <1>4, <2>1 DEF RenameConfig, Goto, histories, Whole
<1>5. ASSUME NEW p \in Procs, StartCommand(p) PROVE ConfigInv'
  BY <1>0, <1>5 DEF StartCommand, Goto, disk, locals, Resting, Whole
<1>6. ASSUME NEW p \in Procs, LoadConfig(p) PROVE ConfigInv'
  BY <1>0, <1>6 DEF LoadConfig, Goto, disk, histories, Whole
<1>7. ASSUME NEW p \in Procs, LoadSession(p) PROVE ConfigInv'
  BY <1>0, <1>7 DEF LoadSession, Goto, disk, histories, Whole
<1>8. ASSUME NEW p \in Procs, LoadConfigErr(p) \/ LoadSessionErr(p) \/ Stops(p)
      PROVE  ConfigInv'
  BY <1>0, <1>8 DEF LoadConfigErr, LoadSessionErr, Stops, Exit, Goto, disk, histories, Whole
<1>9. ASSUME NEW p \in Procs, Operate(p) PROVE ConfigInv'
  BY <1>0, <1>9 DEF Operate, Exit, Goto, histories, Whole
<1>10. ASSUME NEW p \in Procs, OpenTmp(p) PROVE ConfigInv'
  BY <1>0, <1>10 DEF OpenTmp, Goto, Whole
<1>11. ASSUME NEW p \in Procs, WriteTmp(p) PROVE ConfigInv'
  BY <1>0, <1>11 DEF WriteTmp, Overwritten, Goto, histories, Whole
<1>12. ASSUME NEW p \in Procs, RenameTmp(p) PROVE ConfigInv'
  BY <1>0, <1>12 DEF RenameTmp, Followed, Exit, Goto, histories, Whole
<1>13. CASE RefreshCache
  BY <1>0, <1>13 DEF RefreshCache, locals, histories, Whole
<1>14. CASE UNCHANGED vars
  BY <1>14 DEF vars, Whole
<1> QED
  BY <1>1, <1>2, <1>3, <1>4, <1>5, <1>6, <1>7, <1>8, <1>9, <1>10, <1>11, <1>12,
     <1>13, <1>14, <1>15 DEF Next

(* As long as one process runs at a time, its login is the newest or its   *)
(* session is the one on disk, and the config leads the keyring.           *)
LEMMA AloneStep ==
  ASSUME TypeOK, MineInv, SaveInv, ConfigInv, AloneInv, [Next]_vars
  PROVE  AloneInv'
<1> USE ContentAssumption
    DEF AloneInv, LoggingIn, Loaded, Writing, Resting, Whole, Logins, Absent, At
<1>0. /\ pc \in [Procs -> Points] /\ mine \in [Procs -> Logins \cup {0}]
      /\ cfg \in [Procs -> Logins \cup {0}]
      /\ keyring \in Logins \cup {0, Empty, Torn}
      /\ together \in BOOLEAN
      /\ Len(logins) \in Nat /\ MaxLogins \in Nat
      /\ ~ together => config \in Logins \cup {0}
  BY MaxLoginsAssumption DEF TypeOK, Contents, ConfigInv
<1>1. ASSUME NEW p \in Procs, NEW a \in Accounts, LoginAccepted(p, a) PROVE AloneInv'
  <2>1. Len(logins') = Len(logins) + 1
    BY <1>1, AppendProperties DEF LoginAccepted, TypeOK
  <2>2. /\ mine' = [mine EXCEPT ![p] = Len(logins')]
        /\ pc' = [pc EXCEPT ![p] = "purge"] /\ UNCHANGED <<disk, cfg, overlap>>
        /\ Resting(p)
        /\ ~ together' => ~ together /\ \A q \in Procs \ {p} : Resting(q)
    BY <1>1, <2>1 DEF LoginAccepted, NowTogether, Goto
  <2> SUFFICES ASSUME ~ together' PROVE AloneInv'
    BY DEF AloneInv
  <2>3. /\ ~ together /\ overlap' = {} /\ config' = config /\ keyring' = keyring
        /\ cfg' = cfg
        /\ \A q \in Procs \ {p} : pc'[q] \in {"idle", "loggedIn"}
        /\ pc'[p] = "purge" /\ mine'[p] = Len(logins')
    BY <1>0, <2>2 DEF disk
  <2>4. /\ config' <= Len(logins')
        /\ Whole(keyring)' => keyring' <= config'
    BY <1>0, <2>1, <2>3
  <2>5. \A q, r \in Procs : ~ Resting(q)' /\ ~ Resting(r)' => q = r
    BY <2>3
  <2>6. \A q \in Procs :
         /\ LoggingIn(q)' => mine'[q] = Len(logins')
         /\ LoggingIn(q)' /\ pc'[q] \in Writing => config' = mine'[q]
         /\ pc'[q] \in {"keyring?", "op"} => cfg'[q] # 0
         /\ Loaded(q)' => keyring' = mine'[q]
    BY <2>3
  <2> QED
    BY <2>3, <2>4, <2>5, <2>6
<1>2. ASSUME NEW p \in Procs, PurgeCache(p) PROVE AloneInv'
  BY <1>0, <1>2 DEF PurgeCache, Goto, locals, histories
<1>15. ASSUME NEW p \in Procs, OpenConfigTmp(p) PROVE AloneInv'
  BY <1>0, <1>15 DEF OpenConfigTmp, Configuring, Goto
<1>3. ASSUME NEW p \in Procs, WriteConfigTmp(p) PROVE AloneInv'
  BY <1>0, <1>3 DEF WriteConfigTmp, ConfigInv, Goto, histories
<1>4. ASSUME NEW p \in Procs, RenameConfig(p) PROVE AloneInv'
  <2> SUFFICES ASSUME ~ together' PROVE AloneInv'
    BY DEF AloneInv
  <2>1. /\ ~ together /\ overlap' = {} /\ pc[p] = "configRename"
        /\ pc' = [pc EXCEPT ![p] = "open"] /\ config' = configTmp
        /\ UNCHANGED <<logins, keyring, mine, cfg>>
    BY <1>0, <1>4 DEF RenameConfig, Goto, histories
  <2>2. config' = mine[p] /\ mine[p] = Len(logins)
    BY <2>1 DEF ConfigInv
  <2>3. \A q \in Procs \ {p} : pc'[q] \in {"idle", "loggedIn"}
    BY <1>0, <2>1
  <2>4. config' <= Len(logins') /\ (Whole(keyring)' => keyring' <= config')
    BY <1>0, <2>1, <2>2
  <2>5. pc'[p] = "open"
    BY <1>0, <2>1
  <2>6. Loaded(p)' => keyring' = mine'[p]
    BY <1>0, <2>1, <2>5 DEF MineInv
  <2>7. LoggingIn(p)' => mine'[p] = Len(logins') /\ config' = mine'[p]
    BY <2>1, <2>2
  <2> QED
    BY <2>1, <2>3, <2>4, <2>5, <2>6, <2>7
<1>5. ASSUME NEW p \in Procs, StartCommand(p) PROVE AloneInv'
  BY <1>0, <1>5 DEF StartCommand, NowTogether, Goto, disk, locals
<1>6. ASSUME NEW p \in Procs, LoadConfig(p) PROVE AloneInv'
  BY <1>0, <1>6 DEF LoadConfig, Goto, disk, histories
<1>7. ASSUME NEW p \in Procs, LoadSession(p) PROVE AloneInv'
  BY <1>0, <1>7 DEF LoadSession, Goto, disk, histories
<1>8. ASSUME NEW p \in Procs, LoadConfigErr(p) \/ LoadSessionErr(p) \/ Stops(p)
      PROVE  AloneInv'
  BY <1>0, <1>8 DEF LoadConfigErr, LoadSessionErr, Stops, Exit, Goto, disk, histories
<1>9. ASSUME NEW p \in Procs, Operate(p) PROVE AloneInv'
  BY <1>0, <1>9 DEF Operate, Exit, Goto, histories
<1>10. ASSUME NEW p \in Procs, OpenTmp(p) PROVE AloneInv'
  BY <1>0, <1>10 DEF OpenTmp, Saving, Goto
<1>11. ASSUME NEW p \in Procs, WriteTmp(p) PROVE AloneInv'
  BY <1>0, <1>11 DEF WriteTmp, SaveInv, Goto, histories
<1>12. ASSUME NEW p \in Procs, RenameTmp(p) PROVE AloneInv'
  BY <1>0, <1>12 DEF RenameTmp, SaveInv, Exit, Goto, histories
<1>13. CASE RefreshCache
  BY <1>0, <1>13 DEF RefreshCache, locals, histories
<1>14. CASE UNCHANGED vars
  BY <1>14 DEF vars
<1> QED
  BY <1>1, <1>2, <1>3, <1>4, <1>5, <1>6, <1>7, <1>8, <1>9, <1>10, <1>11, <1>12,
     <1>13, <1>14, <1>15 DEF Next

LEMMA Inductive == StateInv /\ [Next]_vars => StateInv'
<1> SUFFICES ASSUME StateInv, [Next]_vars PROVE StateInv'
  OBVIOUS
<1>1. TypeOK /\ MineInv /\ SaveInv /\ ConfigInv /\ AloneInv
  BY DEF StateInv
<1>2. TypeOK'
  BY <1>1, TypeStep
<1>3. MineInv'
  BY <1>1, <1>2, MineStep
<1>4. SaveInv'
  BY <1>1, SaveStep
<1>5. ConfigInv'
  BY <1>1, ConfigStep
<1>6. AloneInv'
  BY <1>1, AloneStep
<1> QED
  BY <1>2, <1>3, <1>4, <1>5, <1>6 DEF StateInv

-----------------------------------------------------------------------------
(* The invariant of the state directory holds for any processes, accounts  *)
(* and number of logins.                                                   *)
THEOREM Invariance == Spec => []StateInv
<1> QED
  BY Initially, Inductive, PTL DEF Spec

(* Every reachable state of the directory is well typed. *)
THEOREM TypeCorrect == Spec => []TypeOK
<1>1. StateInv => TypeOK
  BY DEF StateInv
<1> QED
  BY <1>1, Invariance, PTL

(* A keyring saved by one process at a time is absent or unseals, and a    *)
(* config written by one login at a time is absent or parses, wherever one *)
(* was killed (Keyring::save, save_login).                                 *)
THEOREM FilesStayWhole == Spec => []FilesWhole
<1>1. StateInv => FilesWhole
  BY DEF StateInv, SaveInv, ConfigInv, FilesWhole
<1> QED
  BY <1>1, Invariance, PTL

(* With one process at a time the config is at least as new as the session *)
(* beside it (save_login).                                                 *)
THEOREM ConfigStaysAhead == Spec => []ConfigLeads
<1>1. StateInv => ConfigLeads
  BY DEF StateInv, TypeOK, ConfigInv, AloneInv, ConfigLeads, Whole, Logins, Absent
<1> QED
  BY <1>1, Invariance, PTL

(* With one process at a time a login that ends well is the one the next   *)
(* command runs with.                                                      *)
THEOREM LoginsTakeEffect == Spec => LoginTakesEffect
<1> DEFINE Effect(p) == ~ together' /\ ~ At(p, "loggedIn") /\ At(p, "loggedIn")' =>
                          config' = Len(logins) /\ keyring' = Len(logins)
<1>1. ASSUME StateInv, StateInv', Next, NEW p \in Procs PROVE Effect(p)
  <2> SUFFICES ASSUME ~ together', pc[p] # "loggedIn", pc'[p] = "loggedIn"
               PROVE  config' = Len(logins) /\ keyring' = Len(logins)
    BY DEF At
  <2>0. pc \in [Procs -> Points] /\ mine \in [Procs -> Logins \cup {0}]
    BY <1>1 DEF StateInv, TypeOK
  <2>1. RenameTmp(p) /\ cfg[p] = 0
    <3>2. ASSUME NEW q \in Procs, NEW a \in Accounts, LoginAccepted(q, a)
          PROVE  FALSE
      BY <2>0, <3>2 DEF LoginAccepted, Goto
    <3>3. ASSUME NEW q \in Procs,
                 \/ PurgeCache(q) \/ OpenConfigTmp(q) \/ WriteConfigTmp(q)
                 \/ RenameConfig(q) \/ StartCommand(q) \/ LoadConfig(q)
                 \/ LoadConfigErr(q) \/ LoadSession(q) \/ LoadSessionErr(q)
                 \/ Operate(q) \/ OpenTmp(q) \/ WriteTmp(q)
                 \/ Stops(q)
          PROVE  FALSE
      BY <2>0, <3>3 DEF PurgeCache, OpenConfigTmp, WriteConfigTmp, RenameConfig,
           StartCommand, LoadConfig, LoadConfigErr, LoadSession, LoadSessionErr, Operate, OpenTmp, WriteTmp,
           Stops, Goto, Exit
    <3>4. ASSUME NEW q \in Procs, RenameTmp(q)
          PROVE  RenameTmp(p) /\ cfg[p] = 0
      BY <2>0, <3>4 DEF RenameTmp, Exit, Goto
    <3>5. ~ RefreshCache
      BY <2>0 DEF RefreshCache
    <3> QED
      BY <1>1, <3>2, <3>3, <3>4, <3>5 DEF Next
  <2>2. /\ ~ together /\ pc[p] = "rename" /\ keyring' = tmp /\ config' = config
    BY <2>1 DEF RenameTmp, At, histories
  <2>3. LoggingIn(p) /\ pc[p] \in Writing
    BY <2>1, <2>2 DEF LoggingIn, Writing
  <2>4. mine[p] = Len(logins) /\ config = mine[p] /\ tmp = mine[p]
    BY <1>1, <2>2, <2>3 DEF StateInv, AloneInv, SaveInv
  <2> QED
    BY <2>2, <2>4
<1>2. ASSUME StateInv, StateInv', [Next]_vars
      PROVE  [\A p \in Procs : Effect(p)]_vars
  BY <1>1, <1>2
<1> QED
  BY <1>2, Invariance, PTL DEF Spec, LoginTakesEffect

(* With one process at a time a session is replaced in the keyring by one  *)
(* of the same or a later login, by a rename.                              *)
THEOREM SessionsDoAdvance == Spec => SessionsAdvance
<1> DEFINE Advance == ~ together /\ Whole(keyring) =>
                        Whole(keyring') /\ keyring' >= keyring
<1>1. ASSUME StateInv, Next, keyring' # keyring PROVE Advance
  <2> SUFFICES ASSUME ~ together, Whole(keyring)
               PROVE  Whole(keyring') /\ keyring' >= keyring
    OBVIOUS
  <2>1. ASSUME NEW p \in Procs, RenameTmp(p)
        PROVE  Whole(keyring') /\ keyring' >= keyring
    <3>1. pc[p] = "rename" /\ keyring' = mine[p]
      BY <1>1, <2>1 DEF StateInv, SaveInv, AloneInv, RenameTmp, At
    <3>2. mine[p] \in Logins
      BY <1>1, <3>1 DEF StateInv, MineInv, LoggingIn, Loaded, Writing
    <3>3. CASE cfg[p] = 0
      <4>1. mine[p] = Len(logins) /\ config = mine[p] /\ keyring <= config
        BY <1>1, <3>1, <3>3 DEF StateInv, AloneInv, LoggingIn, Writing
      <4> QED
        BY <3>1, <3>2, <4>1 DEF Whole, Logins
    <3>4. CASE cfg[p] # 0
      <4>1. keyring = mine[p]
        BY <1>1, <3>1, <3>4 DEF StateInv, AloneInv, Loaded, Writing
      <4> QED
        BY <3>1, <3>2, <4>1 DEF Whole, Logins
    <3> QED
      BY <3>3, <3>4
  <2>2. ASSUME NEW p \in Procs, WriteTmp(p) PROVE FALSE
    BY <1>1, <2>2 DEF StateInv, SaveInv, AloneInv, WriteTmp, At
  <2>3. ASSUME NEW p \in Procs, NEW a \in Accounts, LoginAccepted(p, a)
        PROVE  FALSE
    BY <1>1, <2>3 DEF LoginAccepted, disk
  <2>4. ASSUME NEW p \in Procs,
               \/ PurgeCache(p) \/ OpenConfigTmp(p) \/ WriteConfigTmp(p)
               \/ RenameConfig(p) \/ StartCommand(p) \/ LoadConfig(p)
               \/ LoadConfigErr(p) \/ LoadSession(p) \/ LoadSessionErr(p)
               \/ Operate(p) \/ OpenTmp(p) \/ Stops(p)
        PROVE  FALSE
    BY <1>1, <2>4 DEF PurgeCache, OpenConfigTmp, WriteConfigTmp, RenameConfig,
         StartCommand, LoadConfig, LoadConfigErr, LoadSession, LoadSessionErr, Operate, OpenTmp, Stops, disk
  <2>5. ~ RefreshCache
    BY <1>1 DEF RefreshCache
  <2> QED
    BY <1>1, <2>1, <2>2, <2>3, <2>4, <2>5 DEF Next
<1>2. ASSUME StateInv, [Next]_vars PROVE [Advance]_keyring
  BY <1>1, <1>2 DEF vars
<1> QED
  BY <1>2, Invariance, PTL DEF Spec, SessionsAdvance
=============================================================================
