------------------------------ MODULE StateDir ------------------------------
(***************************************************************************)
(* The state directory (crates/cli/src/state.rs, main.rs; Keyring::save    *)
(* and load in crates/core/src/keyring.rs) at the grain of its file-system *)
(* calls: config.json, keyring, a temporary file of each and the sync      *)
(* cache, written by `cryptile login` and by the re-seal of the other      *)
(* commands, read by both, by any number of processes that can die between *)
(* any two calls.                                                          *)
(*                                                                         *)
(* Logins are numbered in the order the server accepts them; logins[n] is  *)
(* the account of login n.  A sealed session, and the passphrase it is     *)
(* sealed under, is the number of its login: later sessions of one login   *)
(* differ by their tokens only, which module TokenLifecycle follows.       *)
(***************************************************************************)
EXTENDS Naturals, Sequences

CONSTANTS
  Procs,
  Accounts,
  MaxLogins,    \* bound: logins the server accepts
  Empty,        \* a file that was truncated and not yet, or not wholly, written
  Torn          \* a file with the bytes of two writers mixed

ASSUME MaxLoginsAssumption == MaxLogins \in Nat \ {0}
ASSUME ContentAssumption == Empty \notin Nat /\ Torn \notin Nat /\ Empty # Torn

Absent == 0             \* no such file

VARIABLES
  logins,     \* the accounts of the logins accepted so far
  config,     \* config.json: the login that wrote it, Absent, Empty or Torn
  configTmp,  \* config.json.tmp: likewise
  keyring,    \* the keyring file
  tmp,        \* keyring.tmp
  cache,      \* the login under whose session the cache was written, or Absent
  pc,
  mine,       \* the login a process performs, or whose session it loaded
  cfg,        \* the login whose config a command loaded, 0 for a login
  fd,         \* what the file open for writing now is: "configTmp" or "tmp",
              \* "config" or "keyring" (renamed since), "gone" (replaced
              \* since); "none"
  overlap,    \* history: the files that two processes were saving at a time
  together    \* history: two processes ran at a time

disk == <<config, configTmp, keyring, tmp, cache>>
locals == <<mine, cfg, fd>>
histories == <<overlap, together>>
vars == <<logins, config, configTmp, keyring, tmp, cache, pc, mine, cfg, fd,
          overlap, together>>

Logins == 1..MaxLogins
Points == {"idle", "loggedIn",
           "purge", "config", "configWrite", "configRename",   \* login
           "config?", "keyring?", "op",                        \* get, list, export
           "open", "write", "rename"}                          \* Keyring::save
Contents == Logins \cup {Absent, Empty, Torn}

TypeOK ==
  /\ logins \in Seq(Accounts)
  /\ Len(logins) <= MaxLogins
  /\ config \in Contents /\ configTmp \in Contents
  /\ keyring \in Contents /\ tmp \in Contents
  /\ cache \in Logins \cup {Absent}
  /\ pc \in [Procs -> Points]
  /\ mine \in [Procs -> Logins \cup {0}]
  /\ cfg \in [Procs -> Logins \cup {0}]
  /\ fd \in [Procs -> {"configTmp", "config", "tmp", "keyring", "gone", "none"}]
  /\ overlap \subseteq {"config", "keyring"} /\ together \in BOOLEAN

Init ==
  /\ logins = <<>>
  /\ config = Absent /\ configTmp = Absent
  /\ keyring = Absent /\ tmp = Absent /\ cache = Absent
  /\ pc = [p \in Procs |-> "idle"]
  /\ mine = [p \in Procs |-> 0]
  /\ cfg = [p \in Procs |-> 0]
  /\ fd = [p \in Procs |-> "none"]
  /\ overlap = {} /\ together = FALSE

(* The file contents that parse, or unseal. *)
Whole(content) == content \in Logins

At(p, l) == pc[p] = l
Goto(p, l) == pc' = [pc EXCEPT ![p] = l]
Resting(p) == pc[p] \in {"idle", "loggedIn"}
Configuring(p) == pc[p] \in {"configWrite", "configRename"}
Saving(p) == pc[p] \in {"write", "rename"}

NowTogether(p) == together' = (together \/ \E q \in Procs \ {p} : ~Resting(q))

Exit(p, l) ==
  /\ Goto(p, l)
  /\ mine' = [mine EXCEPT ![p] = 0]
  /\ cfg' = [cfg EXCEPT ![p] = 0]

-----------------------------------------------------------------------------
(* cryptile login, from the moment the server has accepted it.             *)

LoginAccepted(p, a) ==
  /\ Resting(p)
  /\ Len(logins) < MaxLogins
  /\ logins' = Append(logins, a)
  /\ mine' = [mine EXCEPT ![p] = Len(logins) + 1]
  /\ Goto(p, "purge")
  /\ NowTogether(p)
  /\ UNCHANGED <<disk, cfg, fd, overlap>>

(* Mutant: the keyring is written first, and the config never. *)
PurgeCacheThenKeyring(p) ==
  /\ At(p, "purge")
  /\ Goto(p, "open")
  /\ UNCHANGED <<logins, disk, locals, histories>>

(* The cache goes when the config on disk parses and names another account.*)
PurgeCache(p) ==
  /\ At(p, "purge")
  /\ cache' = IF Whole(config) /\ logins[config] # logins[mine[p]]
              THEN Absent ELSE cache
  /\ Goto(p, "config")
  /\ UNCHANGED <<logins, config, configTmp, keyring, tmp, locals, histories>>

(* save_login: fs::write of config.json.tmp, which creates or truncates it  *)
(* and writes, its rename, then the keyring.                                *)
OpenConfigTmp(p) ==
  /\ At(p, "config")
  /\ configTmp' = Empty
  /\ fd' = [fd EXCEPT ![p] = "configTmp"]
  /\ overlap' = overlap \cup {f \in {"config"} : \E q \in Procs : Configuring(q)}
  /\ Goto(p, "configWrite")
  /\ UNCHANGED <<logins, config, keyring, tmp, cache, mine, cfg, together>>

(* What a file can hold after a write from its start: the bytes of the      *)
(* writer, with the end of what was there after them if that was longer.    *)
Overwritten(old, new) == IF old = Empty THEN {new} ELSE {new, Torn}

(* The write reaches the file the descriptor stands for; then it is closed. *)
WriteConfigTmp(p) ==
  /\ At(p, "configWrite")
  /\ \/ /\ fd[p] = "configTmp"
        /\ configTmp' \in Overwritten(configTmp, mine[p])
        /\ UNCHANGED config
     \/ /\ fd[p] = "config"
        /\ config' \in Overwritten(config, mine[p])
        /\ UNCHANGED configTmp
     \/ /\ fd[p] = "gone"
        /\ UNCHANGED <<config, configTmp>>
  /\ fd' = [fd EXCEPT ![p] = "none"]
  /\ Goto(p, "configRename")
  /\ UNCHANGED <<logins, keyring, tmp, cache, mine, cfg, histories>>

(* A rename moves the file; the descriptors that others hold go with it. *)
Followed(d, from, to) ==
  CASE d = from -> to
    [] d = to -> "gone"
    [] OTHER -> d

RenameConfig(p) ==
  /\ At(p, "configRename")
  /\ configTmp # Absent
  /\ config' = configTmp
  /\ configTmp' = Absent
  /\ fd' = [q \in Procs |-> Followed(fd[q], "configTmp", "config")]
  /\ Goto(p, "open")
  /\ UNCHANGED <<logins, keyring, tmp, cache, mine, cfg, histories>>

-----------------------------------------------------------------------------
(* get, list, export: load_state_for, the operation, reseal.               *)

(* logged_in: both files are there. *)
StartCommand(p) ==
  /\ Resting(p)
  /\ config # Absent /\ keyring # Absent
  /\ Goto(p, "config?")
  /\ NowTogether(p)
  /\ UNCHANGED <<logins, disk, locals, overlap>>

(* Mutant: a config that does not parse is taken as it is. *)
LoadConfigUnparsed(p) ==
  /\ At(p, "config?")
  /\ cfg' = [cfg EXCEPT ![p] = config]
  /\ Goto(p, "keyring?")
  /\ UNCHANGED <<logins, disk, mine, fd, histories>>

LoadConfig(p) ==
  /\ At(p, "config?")
  /\ Whole(config)
  /\ cfg' = [cfg EXCEPT ![p] = config]
  /\ Goto(p, "keyring?")
  /\ UNCHANGED <<logins, disk, mine, fd, histories>>

(* An empty or torn config: exit 3. *)
LoadConfigErr(p) ==
  /\ At(p, "config?")
  /\ Exit(p, "idle")
  /\ UNCHANGED <<logins, disk, fd, histories>>

(* The passphrase given is the one of the sealed login. *)
LoadSession(p) ==
  /\ At(p, "keyring?")
  /\ Whole(keyring)
  /\ mine' = [mine EXCEPT ![p] = keyring]
  /\ Goto(p, "op")
  /\ UNCHANGED <<logins, disk, cfg, fd, histories>>

(* A truncated or torn keyring, or another passphrase: exit 3. *)
LoadSessionErr(p) ==
  /\ At(p, "keyring?")
  /\ Exit(p, "idle")
  /\ UNCHANGED <<logins, disk, fd, histories>>

(* The operation succeeds.  It may have written the cache, under the key of *)
(* its session (best effort), and may have rotated the session, which then  *)
(* is re-sealed.                                                            *)
Operate(p) ==
  /\ At(p, "op")
  /\ cache' \in {cache, mine[p]}
  /\ \/ Goto(p, "open") /\ UNCHANGED <<mine, cfg>>
     \/ Exit(p, "idle")
  /\ UNCHANGED <<logins, config, configTmp, keyring, tmp, fd, histories>>

(* get --refresh-cache unlinks the cache file, whatever follows. *)
RefreshCache ==
  /\ cache # Absent
  /\ cache' = Absent
  /\ UNCHANGED <<logins, config, configTmp, keyring, tmp, pc, locals, histories>>

-----------------------------------------------------------------------------
(* Keyring::save.                                                          *)

(* Mutants: keyring.tmp is opened without truncation; the keyring itself is *)
(* opened.                                                                  *)
OpenTmpKeeps(p) ==
  /\ At(p, "open")
  /\ tmp' = IF tmp = Absent THEN Empty ELSE tmp
  /\ fd' = [fd EXCEPT ![p] = "tmp"]
  /\ overlap' = overlap \cup {f \in {"keyring"} : \E q \in Procs : Saving(q)}
  /\ Goto(p, "write")
  /\ UNCHANGED <<logins, config, configTmp, keyring, cache, mine, cfg, together>>

OpenInPlace(p) ==
  /\ At(p, "open")
  /\ keyring' = Empty
  /\ fd' = [fd EXCEPT ![p] = "keyring"]
  /\ overlap' = overlap \cup {f \in {"keyring"} : \E q \in Procs : Saving(q)}
  /\ Goto(p, "write")
  /\ UNCHANGED <<logins, config, configTmp, tmp, cache, mine, cfg, together>>

(* Create or truncate: a descriptor of the one keyring.tmp. *)
OpenTmp(p) ==
  /\ At(p, "open")
  /\ tmp' = Empty
  /\ fd' = [fd EXCEPT ![p] = "tmp"]
  /\ overlap' = overlap \cup {f \in {"keyring"} : \E q \in Procs : Saving(q)}
  /\ Goto(p, "write")
  /\ UNCHANGED <<logins, config, configTmp, keyring, cache, mine, cfg, together>>

(* Mutant: the rename is forgotten. *)
WriteTmpOnly(p) ==
  /\ At(p, "write")
  /\ fd[p] = "tmp"
  /\ tmp' \in Overwritten(tmp, mine[p])
  /\ fd' = [fd EXCEPT ![p] = "none"]
  /\ Exit(p, IF cfg[p] = 0 THEN "loggedIn" ELSE "idle")
  /\ UNCHANGED <<logins, config, configTmp, keyring, cache, histories>>

(* write_all and sync_all reach the file the descriptor stands for; then    *)
(* the descriptor is closed.                                                *)
WriteTmp(p) ==
  /\ At(p, "write")
  /\ \/ /\ fd[p] = "tmp"
        /\ tmp' \in Overwritten(tmp, mine[p])
        /\ UNCHANGED keyring
     \/ /\ fd[p] = "keyring"
        /\ keyring' \in Overwritten(keyring, mine[p])
        /\ UNCHANGED tmp
     \/ /\ fd[p] = "gone"
        /\ UNCHANGED <<keyring, tmp>>
  /\ fd' = [fd EXCEPT ![p] = "none"]
  /\ Goto(p, "rename")
  /\ UNCHANGED <<logins, config, configTmp, cache, mine, cfg, histories>>

RenameTmp(p) ==
  /\ At(p, "rename")
  /\ tmp # Absent
  /\ keyring' = tmp
  /\ tmp' = Absent
  /\ fd' = [q \in Procs |-> Followed(fd[q], "tmp", "keyring")]
  /\ Exit(p, IF cfg[p] = 0 THEN "loggedIn" ELSE "idle")
  /\ UNCHANGED <<logins, config, configTmp, cache, histories>>

-----------------------------------------------------------------------------
(* The process is killed, or a file-system call fails (among them a rename  *)
(* whose source another process has moved away): login exits with 5, a      *)
(* re-seal warns.  What is on disk stays.                                   *)
Stops(p) ==
  /\ ~Resting(p)
  /\ Exit(p, "idle")
  /\ fd' = [fd EXCEPT ![p] = "none"]
  /\ UNCHANGED <<logins, disk, histories>>

Next ==
  \/ \E p \in Procs :
       \/ \E a \in Accounts : LoginAccepted(p, a)
       \/ PurgeCache(p) \/ OpenConfigTmp(p) \/ WriteConfigTmp(p) \/ RenameConfig(p)
       \/ StartCommand(p) \/ LoadConfig(p) \/ LoadConfigErr(p)
       \/ LoadSession(p) \/ LoadSessionErr(p)
       \/ Operate(p)
       \/ OpenTmp(p) \/ WriteTmp(p) \/ RenameTmp(p)
       \/ Stops(p)
  \/ RefreshCache

Spec == Init /\ [][Next]_vars

-----------------------------------------------------------------------------
(* Properties.                                                             *)

(* Write to a temporary file, rename over (keyring.rs 191-192, state.rs      *)
(* 83-86): a crash at any point, and a left-over keyring.tmp or              *)
(* config.json.tmp, leave a keyring that unseals and a config that parses,   *)
(* each as long as no two processes write it at a time.                      *)
FilesWhole ==
  /\ "keyring" \notin overlap => keyring = Absent \/ Whole(keyring)
  /\ "config" \notin overlap => config = Absent \/ Whole(config)

(* Keyring last, config first (state.rs 69-70): as long as one process runs  *)
(* at a time, the config is never older than the session beside it.          *)
ConfigLeads ==
  ~together /\ Whole(keyring) => Whole(config) /\ config >= keyring

(* With one process at a time, a login that ends well is the one the next    *)
(* command runs with: config and keyring are its own.                        *)
LoginTakesEffect ==
  [][\A p \in Procs :
       ~together' /\ ~At(p, "loggedIn") /\ At(p, "loggedIn")' =>
         config' = Len(logins) /\ keyring' = Len(logins)]_vars

(* With one process at a time, the bytes of a sealed session reach the       *)
(* keyring by a rename only, and replace a session by one of the same or a   *)
(* later login.                                                              *)
SessionsAdvance ==
  [][~together /\ Whole(keyring) => Whole(keyring') /\ keyring' >= keyring]_keyring

(* The comment on save_login (state.rs 69-70): no crash leaves a torn state. *)
(* A command that runs finds the config of the login it has the session of,  *)
(* so far as the account goes.                                               *)
NoTornState ==
  \A p \in Procs : At(p, "op") => logins[cfg[p]] = logins[mine[p]]

(* The comment on Keyring::save (keyring.rs 191-192): saving is atomic.      *)
SaveIsAtomic == keyring = Absent \/ Whole(keyring)

-----------------------------------------------------------------------------
(* The inductive invariant behind the four properties that hold.           *)

Writing == {"open", "write", "rename"}

(* A login that has not ended; a command has loaded a config.              *)
LoggingIn(p) ==
  pc[p] \in {"purge", "config", "configWrite", "configRename"}
    \/ (pc[p] \in Writing /\ cfg[p] = 0)
Loaded(p) == pc[p] = "op" \/ (pc[p] \in Writing /\ cfg[p] # 0)

(* Who works has a login; a config is loaded by commands only. *)
MineInv ==
  \A p \in Procs :
    /\ LoggingIn(p) \/ Loaded(p) => mine[p] \in Logins
    /\ pc[p] \in {"idle", "loggedIn", "purge", "config", "configWrite",
                  "configRename", "config?"} => cfg[p] = 0

(* One saver at a time: the temporary file is the saver's own.             *)
SaveInv ==
  "keyring" \notin overlap =>
    /\ \A p, q \in Procs : Saving(p) /\ Saving(q) => p = q
    /\ \A p \in Procs :
         /\ pc[p] = "write" => fd[p] = "tmp" /\ tmp = Empty
         /\ pc[p] = "rename" => tmp = mine[p]
    /\ keyring = Absent \/ Whole(keyring)

(* The same of the config. *)
ConfigInv ==
  "config" \notin overlap =>
    /\ \A p, q \in Procs : Configuring(p) /\ Configuring(q) => p = q
    /\ \A p \in Procs :
         /\ pc[p] = "configWrite" => fd[p] = "configTmp" /\ configTmp = Empty
         /\ pc[p] = "configRename" => configTmp = mine[p]
    /\ config = Absent \/ Whole(config)

(* One process at a time: its login is the newest, or it runs with the     *)
(* session on disk; the config leads the keyring.                          *)
AloneInv ==
  ~ together =>
    /\ overlap = {}
    /\ \A p, q \in Procs : ~ Resting(p) /\ ~ Resting(q) => p = q
    /\ config <= Len(logins)
    /\ Whole(keyring) => keyring <= config
    /\ \A p \in Procs :
         /\ LoggingIn(p) => mine[p] = Len(logins)
         /\ LoggingIn(p) /\ pc[p] \in Writing => config = mine[p]
         /\ pc[p] \in {"keyring?", "op"} => cfg[p] # 0
         /\ Loaded(p) => keyring = mine[p]

StateInv == TypeOK /\ MineInv /\ SaveInv /\ ConfigInv /\ AloneInv
=============================================================================
