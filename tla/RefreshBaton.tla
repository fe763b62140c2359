---------------------------- MODULE RefreshBaton ----------------------------
(***************************************************************************)
(* What the token lifecycle promises when refresh tokens are single use:   *)
(* there is one live refresh token and it is in one place.  A command that *)
(* refreshes takes it out of the keyring; only that command can put it     *)
(* back, and what it drops is lost until the next login.                   *)
(***************************************************************************)
CONSTANT Procs

VARIABLES
  sealed,   \* the keyring holds the live refresh token
  holders   \* the commands that hold it

vars == <<sealed, holders>>

Init == sealed \in BOOLEAN /\ holders = {}

(* A refresh grant whose answer reaches the command. *)
Take(p) == sealed /\ sealed' = FALSE /\ holders' = {p}

(* The command re-seals. *)
Seal(p) == holders = {p} /\ sealed' = TRUE /\ holders' = {}

(* The command ends or dies without re-sealing. *)
Drop(p) == holders = {p} /\ holders' = {} /\ UNCHANGED sealed

(* A refresh grant whose answer is lost. *)
Strand == sealed /\ sealed' = FALSE /\ UNCHANGED holders

(* The server forgets every token. *)
Revoke == sealed' = FALSE /\ holders' = {}

Next ==
  \/ \E p \in Procs : Take(p) \/ Seal(p) \/ Drop(p)
  \/ Strand
  \/ Revoke

Spec == Init /\ [][Next]_vars

(* One place at a time. *)
OnePlace ==
  /\ sealed \in BOOLEAN
  /\ \/ holders = {}
     \/ ~sealed /\ \E p \in Procs : holders = {p}
=============================================================================
