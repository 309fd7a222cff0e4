-------------------------- MODULE CredentialVault --------------------------
(***************************************************************************)
(* The file that keeps the exchange credentials between commands           *)
(* (src/src/utils/credential_vault.py) and the start of a command          *)
(* (build_context of src/src/cli_context.py): credentials of the           *)
(* configuration are stored, then whatever is stored is loaded.            *)
(*                                                                         *)
(* Writing the file empties it first; a command may be killed, and another *)
(* one may read, in between.  Encryption is modelled by the master key it  *)
(* takes to read the file again.                                           *)
(***************************************************************************)
EXTENDS Integers, FiniteSets

CONSTANTS
  Command,     \* commands that may run at the same time
  Value,       \* credentials, apart from the empty one
  Master,      \* master keys
  Partial,     \* whether a configuration may hold only one of the two
  MaxStarts    \* bound: starts of commands

ASSUME VaultAssumption == Partial \in BOOLEAN /\ MaxStarts \in Nat

VARIABLES
  file,     \* the vault file
  phase,    \* command -> where its start is
  env,      \* command -> its master key, "" for none
  config,   \* command -> exchange.api_key and api_secret of its configuration
  given,    \* history: command -> what its configuration held at the start
  pairs,    \* history: every pair a configuration held
  quiet,    \* history: commands whose start overlapped no other start
  starts

vars == <<file, phase, env, config, given, pairs, quiet, starts>>

None == ""
Pair == [key : Value \cup {None}, secret : Value \cup {None}]
NoPair == [key |-> None, secret |-> None]
Missing == [state |-> "missing"]
Torn == [state |-> "torn"]
Stored(master, p) == [state |-> "stored", master |-> master, pair |-> p]

Supplied ==
  IF Partial THEN Pair
  ELSE {NoPair} \cup {p \in Pair : p.key # None /\ p.secret # None}

TypeOK ==
  /\ file \in {Missing, Torn} \cup {Stored(m, p) : m \in Master, p \in Pair}
  /\ phase \in [Command -> {"idle", "persist", "write", "load", "running", "failed"}]
  /\ env \in [Command -> Master \cup {None}]
  /\ config \in [Command -> Pair] /\ given \in [Command -> Pair]
  /\ pairs \subseteq Pair /\ quiet \subseteq Command /\ starts \in 0..MaxStarts

Init ==
  /\ file = Missing
  /\ phase = [c \in Command |-> "idle"]
  /\ env = [c \in Command |-> None]
  /\ config = [c \in Command |-> NoPair] /\ given = config
  /\ pairs = {NoPair} /\ quiet = {} /\ starts = 0

Goto(c, where) == phase' = [phase EXCEPT ![c] = where]

Starting == {c \in Command : phase[c] \in {"persist", "write", "load"}}

(* load_config *)
Start(c) ==
  /\ phase[c] = "idle" /\ starts < MaxStarts
  /\ \E m \in Master \cup {None}, p \in Supplied :
       /\ env' = [env EXCEPT ![c] = m]
       /\ config' = [config EXCEPT ![c] = p]
       /\ given' = [given EXCEPT ![c] = p]
       /\ pairs' = pairs \cup {p}
  /\ quiet' = IF Starting = {} THEN quiet \cup {c} ELSE quiet \ (Starting \cup {c})
  /\ starts' = starts + 1
  /\ Goto(c, "persist")
  /\ UNCHANGED file

(* Faulty variant of Persist: a vault that exists is not written again.    *)
PersistOnce(c) ==
  /\ phase[c] = "persist"
  /\ IF config[c] = NoPair \/ file # Missing THEN Goto(c, "load") /\ UNCHANGED file
     ELSE IF env[c] = None THEN Goto(c, "failed") /\ UNCHANGED file
     ELSE Goto(c, "write") /\ file' = Torn
  /\ UNCHANGED <<env, config, given, pairs, quiet, starts>>

(* persist_exchange_credentials: nothing to store, no master key, or the   *)
(* file is opened for writing.                                             *)
Persist(c) ==
  /\ phase[c] = "persist"
  /\ IF config[c] = NoPair THEN Goto(c, "load") /\ UNCHANGED file
     ELSE IF env[c] = None THEN Goto(c, "failed") /\ UNCHANGED file
     ELSE Goto(c, "write") /\ file' = Torn
  /\ UNCHANGED <<env, config, given, pairs, quiet, starts>>

(* Faulty variant of Merged: what is not supplied keeps its stored value.  *)
MergedKeeping(c) ==
  [key |-> config[c].key,
   secret |-> IF file.state = "stored" THEN file.pair.secret ELSE config[c].secret]

(* The payload: both fields, supplied or empty.                            *)
Merged(c) == config[c]

Write(c) ==
  /\ phase[c] = "write"
  /\ file' = Stored(env[c], Merged(c))
  /\ Goto(c, "load")
  /\ UNCHANGED <<env, config, given, pairs, quiet, starts>>

(* Faulty variant of Readable: a file without a master key is left alone.  *)
ReadableAlways(c) == file # Torn

(* read_exchange_credentials succeeds.                                     *)
Readable(c) == file.state = "stored" /\ file.master = env[c]

(* _reload_credentials_from_vault *)
Load(c) ==
  /\ phase[c] = "load"
  /\ IF file = Missing THEN Goto(c, "running") /\ UNCHANGED config
     ELSE IF ~Readable(c) THEN Goto(c, "failed") /\ UNCHANGED config
     ELSE Goto(c, "running") /\ config' = [config EXCEPT ![c] = file.pair]
  /\ UNCHANGED <<file, env, given, pairs, quiet, starts>>

(* The command ends, or is killed at any point of its start.               *)
End(c) ==
  /\ phase[c] # "idle"
  /\ Goto(c, "idle")
  /\ UNCHANGED <<file, env, config, given, pairs, quiet, starts>>

Next == \E c \in Command : Start(c) \/ Persist(c) \/ Write(c) \/ Load(c) \/ End(c)

Spec == Init /\ [][Next]_vars

-----------------------------------------------------------------------------
(***************************************************************************)
(* Properties                                                              *)
(***************************************************************************)
(* A command that brings its credentials and a master key starts and runs  *)
(* with them, also after a command was killed while it wrote the vault and *)
(* whichever key the vault was written with, as long as no other command   *)
(* starts at the same time.                                                *)
GoodStartSucceeds ==
  \A c \in quiet :
    given[c] # NoPair /\ env[c] # None =>
      /\ phase[c] # "failed"
      /\ phase[c] = "running" => config[c] = given[c]

(* Whatever commands run at the same time, none works with the key of one  *)
(* configuration and the secret of another.                                *)
PairsStayTogether == \A c \in Command : phase[c] = "running" => config[c] \in pairs

(* A command without a master key does not run on stored credentials:      *)
(* build_context fails at once when a vault exists and no key is given.    *)
NoKeyNoCredentials ==
  \A c \in Command : phase[c] = "running" /\ env[c] = None => config[c] = NoPair

(* A command that loaded stored credentials has both of them: a missing one*)
(* is found at the start and not by the first request.                     *)
StartedWithBoth ==
  \A c \in Command :
    phase[c] = "running" => (config[c].key = None) = (config[c].secret = None)
=============================================================================
