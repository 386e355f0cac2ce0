---------------------------- MODULE AtomicApply ----------------------------
(***************************************************************************)
(* What apply and rollback promise somebody who runs one command at a time *)
(* and looks at the unit files, at state.json and at the backups between   *)
(* commands only: a command takes effect as a whole or, with exit code 4,  *)
(* not at all; only a command that was killed, or whose error nobody       *)
(* handled (exit 1, 5), may stop half way, and then every file is the old  *)
(* one, one the command wrote, or one cut short.  A backup once described  *)
(* by a manifest restores exactly what the command found.                  *)
(***************************************************************************)
CONSTANTS Path, Request, Id, Absent, Torn, None,
          Target,     \* request |-> [paths it writes -> final contents]
          Written     \* request |-> [paths it writes -> all contents written]

VARIABLES config,   \* the unit files
          last,     \* state.json: [profile, backup_id], or Absent, or Torn
          undo,     \* id |-> what a rollback to id puts back, Absent, or Torn
          outcome   \* exit code of the last command

vars == <<config, last, undo, outcome>>

Init ==
  /\ last = Absent
  /\ undo = [id \in Id |-> Absent]
  /\ outcome = 0

After(req) ==
  [ path \in Path |-> IF path \in DOMAIN Target[req]
                      THEN Target[req][path] ELSE config[path] ]

\* What the apply of req found at the paths it writes.
Before(req) == [path \in DOMAIN Target[req] |-> config[path]]

Applied(req) ==
  /\ \E id \in Id :
       /\ undo[id] = Absent
       /\ undo' = [undo EXCEPT ![id] = Before(req)]
       /\ last' = [profile |-> req.profile, backup_id |-> id]
  /\ config' = After(req)
  /\ outcome' = 0

NothingToApply ==
  /\ outcome' = 0
  /\ UNCHANGED <<config, last, undo>>

ApplyUndone ==
  /\ outcome' = 4
  /\ UNCHANGED <<config, last, undo>>

\* The manifest is written after the files, the state after the manifest.
ApplyStopped(req) ==
  /\ \A path \in Path :
       \/ config'[path] = config[path]
       \/ /\ path \in DOMAIN Target[req]
          /\ config'[path] \in Written[req][path] \union {Torn}
  /\ \/ UNCHANGED undo
     \/ /\ config' = After(req)
        /\ \E id \in Id :
             /\ undo[id] = Absent
             /\ undo' \in { [undo EXCEPT ![id] = Torn],
                            [undo EXCEPT ![id] = Before(req)] }
  /\ last' \in {last, Torn}
  /\ last' # last => undo' # undo
  /\ outcome' \in {1, 5, 137}

Restored(id) ==
  [ path \in Path |-> IF path \in DOMAIN undo[id]
                      THEN undo[id][path] ELSE config[path] ]

RolledBack(id) ==
  /\ undo[id] \notin {Absent, Torn}
  /\ config' = Restored(id)
  /\ last' = [profile |-> None, backup_id |-> None]
  /\ outcome' = 0
  /\ UNCHANGED undo

RollbackStopped(id) ==
  /\ undo[id] \notin {Absent, Torn}
  /\ \A path \in Path :
       config'[path] \in {config[path], Restored(id)[path], Torn}
  /\ last' = last \/ (last' = Torn /\ config' = Restored(id))
  /\ outcome' \in {1, 137}
  /\ UNCHANGED undo

RollbackRefused ==
  /\ outcome' \in {1, 137}
  /\ UNCHANGED <<config, last, undo>>

Next ==
  \/ NothingToApply \/ ApplyUndone \/ RollbackRefused
  \/ \E req \in Request : Applied(req) \/ ApplyStopped(req)
  \/ \E id \in Id : RolledBack(id) \/ RollbackStopped(id)

Spec == Init /\ [][Next]_vars
=============================================================================
