------------------------------- MODULE Unlock -------------------------------
(***************************************************************************)
(* Which sessions one call of the daemon's _unlock_sessions opens, and     *)
(* which configuration files let the daemon start at all                   *)
(* (src/phonect/daemon.py, src/phonect/config.py).  The call blocks the    *)
(* event loop until it returns or raises, so it is a function of what the  *)
(* commands it runs do.                                                    *)
(***************************************************************************)
EXTENDS Naturals, FiniteSets

CONSTANTS
    Sessions,   \* what loginctl lists
    Mine        \* those of the daemon's user on seat0

ASSUME SessionAssumption == IsFiniteSet(Sessions) /\ Mine \subseteq Sessions

(***************************************************************************)
(* Configuration.  A file is a record of what it says under the keys that  *)
(* matter here; a key it does not have is "absent".  The command is empty, *)
(* has a blank executable, is a usable argv, or is no list of strings.     *)
(***************************************************************************)
NoFile == [backend |-> "absent", command |-> "absent",
           deviceOnStart |-> "absent", daemonOnStart |-> "absent"]

Setting(file, key, default) == IF file[key] = "absent" THEN default ELSE file[key]

\* The fields of DaemonConfig after load_config has read the file: [daemon]
\* goes over [device].
Backend(file) == Setting(file, "backend", "loginctl")
Command(file) == Setting(file, "command", "empty")
UnlockOnStart(file) ==
    Setting(file, "daemonOnStart", Setting(file, "deviceOnStart", "false")) = "true"

\* validate_unlock_config does not raise.
ValidUnlockConfig(file) ==
    /\ Backend(file) \in {"loginctl", "command"}
    /\ Command(file) # "notstrings"
    /\ Backend(file) = "command" => Command(file) = "argv"
    /\ Backend(file) = "loginctl" => Command(file) = "empty"

(***************************************************************************)
(* Unlocking                                                               *)
(***************************************************************************)
\* How a command ends: with status 0, with another, by its timeout of 5 s,
\* because its executable does not exist, or by another OSError of subprocess.
Outcomes == {"ok", "status", "timeout", "notfound", "oserror"}

\* Fault: every session that is listed.
EverySession == Sessions

\* _get_active_session_ids, when list-sessions works.
ActiveSessions == Mine

\* In which order they may be listed.
Orders ==
    {o \in [1..Cardinality(ActiveSessions) -> ActiveSessions] :
        \A i, j \in DOMAIN o : o[i] = o[j] => i = j}

\* Fault: the loop ends at the first session that cannot be unlocked.
AnyFailure == Outcomes \ {"ok"}

\* Outcomes that leave the loop of _unlock_loginctl_sessions: an OSError that is
\* not FileNotFoundError propagates to the handler, after _handle_client has
\* noted the result of the handshake.
LeavesLoop == {"oserror"}

\* The sessions that loop gets to, if result says how the command for each ends.
Tried(order, result) ==
    {order[i] : i \in {n \in DOMAIN order :
        \A m \in 1..(n - 1) : result[order[m]] \notin LeavesLoop}}

\* list-sessions itself may fail: it then lists nothing, or raises.
LoginctlOpens(listing, order, result) ==
    IF listing = "ok" THEN {s \in Tried(order, result) : result[s] = "ok"} ELSE {}

\* _unlock_command runs the configured argv once and swallows every OSError.
\* The command is the user's; that it opens the user's sessions is assumed.
CommandOpens(outcome) == IF outcome = "ok" THEN Mine ELSE {}

\* _unlock_sessions.
Opens(file, listing, order, result, outcome) ==
    IF Backend(file) = "command" THEN CommandOpens(outcome)
                                 ELSE LoginctlOpens(listing, order, result)
=============================================================================
