--------------------------- MODULE OneTimeSecrets ---------------------------
(***************************************************************************)
(* The secrets of a login, app/core/security/transport.py: a captcha and a *)
(* password key, both created in Redis with a TTL, read once and deleted.  *)
(* verify_captcha deletes between reading and comparing, decrypt_passwords *)
(* deletes in a finally block after decrypting; handlers interleave        *)
(* between the commands.                                                   *)
(***************************************************************************)
EXTENDS Naturals

CONSTANTS Users,      \* handlers that use secrets
          None

Secrets == {"captcha", "password_key"}

VARIABLES alive,      \* secrets present in Redis
          step,       \* step[u]: "idle", "get", "delete", "passed", "failed"
          using,      \* using[u]: the secret u is at
          raw,        \* raw[u]: what its GET returned
          used,       \* used[s]: users who got something out of s
          burnt,      \* history: secrets some user has deleted
          late        \* history: late[u]: secrets burnt before u asked for them

secrets == <<alive, step, using, raw, used, burnt, late>>

SecretsInit ==
    /\ alive = Secrets
    /\ step = [u \in Users |-> "idle"]
    /\ using = [u \in Users |-> None]
    /\ raw = [u \in Users |-> FALSE]
    /\ used = [s \in Secrets |-> {}]
    /\ burnt = {}
    /\ late = [u \in Users |-> {}]

Begin(u, s) ==
    /\ step' = [step EXCEPT ![u] = "get"]
    /\ using' = [using EXCEPT ![u] = s]
    /\ late' = [late EXCEPT ![u] = @ \cup ({s} \cap burnt)]
    /\ UNCHANGED <<alive, raw, used, burnt>>

\* redis.get
GetSecret(u) ==
    /\ step[u] = "get"
    /\ raw' = [raw EXCEPT ![u] = using[u] \in alive]
    \* without a key decrypt_passwords raises at once, verify_captcha deletes first
    /\ step' = [step EXCEPT ![u] =
                   IF using[u] = "password_key" /\ using[u] \notin alive THEN "failed" ELSE "delete"]
    /\ UNCHANGED <<alive, using, used, burnt, late>>

MutantKeepsWrong(u, right) ==
    /\ step[u] = "delete"
    /\ alive' = IF right THEN alive \ {using[u]} ELSE alive
    /\ burnt' = burnt \cup {using[u]}
    /\ used' = [used EXCEPT ![using[u]] = IF raw[u] THEN @ \cup {u} ELSE @]
    /\ step' = [step EXCEPT ![u] = IF raw[u] /\ right THEN "passed" ELSE "failed"]
    /\ UNCHANGED <<using, raw, late>>

\* redis.delete; right: the captcha's value, or every ciphertext, is right.  A
\* wrong one deletes the secret all the same.
DeleteSecret(u, right) ==
    /\ step[u] = "delete"
    /\ alive' = alive \ {using[u]}
    /\ burnt' = burnt \cup {using[u]}
    /\ used' = [used EXCEPT ![using[u]] = IF raw[u] THEN @ \cup {u} ELSE @]
    /\ step' = [step EXCEPT ![u] = IF raw[u] /\ right THEN "passed" ELSE "failed"]
    /\ UNCHANGED <<using, raw, late>>

\* the TTL of a secret runs out
ExpireSecret(s) ==
    /\ s \in alive
    /\ alive' = alive \ {s}
    /\ UNCHANGED <<step, using, raw, used, burnt, late>>

\* A captcha is compared with, and a password key decrypts for, only requests
\* that asked before anyone had finished with it: one guess, or several that
\* overlap, and a wrong guess uses it up as a right one does.
OneUse == \A s \in Secrets : \A u \in used[s] : s \notin late[u]
=============================================================================
