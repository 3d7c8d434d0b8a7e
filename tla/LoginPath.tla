------------------------------ MODULE LoginPath ------------------------------
(***************************************************************************)
(* Requests on their way into the API: the rate limiter, and behind it for *)
(* a login the captcha and the password key.  The login handler itself is  *)
(* the business of modules outside this repository: the order of the two   *)
(* is an assumption, and what follows (accounts, sessions) is left out.    *)
(***************************************************************************)
EXTENDS RateLimit, OneTimeSecrets

ASSUME UsersAreRequests == Users \subseteq Requests

vars == <<limiter, secrets>>

Init == LimiterInit /\ SecretsInit

\* call_next reaches the handler unless the limiter answered 429
Enter(u) ==
    /\ step[u] = "idle" /\ passage[u] \in {"admitted", "unchecked"}
    /\ Begin(u, "captcha")

GoOn(u) ==
    /\ step[u] = "passed" /\ using[u] = "captcha"
    /\ Begin(u, "password_key")

Login(u) ==
    \/ Enter(u) \/ GoOn(u) \/ GetSecret(u)
    \/ \E right \in BOOLEAN : DeleteSecret(u, right)

Next ==
    \/ (Tick \/ \E r \in Requests : LimiterStep(r)) /\ UNCHANGED secrets
    \/ ((\E u \in Users : Login(u)) \/ (\E s \in Secrets : ExpireSecret(s))) /\ UNCHANGED limiter

Spec == Init /\ [][Next]_vars
=============================================================================
