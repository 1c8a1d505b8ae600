----------------------------- MODULE ErrorKinds -----------------------------
(***************************************************************************)
(* The error model every ResourceAccess component shares                   *)
(* (framework-go/resourceaccess/errors.go), how a manager's activity maps  *)
(* it for Temporal (framework-go/manager/temporal.go), and the GitHub      *)
(* client's classification of REST statuses (github.go).                   *)
(***************************************************************************)
EXTENDS Naturals

RetryableKinds == {"Transient", "RateLimited", "Infrastructure"}
TerminalKinds == {"Unknown", "Auth", "NotFound", "Conflict", "QuotaExhausted",
                  "ContentPolicy", "ContractMisuse"}
Kinds == RetryableKinds \union TerminalKinds

(* A status of do() is 0 when the transport failed, and a 403 that is a    *)
(* rate limit never reaches ClassifyStatus: do() answers RateLimited.      *)
TransportFailed == 0
Succeeded(status) == status \in 200 .. 299

ClassifyStatus(status) ==
    CASE status \in {401, 403} -> "Auth"
      [] status = 404 -> "NotFound"
      [] status \in {405, 409} -> "Conflict"
      [] status = 422 -> "ContractMisuse"
      [] status = TransportFailed \/ status = 429 \/ status >= 500 -> "Transient"
      [] OTHER -> "Infrastructure"

(* The attempt of an activity that failed with this kind is followed by    *)
(* another: MapError tags the error by its Retryable flag, and a preset    *)
(* can only take retries away, by kind or by number.                       *)
Retried(kind, terminalRA, attempt, maxAttempts) ==
    /\ kind \in RetryableKinds
    /\ kind \notin terminalRA
    /\ maxAttempts = 0 \/ attempt < maxAttempts
=============================================================================
