---------------------------- MODULE DeviceGateway ----------------------------
(***************************************************************************)
(* One device operation through the gateway: DeviceGatewayClient.execute   *)
(* and the WebSocket transport's exchange, between a caller that may abort *)
(* at any time and a device that acts whenever it gets the request.        *)
(*                                                                         *)
(* Each event listener of the socket, each timer and the abort listener is *)
(* an action; the client resumes in the turn in which the exchange         *)
(* settles, so that is part of the action that settles it.                 *)
(***************************************************************************)
EXTENDS Naturals

CONSTANTS
    WireCommands,           \* per operation, the commands it may be bound to
    IndeterminateCommands,  \* the policy's state-changing cash commands
    NonIdempotentCommands   \* the policy's other non-repeatable commands

CashOperations == {"dispense", "accept"}
Operations == {"getStatus", "printReceipt", "readCard"} \cup CashOperations

\* Custom command names extend the policy: the deployment classifies them.
ASSUME GatewayAssumption ==
    /\ DOMAIN WireCommands = Operations
    /\ \A k \in CashOperations : WireCommands[k] \subseteq IndeterminateCommands
    /\ WireCommands["printReceipt"] \subseteq NonIdempotentCommands
    /\ \A k \in Operations \ CashOperations :
          WireCommands[k] \cap IndeterminateCommands = {}

VARIABLES
    operation,  \* what the adapter was asked to do
    command,    \* the command it is bound to
    phase,      \* start, connecting, waiting (for the response), over
    sent,       \* exchange: the request was handed to the socket
    aborted,    \* the caller's signal
    late,       \* the deadline of the operation has elapsed
    device,     \* what the device made of the request
    reply       \* what execute settled with

vars == <<operation, command, phase, sent, aborted, late, device, reply>>

\* Settled answers of the device, the three recovery codes of the transport,
\* and "thrown" when execute rejects.
Replies == {"none", "ok", "refused", "ADAPTER_OUTCOME_UNKNOWN",
            "DEVICE_OUTCOME_UNKNOWN", "DEVICE_GATEWAY_UNAVAILABLE", "thrown"}

Init ==
    /\ operation \in Operations
    /\ command \in WireCommands[operation]
    /\ phase = "start"
    /\ sent = FALSE
    /\ aborted \in BOOLEAN
    /\ late \in BOOLEAN
    /\ device = "idle"
    /\ reply = "none"
-----------------------------------------------------------------------------
\* Faulty variant: an unreadable response is left to the operator.
RecoveryByPhase(failedPhase) ==
    IF ~sent THEN "safe_retry"
    ELSE IF failedPhase = "protocol" THEN "operator_review"
    ELSE IF command \in IndeterminateCommands THEN "manual_reconciliation"
    ELSE IF command \in NonIdempotentCommands THEN "operator_review"
    ELSE "safe_retry"

\* Faulty variant: only cash commands have effects.
RecoveryOfCash(failedPhase) ==
    IF ~sent THEN "safe_retry"
    ELSE IF command \in IndeterminateCommands THEN "manual_reconciliation"
    ELSE IF failedPhase = "protocol" THEN "operator_review"
    ELSE "safe_retry"

\* recoveryFor: a command that may have changed something is never retried.
RecoveryFor(failedPhase) ==
    IF ~sent THEN "safe_retry"
    ELSE IF command \in IndeterminateCommands THEN "manual_reconciliation"
    ELSE IF failedPhase = "protocol" \/ command \in NonIdempotentCommands
    THEN "operator_review"
    ELSE "safe_retry"

\* recoveryResponse: the code the recovery is reported with.
RecoveryCode(recovery) ==
    CASE recovery = "manual_reconciliation" -> "ADAPTER_OUTCOME_UNKNOWN"
      [] recovery = "operator_review"       -> "DEVICE_OUTCOME_UNKNOWN"
      [] OTHER                              -> "DEVICE_GATEWAY_UNAVAILABLE"

\* isIndeterminatePostSendFailure: the answers execute reports even though the
\* caller has aborted.  It goes by the operation, not by the command.
SurvivesAbort(code) ==
    \/ operation \in CashOperations /\ code = "ADAPTER_OUTCOME_UNKNOWN"
    \/ operation = "printReceipt" /\ code = "DEVICE_OUTCOME_UNKNOWN"

\* The exchange resolves with a code, which execute returns.
Finish(code) ==
    /\ phase' = "over"
    /\ reply' = code

Recover(failedPhase) == Finish(RecoveryCode(RecoveryFor(failedPhase)))

\* The exchange, or execute before it, rejects.
Fail ==
    /\ phase' = "over"
    /\ reply' = "thrown"
-----------------------------------------------------------------------------
\* execute and exchange up to the creation of the socket, which fails or is
\* not even tried when the deadline has elapsed.
Start ==
    /\ phase = "start"
    /\ \/ aborted /\ Fail
       \/ ~aborted /\ Fail   \* the request does not fit maxRequestBytes
       \/ ~aborted /\ Recover("connect")
       \/ ~aborted /\ ~late /\ phase' = "connecting" /\ UNCHANGED reply
    /\ UNCHANGED <<operation, command, sent, aborted, late, device>>

\* onOpen: the connection is up; an expired deadline, a subprotocol that is
\* not allowed and a failing send end the operation before it was sent.
OnOpen(allowed, sends) ==
    /\ phase = "connecting"
    /\ IF ~late /\ allowed /\ sends
       THEN /\ sent' = TRUE
            /\ device' = "open"
            /\ phase' = "waiting"
            /\ UNCHANGED reply
       ELSE /\ Recover(IF ~late /\ ~allowed THEN "protocol" ELSE "connect")
            /\ UNCHANGED <<sent, device>>
    /\ UNCHANGED <<operation, command, aborted, late>>

\* onMessage: the response of the device, or something that is none.
OnMessage(message) ==
    /\ phase = "waiting"
    /\ IF late THEN Recover("response")
       ELSE IF message = "garbage" THEN Recover("protocol")
       ELSE Finish(message)
    /\ UNCHANGED <<operation, command, sent, aborted, late, device>>

\* What the device may truthfully say; anything may arrive damaged.
Answers(state) ==
    {"garbage", "ADAPTER_OUTCOME_UNKNOWN"} \cup
    (CASE state = "moved"   -> {"ok"}
       [] state = "refused" -> {"refused"}
       [] OTHER             -> {})

\* onError, onClose: the socket fails, before or after the send.
ConnectionLost ==
    /\ phase \in {"connecting", "waiting"}
    /\ Recover(IF sent THEN "response" ELSE "connect")
    /\ UNCHANGED <<operation, command, sent, aborted, late, device>>

ConnectTimeout ==
    /\ phase = "connecting"
    /\ Recover("connect")
    /\ UNCHANGED <<operation, command, sent, aborted, late, device>>

ResponseTimeout ==
    /\ phase = "waiting"
    /\ Recover("response")
    /\ UNCHANGED <<operation, command, sent, aborted, late, device>>

\* Faulty variant: an abort always rejects.
AbortRejects ==
    /\ phase \in {"connecting", "waiting"} /\ ~aborted
    /\ aborted' = TRUE
    /\ Fail
    /\ UNCHANGED <<operation, command, sent, late, device>>

\* onAbort: a request that can be repeated is given up with an error; for any
\* other the exchange resolves, but execute, resuming with the signal aborted,
\* only returns the codes that survive.
OnAbort ==
    LET recovery == RecoveryFor("response")
    IN  /\ phase \in {"connecting", "waiting"} /\ ~aborted
        /\ aborted' = TRUE
        /\ IF /\ sent /\ recovery # "safe_retry"
              /\ SurvivesAbort(RecoveryCode(recovery))
           THEN Finish(RecoveryCode(recovery))
           ELSE Fail
        /\ UNCHANGED <<operation, command, sent, late, device>>

Deadline ==
    /\ ~late
    /\ late' = TRUE
    /\ UNCHANGED <<operation, command, phase, sent, aborted, device, reply>>

\* The device carries out or refuses a request it has received, whether or
\* not anybody still waits for it.
DeviceActs ==
    /\ device = "open"
    /\ device' \in {"moved", "refused"}
    /\ UNCHANGED <<operation, command, phase, sent, aborted, late, reply>>

Next ==
    \/ Start
    \/ \E allowed, sends \in BOOLEAN : OnOpen(allowed, sends)
    \/ \E message \in Answers(device) : OnMessage(message)
    \/ ConnectionLost
    \/ ConnectTimeout
    \/ ResponseTimeout
    \/ OnAbort
    \/ Deadline
    \/ DeviceActs

\* exchange arms a timer for the connection and one for the response.
Fairness == WF_vars(Start) /\ WF_vars(ConnectTimeout) /\ WF_vars(ResponseTimeout)

Spec == Init /\ [][Next]_vars /\ Fairness
-----------------------------------------------------------------------------
(***************************************************************************)
(* Correctness.                                                            *)
(***************************************************************************)
TypeOK ==
    /\ operation \in Operations
    /\ command \in WireCommands[operation]
    /\ phase \in {"start", "connecting", "waiting", "over"}
    /\ {sent, aborted, late} \subseteq BOOLEAN
    /\ device \in {"idle", "open", "moved", "refused"}
    /\ reply \in Replies

\* The operations a second request of which does harm.
Effects == CashOperations \cup {"printReceipt"}

\* A repetition is recommended for a cash or print operation only when its
\* request never left the terminal (docs/device-gateway.md: "Connection
\* failures before send() are safe to retry").
RetriedOnlyUnsent ==
    reply = "DEVICE_GATEWAY_UNAVAILABLE" /\ operation \in Effects => device = "idle"

\* An exception, after which nothing is known, never hides a cash or print
\* request that is out, whenever the caller aborts.
ThrownOnlyUnsent ==
    reply = "thrown" /\ operation \in Effects => device = "idle"

\* A sent request the transport classifies as non-repeatable is reported as
\* such (docs/device-gateway.md: "or configured non-idempotent command").
ReviewReported ==
    sent /\ command \in NonIdempotentCommands => reply # "thrown"
-----------------------------------------------------------------------------
(***************************************************************************)
(* A cash operation through the gateway is an abstract cash request.       *)
(***************************************************************************)
Unasked == operation \notin CashOperations \/ phase = "start"

RequestView ==
    CASE Unasked                                 -> "idle"
      [] ~Unasked /\ ~sent /\ phase = "over"     -> "refused"
      [] ~Unasked /\ ~sent /\ phase # "over"     -> "open"
      [] OTHER                                   -> device

ToldView ==
    CASE reply = "none" \/ operation \notin CashOperations -> "none"
      [] reply = "ok" /\ operation \in CashOperations      -> "moved"
      [] reply = "ADAPTER_OUTCOME_UNKNOWN" /\ operation \in CashOperations -> "unknown"
      [] OTHER                                           -> "refused"

CashRequest == INSTANCE CashDevice WITH request <- RequestView, told <- ToldView

\* Through the gateway a dispense or accept keeps the promise of CashDevice:
\* "moved" and "refused" are true for ever, everything else is "unknown".
IsCashRequest == CashRequest!Spec
=============================================================================
