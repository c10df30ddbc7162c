------------------------- MODULE DeviceGatewayProofs -------------------------
(***************************************************************************)
(* Proofs about DeviceGateway, for any binding of commands that satisfies  *)
(* GatewayAssumption: what the reported outcome says about the device, and *)
(* that a cash operation takes the steps of CashDevice only.               *)
(***************************************************************************)
EXTENDS DeviceGateway, TLAPS

\* How far the request got is known from the phase, and the reply fits it.
Progress ==
    /\ device = "idle" <=> ~sent
    /\ phase \in {"start", "connecting"} => ~sent
    /\ phase = "waiting" => sent
    /\ reply = "none" <=> phase # "over"
    /\ reply = "ok" => device = "moved"
    /\ reply = "refused" => device = "refused"
    /\ ~sent => reply \in {"none", "DEVICE_GATEWAY_UNAVAILABLE", "thrown"}

\* What a reply may be once a request with effects has been sent.
SentReplies ==
    sent /\ reply # "none" =>
        /\ operation \in CashOperations =>
              reply \in {"ok", "refused", "ADAPTER_OUTCOME_UNKNOWN"}
        /\ operation = "printReceipt" =>
              reply \in {"ok", "refused", "ADAPTER_OUTCOME_UNKNOWN",
                         "DEVICE_OUTCOME_UNKNOWN"}

GatewayInv == TypeOK /\ Progress /\ SentReplies

\* A binding classifies the command of every operation with effects.
LEMMA CommandClass ==
    ASSUME TypeOK
    PROVE  /\ operation \in CashOperations => command \in IndeterminateCommands
           /\ operation = "printReceipt" =>
                 command \in NonIdempotentCommands \ IndeterminateCommands
BY GatewayAssumption DEF GatewayAssumption, TypeOK, CashOperations, Operations

\* The recovery codes, before and after the send (recoveryFor).
LEMMA RecoveryFacts ==
    ASSUME TypeOK, NEW stage \in {"connect", "response", "protocol"}
    PROVE  /\ RecoveryCode(RecoveryFor(stage)) \in
                 {"ADAPTER_OUTCOME_UNKNOWN", "DEVICE_OUTCOME_UNKNOWN",
                  "DEVICE_GATEWAY_UNAVAILABLE"}
           /\ ~sent => RecoveryCode(RecoveryFor(stage)) = "DEVICE_GATEWAY_UNAVAILABLE"
           /\ sent /\ operation \in CashOperations =>
                 RecoveryCode(RecoveryFor(stage)) = "ADAPTER_OUTCOME_UNKNOWN"
           /\ sent /\ operation = "printReceipt" =>
                 RecoveryCode(RecoveryFor(stage)) = "DEVICE_OUTCOME_UNKNOWN"
BY CommandClass DEF RecoveryCode, RecoveryFor, TypeOK

\* An exchange that ends with a recovery keeps the invariant.
LEMMA RecoverStep ==
    ASSUME GatewayInv, NEW stage \in {"connect", "response", "protocol"},
           phase # "over", Recover(stage),
           UNCHANGED <<operation, command, sent, device>>,
           aborted' \in BOOLEAN, late' \in BOOLEAN
    PROVE  GatewayInv'
<1> DEFINE code == RecoveryCode(RecoveryFor(stage))
<1>1. /\ code \in {"ADAPTER_OUTCOME_UNKNOWN", "DEVICE_OUTCOME_UNKNOWN",
                   "DEVICE_GATEWAY_UNAVAILABLE"}
      /\ ~sent => code = "DEVICE_GATEWAY_UNAVAILABLE"
      /\ sent /\ operation \in CashOperations => code = "ADAPTER_OUTCOME_UNKNOWN"
      /\ sent /\ operation = "printReceipt" => code = "DEVICE_OUTCOME_UNKNOWN"
  BY RecoveryFacts DEF GatewayInv
<1>2. phase' = "over" /\ reply' = code
  BY DEF Recover, Finish
<1> HIDE DEF code
<1>3. TypeOK'
  BY <1>1, <1>2 DEF GatewayInv, TypeOK, Replies
<1>4. Progress'
  BY <1>1, <1>2 DEF GatewayInv, Progress
<1>5. SentReplies'
  BY <1>1, <1>2 DEF SentReplies, CashOperations
<1> QED
  BY <1>3, <1>4, <1>5 DEF GatewayInv

\* An exception is only thrown for a request that is not out, or that has no
\* effect.
LEMMA FailStep ==
    ASSUME GatewayInv, phase # "over", Fail,
           sent => operation \notin Effects,
           UNCHANGED <<operation, command, sent, device>>,
           aborted' \in BOOLEAN, late' \in BOOLEAN
    PROVE  GatewayInv'
<1>1. TypeOK'
  BY DEF GatewayInv, TypeOK, Replies, Fail
<1>2. Progress'
  BY DEF GatewayInv, Progress, Fail
<1>3. SentReplies'
  BY DEF SentReplies, Fail, Effects, CashOperations
<1> QED
  BY <1>1, <1>2, <1>3 DEF GatewayInv
-----------------------------------------------------------------------------
LEMMA GatewayInit ==
    ASSUME Init
    PROVE  GatewayInv
BY DEF Init, GatewayInv, TypeOK, Progress, SentReplies, Replies

LEMMA StartStep ==
    ASSUME GatewayInv, Start
    PROVE  GatewayInv'
<1>1. /\ phase = "start" /\ ~sent /\ aborted \in BOOLEAN /\ late \in BOOLEAN
      /\ UNCHANGED <<operation, command, sent, aborted, late, device>>
  BY DEF Start, GatewayInv, Progress, TypeOK
<1>2. CASE Fail
  BY <1>1, <1>2, FailStep
<1>3. CASE Recover("connect")
  BY <1>1, <1>3, RecoverStep
<1>4. CASE phase' = "connecting" /\ UNCHANGED reply
  BY <1>1, <1>4 DEF GatewayInv, TypeOK, Progress, SentReplies
<1> QED
  BY <1>2, <1>3, <1>4 DEF Start

LEMMA OnOpenStep ==
    ASSUME GatewayInv, NEW allowed \in BOOLEAN, NEW sends \in BOOLEAN,
           OnOpen(allowed, sends)
    PROVE  GatewayInv'
<1>1. /\ phase = "connecting" /\ ~sent /\ aborted \in BOOLEAN /\ late \in BOOLEAN
      /\ UNCHANGED <<operation, command, aborted, late>>
  BY DEF OnOpen, GatewayInv, Progress, TypeOK
<1>2. CASE ~late /\ allowed /\ sends
  <2>1. sent' = TRUE /\ device' = "open" /\ phase' = "waiting" /\ UNCHANGED reply
    BY <1>2 DEF OnOpen
  <2>2. TypeOK'
    BY <1>1, <2>1 DEF GatewayInv, TypeOK
  <2>3. Progress'
    BY <1>1, <2>1 DEF GatewayInv, Progress
  <2>4. SentReplies'
    BY <1>1, <2>1 DEF GatewayInv, Progress, SentReplies
  <2> QED
    BY <2>2, <2>3, <2>4 DEF GatewayInv
<1>3. CASE ~(~late /\ allowed /\ sends)
  <2>1. PICK stage \in {"connect", "protocol"} :
           Recover(stage) /\ UNCHANGED <<sent, device>>
    BY <1>3 DEF OnOpen
  <2> QED
    BY <1>1, <2>1, RecoverStep
<1> QED
  BY <1>2, <1>3

LEMMA OnMessageStep ==
    ASSUME GatewayInv, NEW message \in Answers(device), OnMessage(message)
    PROVE  GatewayInv'
<1>1. /\ phase = "waiting" /\ sent /\ aborted \in BOOLEAN /\ late \in BOOLEAN
      /\ UNCHANGED <<operation, command, sent, aborted, late, device>>
  BY DEF OnMessage, GatewayInv, Progress, TypeOK
<1>2. CASE Recover("response") \/ Recover("protocol")
  BY <1>1, <1>2, RecoverStep
<1>3. CASE message # "garbage" /\ Finish(message)
  <2>1. /\ message \in {"ADAPTER_OUTCOME_UNKNOWN", "ok", "refused"}
        /\ message = "ok" => device = "moved"
        /\ message = "refused" => device = "refused"
    BY <1>3 DEF Answers
  <2>2. phase' = "over" /\ reply' = message
    BY <1>3 DEF Finish
  <2>3. TypeOK'
    BY <1>1, <2>1, <2>2 DEF GatewayInv, TypeOK, Replies
  <2>4. Progress'
    BY <1>1, <2>1, <2>2 DEF GatewayInv, Progress
  <2>5. SentReplies'
    BY <1>1, <2>1, <2>2 DEF SentReplies
  <2> QED
    BY <2>3, <2>4, <2>5 DEF GatewayInv
<1> QED
  BY <1>2, <1>3 DEF OnMessage

LEMMA OnAbortStep ==
    ASSUME GatewayInv, OnAbort
    PROVE  GatewayInv'
<1> DEFINE code == RecoveryCode(RecoveryFor("response"))
<1>1. /\ phase \in {"connecting", "waiting"} /\ phase # "over"
      /\ aborted' \in BOOLEAN /\ late' \in BOOLEAN
      /\ UNCHANGED <<operation, command, sent, device>>
  BY DEF OnAbort, GatewayInv, TypeOK
<1>2. CASE Finish(code)
  BY <1>1, <1>2, RecoverStep DEF Recover
<1>3. CASE /\ ~(sent /\ RecoveryFor("response") # "safe_retry"
                     /\ SurvivesAbort(code))
           /\ Fail
  <2>1. sent => operation \notin Effects
    <3> SUFFICES ASSUME sent, operation \in Effects PROVE FALSE
      OBVIOUS
    <3>1. RecoveryFor("response") # "safe_retry"
      BY CommandClass DEF GatewayInv, RecoveryFor, Effects
    <3>2. SurvivesAbort(code)
      BY RecoveryFacts DEF GatewayInv, SurvivesAbort, Effects
    <3> QED
      BY <1>3, <3>1, <3>2
  <2> QED
    BY <1>1, <1>3, <2>1, FailStep
<1> QED
  BY <1>2, <1>3 DEF OnAbort

LEMMA GatewayStep ==
    ASSUME GatewayInv, [Next]_vars
    PROVE  GatewayInv'
<1>1. CASE UNCHANGED vars
  BY <1>1 DEF vars, GatewayInv, TypeOK, Progress, SentReplies
<1>2. CASE Start
  BY <1>2, StartStep
<1>3. CASE \E allowed, sends \in BOOLEAN : OnOpen(allowed, sends)
  BY <1>3, OnOpenStep
<1>4. CASE \E message \in Answers(device) : OnMessage(message)
  BY <1>4, OnMessageStep
<1>5. CASE ConnectionLost \/ ConnectTimeout \/ ResponseTimeout
  <2>1. PICK stage \in {"connect", "response"} :
           /\ Recover(stage) /\ phase # "over"
           /\ UNCHANGED <<operation, command, sent, aborted, late, device>>
    BY <1>5 DEF ConnectionLost, ConnectTimeout, ResponseTimeout
  <2>2. aborted' \in BOOLEAN /\ late' \in BOOLEAN
    BY <2>1 DEF GatewayInv, TypeOK
  <2> QED
    BY <2>1, <2>2, RecoverStep
<1>6. CASE OnAbort
  BY <1>6, OnAbortStep
<1>7. CASE Deadline
  BY <1>7 DEF Deadline, GatewayInv, TypeOK, Progress, SentReplies
<1>8. CASE DeviceActs
  BY <1>8 DEF DeviceActs, GatewayInv, TypeOK, Progress, SentReplies
<1> QED
  BY <1>1, <1>2, <1>3, <1>4, <1>5, <1>6, <1>7, <1>8 DEF Next

LEMMA SpecGatewayInv == Spec => []GatewayInv
<1>1. Init => GatewayInv
  BY GatewayInit
<1>2. GatewayInv /\ [Next]_vars => GatewayInv'
  BY GatewayStep
<1> QED
  BY <1>1, <1>2, PTL DEF Spec
-----------------------------------------------------------------------------
\* The state always has its type, whatever commands a deployment binds.
THEOREM SpecGatewayTypeOK == Spec => []TypeOK
<1>1. GatewayInv => TypeOK
  BY DEF GatewayInv
<1> QED
  BY <1>1, SpecGatewayInv, PTL

\* For any binding of commands, the transport recommends a retry of a cash or
\* print operation only when its request never left (recoveryFor).
THEOREM SpecRetriedOnlyUnsent == Spec => []RetriedOnlyUnsent
<1>1. GatewayInv => RetriedOnlyUnsent
  BY DEF GatewayInv, Progress, SentReplies, RetriedOnlyUnsent, Effects
<1> QED
  BY <1>1, SpecGatewayInv, PTL

\* For any binding of commands, execute never throws once a cash or print
\* request is out (onAbort, isIndeterminatePostSendFailure).
THEOREM SpecThrownOnlyUnsent == Spec => []ThrownOnlyUnsent
<1>1. GatewayInv => ThrownOnlyUnsent
  BY DEF GatewayInv, Progress, SentReplies, ThrownOnlyUnsent, Effects
<1> QED
  BY <1>1, SpecGatewayInv, PTL
-----------------------------------------------------------------------------
(***************************************************************************)
(* A cash operation implements CashDevice.                                 *)
(***************************************************************************)
\* A step settles the operation, begins it, sends the request, is the
\* device's, or touches nothing the views depend on.
Settling == /\ phase # "over" /\ phase' = "over"
            /\ UNCHANGED <<operation, sent, device>>
Beginning == /\ phase = "start" /\ phase' = "connecting"
             /\ UNCHANGED <<operation, sent, device, reply>>
Sending == /\ phase = "connecting" /\ phase' = "waiting"
           /\ ~sent /\ sent' /\ device' = "open"
           /\ UNCHANGED <<operation, reply>>
Acting == /\ device = "open" /\ device' \in {"moved", "refused"}
          /\ UNCHANGED <<operation, phase, sent, reply>>
Idling == UNCHANGED <<operation, phase, sent, device, reply>>

LEMMA StepShapes ==
    ASSUME GatewayInv, [Next]_vars
    PROVE  Settling \/ Beginning \/ Sending \/ Acting \/ Idling
<1>1. CASE UNCHANGED vars \/ Deadline
  BY <1>1 DEF vars, Deadline, Idling
<1>2. CASE Start
  BY <1>2 DEF Start, Settling, Beginning, Fail, Recover, Finish
<1>3. CASE \E allowed, sends \in BOOLEAN : OnOpen(allowed, sends)
  BY <1>3 DEF OnOpen, Settling, Sending, Recover, Finish, GatewayInv, Progress
<1>4. CASE \E message \in Answers(device) : OnMessage(message)
  BY <1>4 DEF OnMessage, Settling, Recover, Finish
<1>5. CASE ConnectionLost \/ ConnectTimeout \/ ResponseTimeout
  BY <1>5 DEF ConnectionLost, ConnectTimeout, ResponseTimeout, Settling,
              Recover, Finish
<1>6. CASE OnAbort
  BY <1>6 DEF OnAbort, Settling, Fail, Finish
<1>7. CASE DeviceActs
  BY <1>7 DEF DeviceActs, Acting
<1> QED
  BY <1>1, <1>2, <1>3, <1>4, <1>5, <1>6, <1>7 DEF Next

\* The views of the initial state are the initial state of CashDevice.
LEMMA ViewsInit ==
    ASSUME Init
    PROVE  CashRequest!Init
BY DEF Init, CashRequest!Init, RequestView, ToldView, Unasked

\* Every step of the gateway is a step of CashDevice, or none.
LEMMA ViewsStep ==
    ASSUME GatewayInv, GatewayInv', [Next]_vars
    PROVE  [CashRequest!Next]_(CashRequest!vars)
<1>1. CASE operation \notin CashOperations
  <2>1. operation' = operation
    BY StepShapes DEF Settling, Beginning, Sending, Acting, Idling
  <2>2. /\ RequestView = "idle" /\ RequestView' = "idle"
        /\ ToldView = "none" /\ ToldView' = "none"
    BY <1>1, <2>1 DEF RequestView, ToldView, Unasked
  <2> QED
    BY <2>2 DEF CashRequest!vars
<1>2. CASE operation \in CashOperations
  <2>1. CASE Settling
    <3>1. CASE sent
      <4>1. /\ reply = "none" /\ phase = "waiting" /\ sent' /\ device # "idle"
            /\ operation' = operation /\ device' = device
            /\ reply' \in {"ok", "refused", "ADAPTER_OUTCOME_UNKNOWN"}
            /\ reply' = "ok" => device = "moved"
            /\ reply' = "refused" => device = "refused"
        BY <1>2, <2>1, <3>1 DEF Settling, GatewayInv, Progress, SentReplies, TypeOK
      <4>2. /\ RequestView = device /\ RequestView' = device
            /\ ToldView = "none"
        BY <1>2, <2>1, <3>1, <4>1 DEF Settling, RequestView, ToldView, Unasked
      <4>3. ToldView' = CASE reply' = "ok" -> "moved"
                          [] reply' = "ADAPTER_OUTCOME_UNKNOWN" -> "unknown"
                          [] OTHER -> "refused"
        BY <1>2, <4>1 DEF ToldView
      <4>4. CashRequest!TellOutcome \/ CashRequest!TellUnknown
        BY <4>1, <4>2, <4>3 DEF CashRequest!TellOutcome, CashRequest!TellUnknown
      <4> QED
        BY <4>4 DEF CashRequest!Next, CashRequest!Tell
    <3>2. CASE ~sent
      <4>1. /\ reply = "none" /\ ~sent' /\ operation' = operation
            /\ phase # "over" /\ phase' = "over"
            /\ reply' \in {"DEVICE_GATEWAY_UNAVAILABLE", "thrown"}
        BY <2>1, <3>2 DEF Settling, GatewayInv, Progress
      <4>2. /\ RequestView \in {"idle", "open"} /\ RequestView' = "refused"
            /\ ToldView = "none" /\ ToldView' = "refused"
        BY <1>2, <3>2, <4>1 DEF RequestView, ToldView, Unasked
      <4> QED
        BY <4>2 DEF CashRequest!Next, CashRequest!Withdraw
    <3> QED
      BY <3>1, <3>2
  <2>2. CASE Beginning
    <3>1. reply = "none" /\ reply' = "none" /\ ~sent /\ ~sent'
      BY <2>2 DEF Beginning, GatewayInv, Progress
    <3>2. /\ RequestView = "idle" /\ RequestView' = "open"
          /\ ToldView = "none" /\ ToldView' = "none"
      BY <1>2, <2>2, <3>1 DEF Beginning, RequestView, ToldView, Unasked
    <3> QED
      BY <3>2 DEF CashRequest!Next, CashRequest!Ask
  <2>3. CASE Sending
    <3>1. reply = "none" /\ reply' = "none"
      BY <2>3 DEF Sending, GatewayInv, Progress
    <3>2. /\ RequestView = "open" /\ RequestView' = "open"
          /\ ToldView = "none" /\ ToldView' = "none"
      BY <1>2, <2>3, <3>1 DEF Sending, RequestView, ToldView, Unasked
    <3> QED
      BY <3>2 DEF CashRequest!vars
  <2>4. CASE Acting
    <3>1. sent /\ sent' /\ phase # "start"
      BY <2>4 DEF Acting, GatewayInv, Progress
    <3>2. /\ RequestView = device /\ RequestView' = device'
          /\ ToldView' = ToldView
      BY <1>2, <2>4, <3>1 DEF Acting, RequestView, ToldView, Unasked
    <3> QED
      BY <2>4, <3>2 DEF Acting, CashRequest!Next, CashRequest!Acts
  <2>5. CASE Idling
    <3>1. RequestView' = RequestView /\ ToldView' = ToldView
      BY <2>5 DEF Idling, RequestView, ToldView, Unasked
    <3> QED
      BY <3>1 DEF CashRequest!vars
  <2> QED
    BY <2>1, <2>2, <2>3, <2>4, <2>5, StepShapes
<1> QED
  BY <1>1, <1>2

\* For any binding of commands, a cash operation through the gateway takes the
\* steps of CashDevice only: the code it settles with is true of the device,
\* and stays true (execute, exchange).
THEOREM GatewayImplementsCashDevice ==
    Spec => CashRequest!Init /\ [][CashRequest!Next]_(CashRequest!vars)
<1>1. Init => CashRequest!Init
  BY ViewsInit
<1>2. GatewayInv /\ GatewayInv' /\ [Next]_vars
        => [CashRequest!Next]_(CashRequest!vars)
  BY ViewsStep
<1> QED
  BY <1>1, <1>2, SpecGatewayInv, PTL DEF Spec
=============================================================================
