----------------------------- MODULE KafkaErrors -----------------------------
(***************************************************************************)
(* error_map.rs and KafkaError::is_retryable: what becomes of an error of  *)
(* the driver.  The message that goes with an error is left out.           *)
(***************************************************************************)

\* The variants of rskafka's Error that are told apart; code is the protocol
\* error of a ServerError, and "" in all others.
Server(code)    == [variant |-> "ServerError", code |-> code]
Driver(variant) == [variant |-> variant, code |-> ""]

TransientCodes == {
  "UnknownServerError", "LeaderNotAvailable", "NotLeaderOrFollower", "RequestTimedOut",
  "BrokerNotAvailable", "ReplicaNotAvailable", "NetworkException", "KafkaStorageError",
  "NotEnoughReplicas", "NotEnoughReplicasAfterAppend", "StaleControllerEpoch",
  "NotController", "UnknownTopicOrPartition", "UnknownLeaderEpoch", "FencedLeaderEpoch",
  "StaleBrokerEpoch", "PreferredLeaderNotAvailable", "EligibleLeadersNotAvailable",
  "UnstableOffsetCommit", "ThrottlingQuotaExceeded", "ConcurrentTransactions",
  "OutOfOrderSequenceNumber", "DuplicateSequenceNumber", "ReassignmentInProgress",
  "InvalidProducerEpoch", "UnknownProducerId"}

\* Every other code, listed or not, is a refusal.
ClassifyProtocol(code) == IF code \in TransientCodes THEN "transient" ELSE "backend"

ClassifyRskafka(e) ==
  CASE e.variant \in {"Connection", "Request"} -> "connection"
    [] e.variant = "RetryFailed"               -> "transient"
    [] e.variant = "Timeout"                   -> "timeout"
    [] e.variant = "ServerError"               -> ClassifyProtocol(e.code)
    [] OTHER                                   -> "backend"

(***************************************************************************)
(* The text of any other error is the set of the phrases in it that the    *)
(* code looks for.                                                         *)
(***************************************************************************)
RefusalPhrases == {
  "too large", "toolarge", "too_large", "message_size", "record_too_large",
  "unknown_topic_id", "unknown topic id", "invalid topic", "does not exist",
  "not_exist", "not found", "already exists"}
TransientPhrases == {
  "unknown_topic", "unknown topic", "not leader", "leader", "retriable", "rebalance",
  "network", "coordinator"}
DeniedPhrases == {"auth", "sasl", "ssl", "tls", "permission", "invalid", "unsupported"}

\* The refusals come first: "unknown topic id" holds "unknown topic" as well.
ClassifyMessage(text) ==
  IF text \cap RefusalPhrases # {} THEN "backend"
  ELSE IF text \cap {"timeout", "timed out"} # {} THEN "timeout"
  ELSE IF "cancel" \in text THEN "closed"
  ELSE IF text \cap TransientPhrases # {} THEN "transient"
  ELSE IF text \cap DeniedPhrases # {} THEN "backend"
  ELSE "connection"

\* The errors of local I/O are not here: only an offset store returns them.
IsRetryable(kind) == kind \in {"connection", "transient", "timeout"}
=============================================================================
