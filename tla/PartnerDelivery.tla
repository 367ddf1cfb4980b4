---------------------------- MODULE PartnerDelivery ----------------------------
(***************************************************************************)
(* The transmission worker with PartnerPeppolAdapter as its gateway: the   *)
(* adapter of crates/transmit-peppol-partner posts the document to an      *)
(* access point's HTTP API and turns the answer into a receipt or an error *)
(* of the kinds the worker tells apart.  The request body holds the legal  *)
(* entity and the document, and nothing of the idempotency key.            *)
(*                                                                         *)
(* The partner and the network are external: the partner may take a        *)
(* document and its answer be lost, and it may or may not recognise a      *)
(* document it has.                                                        *)
(***************************************************************************)
EXTENDS TransmissionWorker

CONSTANTS
  Serialisable,  \* rows whose document format-ubl can write as UBL
  Recognises     \* whether the partner answers 409 to a document it has

VARIABLE submissions  \* submissions the partner made of each document

partnerVars == <<vars, submissions>>

\* Classes of HTTP answers; "lost" is a transport error, and "no UBL" the error
\* of to_xml, before anything is posted.
Answer == {"2xx", "2xx without id", "401 or 403", "404", "408", "409", "422",
           "429", "5xx", "other", "lost", "no UBL"}

PartnerTypeOK == TypeOK /\ submissions \in [Job -> Nat]

PartnerInit == Init /\ submissions = [j \in Job |-> 0]

\* partner_error_kind, and the errors around it.
ErrorKind(answer) ==
  CASE answer = "2xx without id" -> "malformed_receipt"
    [] answer = "401 or 403"     -> "auth_failure"
    [] answer = "404"            -> "not_found"
    [] answer = "408"            -> "timeout"
    [] answer = "409"            -> "duplicate_submission"
    [] answer = "422"            -> "rejected"
    [] answer = "429"            -> "rate_limited"
    [] answer = "5xx"            -> "gateway_maintenance"
    [] answer = "lost"           -> "network_failure"
    [] answer = "no UBL"         -> "invalid_request"
    [] OTHER                     -> "partner_error"

\* decode_submit_response: a 2xx with an id is a pending receipt, and no error
\* carries retry_after_seconds.
DecodeSubmitResponse(answer) ==
  IF answer = "2xx" THEN [ok |-> TRUE, status |-> "pending"]
  ELSE [ok |-> FALSE, kind |-> ErrorKind(answer), hint |-> 0, textOk |-> TRUE]

\* What the worker hears of it, to be given to Replies.
PartnerReplies == {DecodeSubmitResponse(answer) : answer \in Answer}

\* The partner takes the document of the awaited call, as a new submission
\* unless it recognises one it has.
Known(j) == Recognises /\ submissions[j] > 0

PartnerTakes ==
  /\ GatewayTakes /\ calling \in Serialisable
  /\ submissions' = IF Known(calling) THEN submissions
                    ELSE [submissions EXCEPT ![calling] = @ + 1]

\* What may be answered to a call that was not posted, that did not reach the
\* partner, and that did.
MayAnswer(answer) ==
  \/ calling \notin Serialisable /\ answer = "no UBL"
  \/ calling \in Serialisable /\ answer # "no UBL" /\ arrived = None
       /\ answer \notin {"2xx", "2xx without id", "409"}
  \/ arrived # None /\ answer = "409" /\ Known(arrived)
  \/ arrived # None /\ answer \in {"2xx", "2xx without id", "408", "5xx", "lost"}

PartnerAnswers ==
  \E answer \in Answer :
    LET r == DecodeSubmitResponse(answer) IN
    /\ calling # None /\ MayAnswer(answer)
    /\ ReceiveReceipt(r) \/ ScheduleRetry(r) \/ DeadLetter(r)
    /\ UNCHANGED submissions

PartnerNext ==
  \/ PartnerTakes
  \/ PartnerAnswers
  \/ /\ \/ \E s \in Offers : StartBatch(s)
        \/ ProcessOnce \/ Persist \/ Crash \/ Cancel \/ Tick
     /\ UNCHANGED submissions

PartnerSpec == PartnerInit /\ [][PartnerNext]_partnerVars

-----------------------------------------------------------------------------
(***************************************************************************)
(* The description of IdempotencyKey (crates/reconcile/src/lib.rs:259):    *)
(* "Idempotency key used to make gateway submission retries safe": however *)
(* often a row is submitted, its document becomes one submission.          *)
(***************************************************************************)
OneSubmissionPerKey == \A j \in Job : submissions[j] <= 1

(***************************************************************************)
(* What holds instead: a document becomes no more submissions than the     *)
(* worker's budget allows calls (outbox.rs, record_failed_attempt), and    *)
(* only one with a partner that recognises what it has.                    *)
(***************************************************************************)
SubmissionsAreBudgeted ==
  /\ \A j \in Job : submissions[j] <= Policy.maxAttempts + lost[j]
  /\ Recognises => OneSubmissionPerKey
=============================================================================
