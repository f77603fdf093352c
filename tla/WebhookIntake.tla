----------------------------- MODULE WebhookIntake -----------------------------
(***************************************************************************)
(* The two other readings of a delivery in this repository, beside the     *)
(* request handler of WebhookPipeline: the envelope parser of              *)
(* app/webhook-intake.ts and the local verifier of                         *)
(* src/app/webhook-signature.js.  Neither calls another, and each has      *)
(* its own order of checks, its own comparison of signatures and its own   *)
(* notion of a missing header.                                             *)
(***************************************************************************)
EXTENDS WebhookPipeline

(* DEFAULT_ALLOWED_EVENTS: the events of the dispatcher and seven others,   *)
(* but not ping.                                                            *)
AllowedEvents == {"pull_request", "push", "other"}

(* Mutant of VerifyGitHubWebhookSignature: compares the decoded digests.    *)
VerifyDecodedSignature(req) ==
  IF req.signature \in {"exact", "recased"} THEN "VALID" ELSE "INVALID"

(* The form of the digest is checked in any case, the digest is compared as *)
(* text, and the secret is not looked at.                                   *)
VerifyGitHubWebhookSignature(req) ==
  CASE req.signature = "absent" -> "MISSING_SIGNATURE"
    [] req.signature = "foreign" -> "UNSUPPORTED_SIGNATURE"
    [] req.signature \in {"malformed", "padded"} -> "MALFORMED_SIGNATURE"
    [] req.signature \in {"recased", "wrong"} -> "INVALID"
    [] req.signature = "exact" -> "VALID"

(* Signature first, then the headers, then the body.                        *)
ParseGitHubWebhookEnvelope(req) ==
  LET rejected(verdict) == [verdict |-> verdict, repo |-> NoRepo]
  IN IF VerifyGitHubWebhookSignature(req) # "VALID" THEN rejected("REJECTED_SIGNATURE")
     ELSE IF req.event = "absent" THEN rejected("REJECTED_MISSING_EVENT")
     ELSE IF req.delivery # "id" THEN rejected("REJECTED_MISSING_DELIVERY")
     ELSE IF req.event \notin AllowedEvents THEN rejected("REJECTED_UNSUPPORTED_EVENT")
     ELSE IF ~req.json THEN rejected("REJECTED_INVALID_JSON")
     ELSE [verdict |-> "ACCEPTED", repo |-> req.repo]

(* An empty secret verifies nothing; the digest is trimmed, decoded and     *)
(* compared as bytes.                                                       *)
VerifyWebhookSignature(req) ==
  IF req.secret = "empty" THEN "missing_webhook_secret"
  ELSE CASE req.signature = "absent" -> "missing_signature"
         [] req.signature = "foreign" -> "unsupported_signature_algorithm"
         [] req.signature = "malformed" -> "malformed_signature"
         [] req.signature = "wrong" -> "signature_mismatch"
         [] req.signature \in {"exact", "recased", "padded"} -> "signature_valid"

(* Neither the kind of the event nor the body is looked at.                 *)
VerifyWebhookEnvelope(req) ==
  LET reason == VerifyWebhookSignature(req)
  IN IF reason # "signature_valid" THEN [accepted |-> FALSE, reason |-> reason]
     ELSE IF req.event = "absent" THEN [accepted |-> FALSE, reason |-> "missing_event"]
     ELSE IF req.delivery # "id" THEN [accepted |-> FALSE, reason |-> "missing_delivery_id"]
     ELSE [accepted |-> TRUE, reason |-> "webhook_envelope_valid"]
=============================================================================
