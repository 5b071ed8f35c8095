---------------------------- MODULE WebhookRoute ----------------------------
(***************************************************************************)
(* A webhook route up to the claim of the delivery: the verifiers of       *)
(* crates/proto/bondry-webhook-verify/src/provider.rs, and WebhookRoute's  *)
(* new and prepare with the payload mapping, in route.rs, payload.rs and   *)
(* limits.rs of crates/proto/bondry-webhook-ingress/src.                   *)
(*                                                                         *)
(* An HMAC is the pair of its key and of what was signed: two are equal    *)
(* when both parts are.  A header field is the sequence of its values.     *)
(***************************************************************************)
EXTENDS Integers, Sequences, FiniteSets, FiniteSetsExt

NoKey == "no_key"
NoIdentity == [namespace |-> "none", id |-> "none", fresh |-> FALSE]

(* What a value of a header field says: a token or an identifier, the       *)
(* timestamps and the signatures in it, its length.                         *)
NoValue == [form |-> "none", text |-> "", ts |-> <<>>, sigs |-> <<>>, len |-> 0]
Value(form) == [NoValue EXCEPT !.form = form]

(* The error of the first check that fails, in the order of the code's      *)
(* early returns.                                                           *)
FirstFailure(checks) ==
    LET failed == {i \in DOMAIN checks : checks[i][1]} IN
    IF failed = {} THEN "ok" ELSE checks[Min(failed)][2]

(* exactly_one_header *)
Only(q, name) == IF Len(q.h[name]) = 1 THEN q.h[name][1] ELSE NoValue

-----------------------------------------------------------------------------
(* Verifiers *)

SelectedBy(verifier) ==
    CASE verifier = "bearer" -> {"authorization"}
      [] verifier = "bondry" -> {"delivery-id", "timestamp", "signature"}
      [] verifier = "github" -> {"hub-signature"}
      [] verifier = "stripe" -> {"stripe-signature"}
      [] verifier = "custom" -> {"x-custom"}

(* credential_headers and identity_guarantee *)
CredentialsOf(c) ==
    CASE c.verifier = "bondry" -> {"signature"}
      [] c.verifier = "custom" -> c.credentials
      [] OTHER -> SelectedBy(c.verifier)
Guarantee(c) ==
    CASE c.verifier = "bearer" -> "never"
      [] c.verifier \in {"bondry", "github", "stripe"} -> "required"
      [] c.verifier = "custom" -> c.guarantee

(* ResolvedSecret: the current value, and the previous one while a rotation *)
(* overlaps.                                                                *)
KeysOf(secret) == {secret.current, secret.previous} \ {NoKey}

(* verify_webhook, verify_hmac_sha256 and matches_secret *)
Signed(secret, over, sigs) ==
    \E i \in DOMAIN sigs : sigs[i].key \in KeysOf(secret) /\ sigs[i].over = over

(* verify_freshness *)
Stale(now, ts, tolerance) == now - ts > tolerance \/ ts - now > tolerance

Timestamp(value) == IF Len(value.ts) = 1 THEN value.ts[1] ELSE 0
Verified(verdict, identity) ==
    [verdict |-> verdict, identity |-> IF verdict = "ok" THEN identity ELSE NoIdentity]
Identity(namespace, id, fresh) == [namespace |-> namespace, id |-> id, fresh |-> fresh]

(* BearerSecretVerifier::verify *)
VerifyBearer(q, now, secret, tolerance) ==
    LET token == Only(q, "authorization") IN
    Verified(FirstFailure(<<
        <<token.form # "bearer", "rejected">>,
        <<~secret.ok, "unavailable">>,
        <<token.text \notin KeysOf(secret), "rejected">> >>), NoIdentity)

(* Mutated VerifyBondry: the identifier is not among what is signed. *)
VerifyBondryUnbound(q, now, secret, tolerance) ==
    LET id == Only(q, "delivery-id")
        ts == Only(q, "timestamp")
        sig == Only(q, "signature")
    IN  Verified(FirstFailure(<<
            <<id.form # "id" \/ ts.form # "number" \/ sig.form # "hex", "rejected">>,
            <<Stale(now, Timestamp(ts), tolerance), "rejected">>,
            <<~secret.ok, "unavailable">>,
            <<~\E i \in DOMAIN sig.sigs :
                  /\ sig.sigs[i].key \in KeysOf(secret)
                  /\ sig.sigs[i].over.ts = Timestamp(ts)
                  /\ sig.sigs[i].over.body = q.body.text, "rejected">> >>),
          Identity("bondry", id.text, TRUE))

Over(scheme, ts, id, body) == [scheme |-> scheme, ts |-> ts, id |-> id, body |-> body]

(* BondryHmacSha256Verifier::verify; "id" is a text of one to the largest   *)
(* number of bytes.                                                         *)
VerifyBondry(q, now, secret, tolerance) ==
    LET id == Only(q, "delivery-id")
        ts == Only(q, "timestamp")
        sig == Only(q, "signature")
        over == Over("bondry", Timestamp(ts), id.text, q.body.text)
    IN  Verified(FirstFailure(<<
            <<id.form # "id", "rejected">>,
            <<ts.form # "number", "rejected">>,
            <<Stale(now, Timestamp(ts), tolerance), "rejected">>,
            <<sig.form # "hex", "rejected">>,
            <<~secret.ok, "unavailable">>,
            <<~Signed(secret, over, sig.sigs), "rejected">> >>),
          Identity("bondry", id.text, TRUE))

(* GitHubHmacSha256Verifier::verify: the body is the identity. *)
VerifyGitHub(q, now, secret, tolerance) ==
    LET sig == Only(q, "hub-signature") IN
    Verified(FirstFailure(<<
        <<sig.form # "sha256", "rejected">>,
        <<~secret.ok, "unavailable">>,
        <<~Signed(secret, Over("github", 0, "", q.body.text), sig.sigs), "rejected">> >>),
      Identity("github", q.body.text, FALSE))

(* StripeHmacSha256Verifier::verify and parse_stripe_header: one timestamp, *)
(* at least one signature, every component well formed ("pairs").           *)
VerifyStripe(q, now, secret, tolerance) ==
    LET header == Only(q, "stripe-signature")
        ts == Timestamp(header)
    IN  Verified(FirstFailure(<<
            <<header.form # "pairs" \/ Len(header.ts) # 1 \/ header.sigs = <<>>,
              "rejected">>,
            <<Stale(now, ts, tolerance), "rejected">>,
            <<~secret.ok, "unavailable">>,
            <<~Signed(secret, Over("stripe", ts, "", q.body.text), header.sigs),
              "rejected">> >>),
          Identity("stripe", q.body.text, TRUE))

Verify(verifier, q, now, secret, tolerance) ==
    CASE verifier = "bearer" -> VerifyBearer(q, now, secret, tolerance)
      [] verifier = "bondry" -> VerifyBondry(q, now, secret, tolerance)
      [] verifier = "github" -> VerifyGitHub(q, now, secret, tolerance)
      [] verifier = "stripe" -> VerifyStripe(q, now, secret, tolerance)
      [] verifier = "custom" -> q.custom     \* a verifier of the host's own

-----------------------------------------------------------------------------
(* The route *)

(* validate_semantics *)
SemanticsMismatch(semantics, effect) ==
    (semantics = "read_only") # (effect = "read_only")

(* selected_headers: the set of the names. *)
Selected(c) == SelectedBy(c.verifier) \cup {"content-type"} \cup c.metadata

(* MAX_SELECTED_HEADERS is 32; bound: the route's own limit is up to this. *)
MaxSelectedHeaders == 5

(* WebhookRoute::new and selected_headers; twice: the mapping names a       *)
(* metadata header twice; overlap: a credential among the metadata.         *)
RouteError(c) ==
    LET careful == c.semantics = "non_idempotent" IN
    FirstFailure(<<
        <<~c.readable, "PolicyUnavailable">>,
        <<~c.granted, "CapabilityUnavailable">>,
        <<SemanticsMismatch(c.semantics, c.effect), "CapabilityEffectMismatch">>,
        <<careful /\ Guarantee(c) # "required", "TrustedIdentityRequired">>,
        <<careful /\ ~c.persistent, "PersistentStoreRequired">>,
        <<c.twice, "DuplicateSelectedHeader">>,
        <<Cardinality(Selected(c)) > MaxSelectedHeaders, "TooManySelectedHeaders">>,
        <<~(CredentialsOf(c) \subseteq SelectedBy(c.verifier)),
          "CredentialHeaderNotSelected">>,
        <<CredentialsOf(c) \cap c.metadata # {}, "CredentialMetadataOverlap">>,
        <<Cardinality(Selected(c)) > c.maxHeaders, "TooManySelectedHeaders">> >>)

(* retained_charge and metadata_charge: each JSON value and each metadata   *)
(* value costs Charge.  A string that does not end has no charge.           *)
Charge == 128
NameLength == 6
MetadataCharge(c, q) ==
    IF ~c.envelope THEN 0
    ELSE 2 * Charge + MapThenSumSet(LAMBDA name :
            IF q.h[name] = <<>> THEN 0
            ELSE NameLength + Charge +
                 MapThenSumSet(LAMBDA i : q.h[name][i].len + Charge, DOMAIN q.h[name]),
            c.metadata)
RetainedCharge(c, q) == 2 * q.body.bytes + Charge * q.body.values + MetadataCharge(c, q)

(* map_payload; the input is the body, or body and metadata. *)
PayloadRefusal(c, q) ==
    FirstFailure(<<
        <<q.body.bytes > c.bodyBytes, "body_too_large">>,
        <<~q.body.counted \/ RetainedCharge(c, q) > c.retainedBytes, "retained_capacity">>,
        <<~q.body.json, "invalid_json">>,
        <<\E name \in c.metadata : \E i \in DOMAIN q.h[name] :
             q.h[name][i].form = "binary", "invalid_metadata">> >>)
Input(c, q) ==
    [body |-> q.body.text,
     metadata |-> [name \in {n \in c.metadata : q.h[n] # <<>>} |-> q.h[name]]]

(* prepare: an identity where there can be none, or none where there must   *)
(* be one.                                                                  *)
BreaksGuarantee(c, verified) ==
    \/ Guarantee(c) = "required" /\ verified.identity = NoIdentity
    \/ Guarantee(c) = "never" /\ verified.identity # NoIdentity

(* prepare up to the claim; limited is the answer of the limiter. *)
Refusal(c, q, now, secret, limited) ==
    LET verified == Verify(c.verifier, q, now, secret, c.tolerance) IN
    FirstFailure(<<
        <<q.method # "POST", "method_not_allowed">>,
        <<verified.verdict = "rejected", "authentication_rejected">>,
        <<verified.verdict = "unavailable", "verification_unavailable">>,
        <<BreaksGuarantee(c, verified), "verification_unavailable">>,
        <<limited, "rate_limited">>,
        <<Only(q, "content-type").form # "json", "unsupported_media_type">>,
        <<PayloadRefusal(c, q) # "ok", PayloadRefusal(c, q)>> >>)

(* DedupClaimPolicy of the claim: a record that may not expire. *)
RetainsForever(c, identity) == c.semantics = "non_idempotent" /\ ~identity.fresh

(* WebhookIngressResponse::error and retryable *)
Status(error) ==
    CASE error = "method_not_allowed" -> 405
      [] error = "authentication_rejected" -> 401
      [] error \in {"body_too_large", "retained_capacity"} -> 413
      [] error = "unsupported_media_type" -> 415
      [] error \in {"invalid_json", "invalid_metadata"} -> 400
      [] error = "rate_limited" -> 429
      [] error = "route_unavailable" -> 404
      [] error \in {"invalid_input", "capability_failed"} -> 422
      [] OTHER -> 503

-----------------------------------------------------------------------------
(* The byte form a Bondry signature covers, in                              *)
(* crates/contract/bondry-secrets/src/canonical.rs.  The verifiers above    *)
(* take a signature to be over the triple of timestamp, identifier and      *)
(* body: they may only because no two triples have one form.                *)

Newline == "newline"
Digit == <<"0", "1", "2", "3", "4", "5", "6", "7", "8", "9">>

(* to_string of a number below 100 *)
Decimal(n) == IF n < 10 THEN <<Digit[n + 1]>>
              ELSE <<Digit[(n \div 10) + 1], Digit[(n % 10) + 1]>>

(* canonical_webhook_bytes; the prefix is the same for all *)
Canonical(i) ==
    Decimal(i.timestamp) \o <<Newline>> \o
    Decimal(Len(i.id)) \o <<Newline>> \o i.id \o <<Newline>> \o
    Decimal(Len(i.body)) \o <<Newline>> \o i.body
=============================================================================
