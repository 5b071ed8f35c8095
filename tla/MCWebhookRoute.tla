--------------------------- MODULE MCWebhookRoute ---------------------------
(***************************************************************************)
(* WebhookRoute over configurations and requests: a route is built from a  *)
(* configuration, and takes one request.  The requests recombine what the  *)
(* provider signed, or change one place of a genuine request; signatures   *)
(* come from the provider only.                                            *)
(***************************************************************************)
EXTENDS WebhookRoute, SequencesExt

VARIABLES conf, route, outcome

vars == <<conf, route, outcome>>

Now == 10
Tolerance == 2
Headers == {"authorization", "delivery-id", "timestamp", "signature", "hub-signature",
            "stripe-signature", "x-custom", "content-type", "x-meta"}
Secrets == {[ok |-> TRUE, current |-> "k2", previous |-> "k1"],
            [ok |-> TRUE, current |-> "k2", previous |-> NoKey],
            [ok |-> FALSE, current |-> NoKey, previous |-> NoKey]}

Plain(text) == [text |-> text, bytes |-> 100, values |-> 1, counted |-> TRUE, json |-> TRUE]
BodyLimit == 1024
RetainedLimit == 2048
Bodies(text) ==
    {Plain(text), [Plain(text) EXCEPT !.bytes = BodyLimit + 1],
     [Plain(text) EXCEPT !.bytes = BodyLimit], [Plain(text) EXCEPT !.values = 16],
     [Plain(text) EXCEPT !.counted = FALSE], [Plain(text) EXCEPT !.json = FALSE]}

(* What the provider signed: every message of its scheme. *)
Signatures(scheme) ==
    [key : {"k1", "k2"},
     over : CASE scheme = "bondry" -> {Over(scheme, ts, id, b) : ts \in {7, 8, 13},
                                          id \in {"d1", "d2"}, b \in {"b1", "b2"}}
              [] scheme = "github" -> {Over(scheme, 0, "", b) : b \in {"b1", "b2"}}
              [] scheme = "stripe" -> {Over(scheme, ts, "", b) : ts \in {8, 13},
                                          b \in {"b1", "b2"}}]

Bare == [method |-> "POST", body |-> Plain("b1"),
         h |-> [n \in Headers |-> IF n = "content-type" THEN <<Value("json")>> ELSE <<>>],
         custom |-> Verified("rejected", NoIdentity)]
With(q, name, value) == [q EXCEPT !.h[name] = <<value>>]
Sig(form, s) == [Value(form) EXCEPT !.sigs = <<s>>]

Presented(verifier) ==
    CASE verifier = "bearer" ->
           {With(Bare, "authorization", [Value(f) EXCEPT !.text = k]) :
                f \in {"bearer", "other"}, k \in {"k1", "k2", "k3"}}
      [] verifier = "bondry" ->
           {With(With(With(Bare, "delivery-id", [Value(f) EXCEPT !.text = id]),
                      "timestamp", [Value("number") EXCEPT !.ts = <<ts>>]),
                 "signature", Sig("hex", s)) :
                f \in {"id", "long"}, id \in {"d1", "d2"}, ts \in {7, 8, 13},
                s \in Signatures("bondry")}
      [] verifier = "github" ->
           {With(Bare, "hub-signature", Sig(f, s)) : f \in {"sha256", "other"},
                s \in Signatures("github")}
      [] verifier = "stripe" ->
           {With(Bare, "stripe-signature",
                 [Value("pairs") EXCEPT !.ts = ts, !.sigs = sigs]) :
                ts \in {<<>>, <<8>>, <<13>>, <<8, 8>>},
                sigs \in {<<>>} \cup {<<s>> : s \in Signatures("stripe")}
                         \cup {<<[key |-> "k3", over |-> s.over], s>> :
                                  s \in Signatures("stripe")}}
      [] verifier = "custom" ->
           {[Bare EXCEPT !.custom = Verified(v, i)] :
                v \in {"ok", "rejected", "unavailable"},
                i \in {NoIdentity, Identity("custom", "d1", TRUE)}}

Changed(q) ==
    {q} \cup {[q EXCEPT !.method = "GET"]}
    \cup {[q EXCEPT !.body = b] : b \in Bodies("b1") \cup Bodies("b2")}
    \cup {[q EXCEPT !.h["content-type"] = v] :
            v \in {<<>>, <<Value("other")>>, <<Value("json"), Value("json")>>}}
    \cup {[q EXCEPT !.h["x-meta"] = v] :
            v \in {<<[Value("text") EXCEPT !.len = 4]>>, <<Value("binary")>>}}
    \cup {[q EXCEPT !.h[n] = @ \o @] : n \in Headers}
Requests(verifier) ==
    LET genuine == {q \in Presented(verifier) : \E secret \in Secrets :
                      Verify(verifier, q, Now, secret, Tolerance).verdict = "ok"}
    IN  Presented(verifier) \cup UNION {Changed(q) : q \in genuine}

Configurations ==
    {[readable |-> r, granted |-> g, maxHeaders |-> m, bodyBytes |-> BodyLimit,
      retainedBytes |-> RetainedLimit, tolerance |-> Tolerance, verifier |-> v,
      guarantee |-> o, semantics |-> s, effect |-> e, persistent |-> p,
      envelope |-> x # {"json_body"}, metadata |-> x \ {"json_body", "twice"},
      twice |-> "twice" \in x, credentials |-> k] :
        r \in BOOLEAN, g \in BOOLEAN, m \in {4, 5},
        k \in {{"x-custom"}, {"x-custom", "x-other"}},
        v \in {"bearer", "bondry", "github", "stripe", "custom"},
        o \in {"never", "optional", "required"},
        s \in {"read_only", "idempotent", "non_idempotent"},
        e \in {"read_only", "mutating"}, p \in BOOLEAN,
        x \in {{"json_body"}, {}, {"x-meta"}, {"delivery-id"}, {"signature"},
               {"authorization"}, {"x-meta", "twice"},
               {"x-meta", "authorization"}}}

NoOutcome == [status |-> 0, error |-> "none", request |-> Bare, secret |-> "none",
              identity |-> NoIdentity, input |-> Input([metadata |-> {}], Bare)]

(* The duplicate policy and the envelope are decided apart: one of them     *)
(* varies while the other is ordinary.                                      *)
Ordinary(c) == c.semantics = "idempotent" /\ c.effect = "mutating" /\ c.persistent
Init ==
    /\ conf \in {c \in Configurations :
                   /\ c.verifier # "custom" =>
                         c.guarantee = "optional" /\ c.credentials = {"x-custom"}
                   /\ Ordinary(c) \/ (c.envelope /\ c.metadata = {} /\ c.maxHeaders = 5)}
    /\ route = "none"
    /\ outcome = NoOutcome

Build ==
    /\ route = "none"
    /\ route' = RouteError(conf)
    /\ UNCHANGED <<conf, outcome>>

(* prepare; what goes on to the claim has status 0. *)
Receive ==
    /\ route = "ok" /\ outcome = NoOutcome
    /\ \E q \in Requests(conf.verifier), secret \in Secrets, limited \in BOOLEAN :
          LET error == Refusal(conf, q, Now, secret, limited) IN
          outcome' = [status |-> IF error = "ok" THEN 0 ELSE Status(error),
                      error |-> error, request |-> q,
                      secret |-> secret.previous,
                      identity |-> Verify(conf.verifier, q, Now, secret,
                                          conf.tolerance).identity,
                      input |-> Input(conf, q)]
    /\ UNCHANGED <<conf, route>>

Done == route \notin {"none", "ok"} \/ outcome # NoOutcome
Next == Build \/ Receive \/ (Done /\ UNCHANGED vars)
Spec == Init /\ [][Next]_vars

Claims == outcome.error = "ok"

-----------------------------------------------------------------------------
TypeOK ==
    /\ route \in {"none", "ok", "PolicyUnavailable", "CapabilityUnavailable",
                  "CapabilityEffectMismatch", "TrustedIdentityRequired",
                  "PersistentStoreRequired", "CredentialMetadataOverlap",
                  "TooManySelectedHeaders", "DuplicateSelectedHeader",
                  "CredentialHeaderNotSelected"}
    /\ outcome.status \in {0, 400, 401, 405, 413, 415, 429, 503}

(* A request goes on to the claim only if a message the provider signed     *)
(* with a key that is current, or previous in a rotation, says the same:    *)
(* its body is the capability's input, its identifier or its body is the    *)
(* identity the claim is made for, and its time is within the tolerance     *)
(* (the verify functions of provider.rs).                                   *)
AcceptedWasSigned ==
    Claims /\ conf.verifier \in {"bondry", "github", "stripe"} =>
        \E s \in Signatures(conf.verifier) :
            /\ s.key \in {"k2", outcome.secret}
            /\ \E n \in Headers : \E i \in DOMAIN outcome.request.h[n] :
                  \E j \in DOMAIN outcome.request.h[n][i].sigs :
                      outcome.request.h[n][i].sigs[j] = s
            /\ s.over.body = outcome.input.body
            /\ outcome.identity.id = IF conf.verifier = "bondry" THEN s.over.id
                                     ELSE s.over.body
            /\ outcome.identity.fresh => s.over.ts \in Now - Tolerance .. Now + Tolerance

(* A mutation that must not be repeated is never dispatched without replay  *)
(* protection: every request of such a route has an identity and its store  *)
(* survives a restart, whatever the host's own verifier answers; and where  *)
(* the record may expire, the message expires too: the same request is      *)
(* refused once twice the tolerance has passed, under any of the secrets    *)
(* (new, prepare).                                                          *)
ReplayProtected ==
    Claims /\ conf.semantics = "non_idempotent" =>
        /\ outcome.identity # NoIdentity
        /\ conf.persistent
        /\ (conf.verifier # "custom" /\ ~RetainsForever(conf, outcome.identity)) =>
              \A secret \in Secrets :
                  Refusal(conf, outcome.request, Now + 2 * Tolerance + 1, secret, FALSE)
                     # "ok"

(* docs/webhook-ingress.md: "Credential headers cannot enter capability     *)
(* input": no metadata value is a signature or a bearer secret.             *)
CredentialsStayOut ==
    Claims => \A n \in DOMAIN outcome.input.metadata :
        \A i \in DOMAIN outcome.input.metadata[n] :
            /\ outcome.input.metadata[n][i].sigs = <<>>
            /\ outcome.input.metadata[n][i].form # "bearer"

(* The server passes on only the header fields the route selected: what     *)
(* verification and mapping read is among them, so a request cut down to    *)
(* them is refused or mapped the same (selected_headers).                   *)
SeamSuffices ==
    outcome # NoOutcome =>
        LET cut == [outcome.request EXCEPT
                      !.h = [n \in Headers |-> IF n \in Selected(conf) THEN @[n]
                                               ELSE <<>>]]
        IN  /\ Input(conf, cut) = outcome.input
            /\ \A secret \in Secrets :
                  Refusal(conf, cut, Now, secret, FALSE) =
                  Refusal(conf, outcome.request, Now, secret, FALSE)

-----------------------------------------------------------------------------
(* Identifiers and bodies of bytes that could be taken for the separators  *)
(* and the lengths between them.                                           *)
Texts == BoundedSeq({"newline", "1", "x"}, 3)
Triples == [timestamp : {1, 11}, id : Texts, body : Texts]

(* A reader: a line is what stands before the next newline. *)
LineEnd(s) == LET ends == {i \in DOMAIN s : s[i] = Newline}
              IN  IF ends = {} THEN Len(s) + 1 ELSE Min(ends)
Line(s) == SubSeq(s, 1, LineEnd(s) - 1)
After(s, n) == SubSeq(s, n + 1, Len(s))
Number(s) == IF \E n \in 0 .. 99 : Decimal(n) = s
             THEN CHOOSE n \in 0 .. 99 : Decimal(n) = s ELSE 0
Read(s) ==
    LET first == After(s, LineEnd(s))
        second == After(first, LineEnd(first))
        third == After(second, Number(Line(first)) + 1)
    IN  [timestamp |-> Number(Line(s)),
         id |-> SubSeq(second, 1, Number(Line(first))),
         body |-> After(third, LineEnd(third))]

(* The canonical form can be read back, whatever newlines and digits the    *)
(* identifier and the body hold: a signature over one triple is never a     *)
(* signature over another (canonical_webhook_bytes; the test                *)
(* length_delimits_untrusted_fields tries one pair).                        *)
FormDeterminesInput(input, form) == form # <<>> => Read(form) = input
=============================================================================
