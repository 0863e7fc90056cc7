---------------------------- MODULE PaymentDecision ----------------------------
(***************************************************************************)
(* How one payment of the shop is decided (authorize_simulated_payment):   *)
(* a first opinion of its own from the simulated provider, two requests to *)
(* the Java app server (antifraud verification, then authorization), each  *)
(* of which may be disabled, out of reach or answer an error, and a merge  *)
(* of the four opinions - provider, verification, processor and the shop's *)
(* own antifraud score.  The amounts, the weights and the thresholds are   *)
(* the code's; a hash is any number in its range.  On its way the gateway  *)
(* emulator emits one event per step, which are stored with the row.       *)
(***************************************************************************)
EXTENDS Integers, FiniteSetsExt, Sequences

CONSTANTS
    Amounts,        \* amounts in minor units
    Entropies       \* what the hashes of references and keys add to a score

ASSUME PaymentDecisionAssumption == Amounts \subseteq Nat /\ Entropies \subseteq Nat

\* Nothing was said, or nothing was stored.
NoOpinion == [decision |-> "none"]

Modes == {"approve", "decline", "timeout"}

\* payment_details, as far as _card_context and _wallet_context look at them
CardNumbers == {"none", "good", "bad_luhn", "other_network", "bad_other", "test_decline"}
Cards == [method : {"card"}, number : CardNumbers, expiry : {"valid", "missing", "past"},
          cvv : BOOLEAN, postalOdd : BOOLEAN]
WalletMethods == {"google_pay", "apple_pay"}
Wallets == [method : WalletMethods, token : BOOLEAN, network : {"none", "supported", "other"}]
Details == Cards \cup Wallets \cup [method : {"transfer"}]

VARIABLES
    payPc,          \* start, verify, process, decide; then answered, skipped or raised
    payInput,       \* amount, what domain and hashes add, the modes of shop and Java
    context,        \* the score and the reasons of the shop's own antifraud
    verified,       \* the verification's answer
    processed,      \* the processor's answer
    payRow,         \* the payment_transactions row, which is the answer too
    emitted         \* the gateway's steps so far, with their status

payVars == <<payPc, payInput, context, verified, processed, payRow, emitted>>

-----------------------------------------------------------------------------
(* Scores *)

AtMost(n, cap) == IF n > cap THEN cap ELSE n
AtLeast(n, floor) == IF n < floor THEN floor ELSE n

Weight == [invalid_luhn |-> 80, expired_card |-> 70, invalid_cvv |-> 45,
           missing_wallet_token |-> 80, unsupported_card_network |-> 35,
           unsupported_wallet_network |-> 20, missing_expiry |-> 20,
           legacy_no_card_details |-> 0, issuer_decline_test_card |-> 90]

\* What the Java verification adds for the same reasons.
JavaWeight == [invalid_luhn |-> 80, expired_card |-> 70, invalid_cvv |-> 35,
               missing_wallet_token |-> 80, unsupported_card_network |-> 30,
               unsupported_wallet_network |-> 30, missing_expiry |-> 0,
               legacy_no_card_details |-> 0, issuer_decline_test_card |-> 90]

Blocking == {"invalid_luhn", "expired_card", "invalid_cvv", "missing_wallet_token",
             "unsupported_card_network", "issuer_decline_test_card"}
JavaBlocking == {"issuer_decline_test_card", "missing_wallet_token", "invalid_luhn",
                 "expired_card"}

\* What the reasons add up to
Score(weight, reasons) == MapThenSumSet(LAMBDA r : weight[r], reasons)

Fulfilled(tests) == {r \in DOMAIN tests : tests[r]}

ReasonsOf(d) ==
    CASE d.method = "card" /\ d.number = "none" -> {"legacy_no_card_details"}
      [] d.method = "card" /\ d.number # "none" ->
            Fulfilled([invalid_luhn |-> d.number \in {"bad_luhn", "bad_other"},
                       unsupported_card_network |-> d.number \in {"other_network", "bad_other"},
                       issuer_decline_test_card |-> d.number = "test_decline",
                       missing_expiry |-> d.expiry = "missing",
                       expired_card |-> d.expiry = "past", invalid_cvv |-> ~d.cvv])
      [] d.method \in WalletMethods ->
            Fulfilled([missing_wallet_token |-> ~d.token,
                       unsupported_wallet_network |-> d.network = "other"])
      [] d.method = "transfer" -> {}

\* _score_risk; a postal code in another format counts, but is no listed reason.
ContextRisk(input, d) ==
    AtMost(AtMost(input.amount \div 200000, 45) + input.domain
             + Score(Weight, ReasonsOf(d))
             + (IF d.method = "card" /\ d.postalOdd THEN 15 ELSE 0), 99)

ShouldDecline(c) == c.risk >= 85 \/ c.reasons \cap Blocking # {}

-----------------------------------------------------------------------------
(* Opinions *)

Opinion(status, risk, code, source) ==
    [status |-> status, risk |-> risk, code |-> code, source |-> source]

\* SimulatedPaymentProvider.decide
LocalRisk(input) ==
    AtMost(AtMost(input.amount \div 100000, 55) + input.domain + input.entropy, 99)

Local(input) ==
    IF input.mode = "timeout"
    THEN Opinion("timeout", LocalRisk(input), "SIM_TIMEOUT", "python-simulator")
    ELSE IF input.mode = "decline" \/ LocalRisk(input) >= 85
    THEN Opinion("declined", AtLeast(LocalRisk(input), 85), "SIM_DECLINED", "python-simulator")
    ELSE Opinion("authorized", LocalRisk(input), "", "python-simulator")

\* What the Java server answers
Answer(decision, risk, code) == [decision |-> decision, risk |-> risk, code |-> code]

\* verifyPayment in App.java; issue is its periodic review.
VerificationRisk(input, c) ==
    AtMost(AtLeast(AtMost(input.amount \div 150000, 45) + input.domain
                     + Score(JavaWeight, c.reasons) + AtMost(input.entropy, 14), c.risk), 99)

Forced(input, c) == input.javaMode = "decline" \/ c.reasons \cap JavaBlocking # {}

Verification(input, c, issue) ==
    LET risk == VerificationRisk(input, c)
    IN  IF Forced(input, c) THEN Answer("declined", risk, "ANTIFRAUD_DECLINED")
        ELSE IF risk >= 90 THEN Answer("declined", risk, "ANTIFRAUD_HIGH_RISK")
        ELSE IF issue \/ risk >= 70 THEN Answer("review", risk, "ANTIFRAUD_REVIEW")
        ELSE Answer("approved", risk, "")

\* authorizePayment in App.java; what the verification said does not matter to it.
ProcessingRisk(input) ==
    AtMost(AtMost(input.amount \div 100000, 55) + input.domain + AtMost(input.entropy, 19), 99)

Processing(input) ==
    LET risk == ProcessingRisk(input)
    IN  IF input.javaMode = "timeout" THEN Answer("timeout", risk, "SIM_TIMEOUT")
        ELSE IF input.javaMode = "decline" \/ risk >= 85
        THEN Answer("declined", risk, "SIM_DECLINED")
        ELSE Answer("approved", risk, "")

\* Faulty variant: a verification that declines has no code of its own.
MergeVerificationNoCode(o, v) ==
    IF v = NoOpinion THEN o
    ELSE IF v.decision = "declined"
         THEN Opinion("declined", AtLeast(o.risk, v.risk), o.code, "java-antifraud-verification-app")
         ELSE Opinion(o.status, AtLeast(o.risk, v.risk), o.code, o.source)

\* _merge_verification_decision
MergeVerification(o, v) ==
    IF v = NoOpinion THEN o
    ELSE LET risk == AtLeast(o.risk, v.risk)
         IN  CASE v.decision = "declined" ->
                    Opinion("declined", risk, v.code, "java-antifraud-verification-app")
               [] v.decision = "review" ->
                    Opinion(o.status, risk, o.code, "java-antifraud-review")
               [] v.decision = "approved" -> Opinion(o.status, risk, o.code, o.source)

\* Faulty variant: the processor has the last word.
MergeProcessorAlways(o, p) ==
    IF p = NoOpinion THEN o
    ELSE Opinion(IF p.decision = "approved" THEN "authorized" ELSE p.decision,
                 IF p.risk # 0 THEN p.risk ELSE o.risk, p.code, "java-app-server")

\* _merge_java_decision: what is declined or timed out stays so.
MergeProcessor(o, p) ==
    IF p = NoOpinion \/ o.status \in {"declined", "timeout"} THEN o
    ELSE Opinion(IF p.decision = "approved" THEN "authorized" ELSE p.decision,
                 IF p.risk # 0 THEN p.risk ELSE o.risk,
                 IF p.code # "" THEN p.code ELSE o.code, "java-app-server")

\* _apply_antifraud_decision
MergeAntifraud(o, c) ==
    LET risk == AtLeast(o.risk, c.risk)
    IN  IF ~ShouldDecline(c) THEN Opinion(o.status, risk, o.code, o.source)
        ELSE Opinion("declined", risk,
                     IF o.code # "" THEN o.code ELSE "ANTIFRAUD_DECLINED",
                     IF o.source \in {"java-antifraud-verification-app", "java-antifraud-review"}
                     THEN o.source ELSE "internal-antifraud")

Merged(input, c, v, p) ==
    MergeAntifraud(MergeProcessor(MergeVerification(Local(input), v), p), c)

-----------------------------------------------------------------------------
(* The gateway emulator *)

\* build_gateway_steps
MethodSteps(method) ==
    <<"gateway_payment_received">> \o
    CASE method = "google_pay" ->
           <<"wallet_token_received", "gateway_token_decryption",
             "network_token_cryptogram_validation", "internal_antifraud_screening">>
      [] method = "apple_pay" ->
           <<"apple_pay_merchant_validation", "wallet_token_received", "gateway_token_decryption",
             "network_token_cryptogram_validation", "internal_antifraud_screening">>
      [] OTHER ->
           <<"card_data_received", "gateway_card_tokenization", "internal_antifraud_screening",
             "card_network_routing">>

\* What payment_gateway_capabilities says that the gateway does for a method
Capabilities(method) ==
    MethodSteps(method) \o
    <<"verification_antifraud_request", "verification_antifraud_response",
      "processor_authorization_request", "processor_authorization_response",
      "network_authorization_routing", "merchant_authorization_result">>

\* _emit_step: a step is completed unless it says otherwise.
Step(name, status) == [name |-> name, status |-> status]
AllCompleted(names) == [i \in 1..Len(names) |-> Step(names[i], "completed")]

\* emit_final_gateway_decision
FinalStep(status) ==
    Step("merchant_authorization_result", IF status = "authorized" THEN "completed" ELSE status)

-----------------------------------------------------------------------------
(* The handler *)

\* PAYMENT_GATEWAY_SIMULATION_ENABLED is off.
Skip ==
    /\ payPc = "start"
    /\ payPc' = "skipped"
    /\ UNCHANGED <<payInput, context, verified, processed, payRow, emitted>>

\* build_payment_context, create_intent, decide and the gateway's first steps
Begin ==
    /\ payPc = "start"
    /\ payPc' = "verify"
    /\ \E d \in Details :
          /\ context' = [method |-> d.method, risk |-> ContextRisk(payInput, d),
                         reasons |-> ReasonsOf(d)]
          /\ emitted' = AllCompleted(Append(MethodSteps(d.method), "verification_antifraud_request"))
    /\ UNCHANGED <<payInput, verified, processed, payRow>>

\* What _request returns instead of an answer; without a configured server it
\* does so every time.
Outages == {"disabled", "unreachable", "upstream_error"}

\* verify_payment, and the next steps
Verify ==
    /\ payPc = "verify"
    /\ \E status \in {"completed", "declined", "review"} \cup Outages :
          /\ IF status \in Outages THEN verified' = NoOpinion
             ELSE \E issue \in BOOLEAN :
                     /\ verified' = Verification(payInput, context, issue)
                     /\ status = IF verified'.decision = "approved" THEN "completed"
                                                                    ELSE verified'.decision
          /\ emitted' = emitted \o <<Step("verification_antifraud_response", status),
                                     Step("processor_authorization_request", "completed")>>
    /\ payPc' = "process"
    /\ UNCHANGED <<payInput, context, processed, payRow>>

NotConfigured == \E i \in 1..Len(emitted) : emitted[i].status = "disabled"

\* authorize_payment, whatever the verification has said.  The response's step
\* is completed by any answer, and the routing's without one as well.
Process ==
    /\ payPc = "process"
    /\ \E status \in {"completed"} \cup Outages :
          /\ NotConfigured <=> status = "disabled"
          /\ processed' = IF status = "completed" THEN Processing(payInput) ELSE NoOpinion
          /\ emitted' = emitted \o <<Step("processor_authorization_response", status),
                                     Step("network_authorization_routing", "completed")>>
    /\ payPc' = "decide"
    /\ UNCHANGED <<payInput, context, verified, payRow>>

\* The merges, the final gateway step and the INSERTs of row and events
Decide ==
    /\ payPc = "decide"
    /\ payRow' = Merged(payInput, context, verified, processed)
    /\ emitted' = Append(emitted, FinalStep(payRow'.status))
    /\ payPc' = "answered"
    /\ UNCHANGED <<payInput, context, verified, processed>>

\* Any other exception, of a request or of the database, goes to the checkout,
\* whose rollback takes the rows with it.
Raise ==
    /\ payPc \in {"verify", "process", "decide"}
    /\ payPc' = "raised"
    /\ UNCHANGED <<payInput, context, verified, processed, payRow, emitted>>

PayInputs == [amount : Amounts, domain : {2, 8}, entropy : Entropies,
              mode : Modes, javaMode : Modes]

PayInit ==
    /\ payPc = "start"
    /\ payInput \in PayInputs
    /\ context = NoOpinion
    /\ verified = NoOpinion
    /\ processed = NoOpinion
    /\ payRow = NoOpinion
    /\ emitted = <<>>

PayNext == Skip \/ Begin \/ Verify \/ Process \/ Decide \/ Raise
PaySpec == PayInit /\ [][PayNext]_payVars

PayTypeOK ==
    /\ payPc \in {"start", "verify", "process", "decide", "answered", "skipped", "raised"}
    /\ payInput \in PayInputs
    /\ context # NoOpinion => context.risk \in 0..99
    /\ payRow # NoOpinion => payRow.risk \in 0..99
    /\ \A i \in 1..Len(emitted) :
          emitted[i].status \in {"completed", "declined", "timeout", "review"} \cup Outages

-----------------------------------------------------------------------------
(* Properties *)

\* The first part of DecisionStands below: no refusal was overturned.
NobodyObjected ==
    payRow # NoOpinion /\ payRow.status = "authorized" =>
        /\ Local(payInput).status = "authorized"
        /\ ~ShouldDecline(context)
        /\ verified # NoOpinion => verified.decision # "declined"
        /\ processed # NoOpinion => processed.decision = "approved"

\* The second part: code, source and status fit each other.
Explained ==
    payRow # NoOpinion =>
        /\ (payRow.code = "") = (payRow.status = "authorized")
        /\ payRow.source \in {"python-simulator", "java-antifraud-verification-app",
                              "java-antifraud-review", "java-app-server", "internal-antifraud"}
        /\ payRow.source = "python-simulator" => payRow.status = Local(payInput).status
        /\ payRow.source = "java-antifraud-verification-app" =>
              verified.decision = "declined" /\ payRow.status = "declined"
        /\ payRow.source = "java-antifraud-review" =>
              /\ verified.decision = "review"
              /\ payRow.status = Local(payInput).status \/ ShouldDecline(context)
        /\ payRow.source = "java-app-server" =>
              payRow.status = (IF processed.decision = "approved" THEN "authorized"
                               ELSE processed.decision)
        /\ payRow.source = "internal-antifraud" => ShouldDecline(context)

\* The third part: the stored events are the steps that the gateway announces
\* for this method, the last one says what the row says, and none of an
\* authorized payment's tells of a refusal.
Recorded ==
    payRow # NoOpinion =>
        /\ [i \in 1..Len(emitted) |-> emitted[i].name] = Capabilities(context.method)
        /\ emitted[Len(emitted)].status = "completed" <=> payRow.status = "authorized"
        /\ payRow.status = "authorized" =>
              \A i \in 1..Len(emitted) : emitted[i].status \notin {"declined", "timeout"}
        /\ payRow.source = "java-antifraud-verification-app" =>
              \E i \in 1..Len(emitted) :
                 emitted[i] = Step("verification_antifraud_response", "declined")

\* No later opinion overturns an earlier refusal: a payment is authorized only
\* if the provider authorized it, the shop's antifraud did not object, and
\* neither Java answer that arrived declined it or timed out.  And what the row
\* says is explained: a refusal has a code, an authorization has none, and the
\* named source did decide so, except that a review keeps its name on what the
\* provider or the shop's antifraud refused.  The events tell the same story.
DecisionStands == NobodyObjected /\ Explained /\ Recorded
=============================================================================
