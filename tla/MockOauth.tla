------------------------------- MODULE MockOauth ------------------------------
(* mock_oauth/app.py, the issuer the service is run against in development:   *)
(* how it makes a token, and the tokens /oauth/token/examples hands out.      *)
EXTENDS TokenService

CONSTANTS
    Plaintext,       \* json.dumps(payload).encode(): a non-empty byte sequence
    DemoUser,        \* OAUTH_MOCK_TELEGRAM_ID
    DemoName,        \* OAUTH_MOCK_USERNAME
    WrongTypesTime   \* the created_at of the wrong_types example, 1690000000

ASSUME MockConstants ==
    /\ Plaintext \in Seq(0 .. 255)
    /\ DemoUser \in TgIds /\ DemoName \in Usernames
    /\ WrongTypesTime \in Int
    /\ ServiceKey # Null

Field(class, value) == [class |-> class, value |-> value]

Absent == Field("missing", Null)

(* _pkcs7_pad: always at least one byte of padding, a whole block of them     *)
(* when the data ends with one.                                               *)
Pad(data) ==
    LET padLen == IvLength - (Len(data) % IvLength)
    IN  data \o [i \in 1 .. padLen |-> padLen]

(* _encrypt_payload                                                           *)
EncryptPayload(payload) ==
    [text |-> "standard", signer |-> ServiceKey, padded |-> Pad(Plaintext),
     content |-> "json object", payload |-> payload]

(* _tamper_hmac: one byte of the HMAC flipped; the rest is kept.              *)
TamperHmac(t) ==
    IF t.text = "standard" /\ Len(t.padded) > 0 THEN [t EXCEPT !.signer = Null] ELSE t

DemoPayload(createdAt) ==
    [telegram_id |-> Field("integer", DemoUser), username |-> Field("string", DemoName),
     created_at |-> Field("integer", createdAt), profile |-> Field("string", "Demo")]

\* faulty: the expired example is as old as the TTL, not older
ExpiredTokenAtTtl(createdAt) == EncryptPayload(DemoPayload(createdAt - TokenTtl))

ExpiredToken(createdAt) == EncryptPayload(DemoPayload(createdAt - TokenTtl - 1))

ValidToken(createdAt) == EncryptPayload(DemoPayload(createdAt))

(* issue_token: created_at is the time it is issued unless the request names  *)
(* another one, and 0 names none.                                             *)
IssueToken(payload, asked, now) ==
    EncryptPayload([payload EXCEPT
        !.created_at = Field("integer", IF asked \in {Null, 0} THEN now ELSE asked)])

(* The time of the examples: OAUTH_MOCK_FIXED_CREATED_AT if there is one.     *)
ExamplesCreatedAt(fixed, now) == IF fixed = Null THEN now ELSE fixed

(* token_examples, but for the valid one.  Neither "invalid-token", whose 13  *)
(* characters are one too many, nor "!!!not_base64!!!" is base64 of anything. *)
BadExamples(createdAt) ==
    {ExpiredToken(createdAt),
     TamperHmac(ValidToken(createdAt)),
     [ValidToken(createdAt) EXCEPT !.text = "undecodable"],
     EncryptPayload([DemoPayload(createdAt) EXCEPT !.telegram_id = Absent]),
     EncryptPayload([DemoPayload(createdAt) EXCEPT
                        !.telegram_id = Field("digits", DemoUser),
                        !.created_at = Field("digits", WrongTypesTime)])}
=============================================================================
