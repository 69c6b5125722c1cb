------------------------------- MODULE TokenLife ------------------------------
(* A token, genuine or not, presented to TokenService as time passes.         *)
EXTENDS MockOauth

CONSTANTS
    Presented,    \* the tokens presented
    MaxAge        \* bound of the clock

(* What the stages can yield; a field has the type that its class tells.      *)
ASSUME PresentedAreTokens ==
    /\ MaxAge \in Nat
    /\ Null \notin [telegram_id : TgIds, username : Usernames \union {Null}]
    /\ \A t \in Presented :
          /\ t.text \in {"standard", "urlsafe", "unpadded", "undecodable"}
          /\ t.padded \in Seq(0 .. 255)
          /\ t.content \in {"json object", "jwt with an object",
                           "json other than an object", "no json", "not utf-8"}
          /\ IsInt(t.payload.telegram_id) => t.payload.telegram_id.value \in TgIds
          /\ IsInt(t.payload.created_at) => t.payload.created_at.value \in Int
          /\ IsStr(t.payload.username) =>
                t.payload.username.value \in Usernames \union {Null}

(* Time begins when the fixed created_at of the wrong_types example is more   *)
(* than the TTL ago: that example is refused for its age.                     *)
ASSUME WrongTypesStale == WrongTypesTime + TokenTtl < 0

VARIABLES token, now

tokenVars == <<token, now>>

Accepted == VerifyToken(token, now) # Null

TokenInit == token \in Presented /\ now = 0

Age == now < MaxAge /\ now' = now + 1 /\ UNCHANGED token

\* the client keeps the token no longer
Drop == now = MaxAge /\ UNCHANGED tokenVars

TokenNext == Age \/ Drop

TokenSpec == TokenInit /\ [][TokenNext]_tokenVars

----------------------------------------------------------------------------
(* TokenService accepts what an issuer that holds the key can have made from  *)
(* a well-typed payload no older than TOKEN_TTL_SECONDS, and nothing else:    *)
(* the stages of _decrypt and _pkcs7_unpad undo those of _encrypt_payload and *)
(* _pkcs7_pad, and what any other bytes give is refused.                      *)
AcceptsExactlyGenuine ==
    Accepted <=>
        /\ token.text # "undecodable"
        /\ token.signer = EncryptPayload(token.payload).signer
        /\ \E n \in 0 .. Len(token.padded) : token.padded = Pad(SubSeq(token.padded, 1, n))
        /\ token.content \notin {"not utf-8", "no json", "json other than an object"}
        /\ {token.payload.telegram_id.class, token.payload.created_at.class}
             \subseteq {"integer", "digits"}
        /\ token.payload.username.class \in {"string", "digits", "null"}
        /\ token.payload.profile.class \in {"string", "digits", "null", "missing"}
        /\ now <= token.payload.created_at.value + TokenTtl

(* Every bad example of /oauth/token/examples is refused whenever it is tried *)
(* after its issue, and the valid one is accepted for the TTL: what the       *)
(* comments of token_examples say of each, with a fixed created_at as well if *)
(* it is not ahead of the clock.  A token that /oauth/token/issue makes       *)
(* without a created_at is accepted for the TTL from then.                    *)
ExamplesAsNamed ==
    \A at \in 0 .. now :
        /\ \A fixed \in {Null} \union 0 .. at :
              LET createdAt == ExamplesCreatedAt(fixed, at)
              IN  /\ VerifyToken(ValidToken(createdAt), now) # Null
                       <=> now <= createdAt + TokenTtl
                  /\ \A t \in BadExamples(createdAt) : VerifyToken(t, now) = Null
        /\ \A asked \in {Null, 0} :
              VerifyToken(IssueToken(DemoPayload(at), asked, at), now) # Null
                 <=> now <= at + TokenTtl

(* A token once refused is refused for good: a client gains nothing by trying *)
(* it again later.                                                            *)
RefusalIsFinal == [][~Accepted => ~Accepted']_tokenVars
=============================================================================
