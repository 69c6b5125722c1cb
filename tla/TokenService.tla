----------------------------- MODULE TokenService -----------------------------
(* The local verification of an oauth.name access token, as the pure function *)
(* of the token and of the time that app/services/token_service.py computes.  *)
(*                                                                            *)
(* A token is described by what the stages of the pipeline tell apart:        *)
(*   text     how its characters read as base64;                              *)
(*   signer   the key its HMAC was computed with over these very bytes, Null  *)
(*            when the HMAC matches no key;                                   *)
(*   padded   the bytes AES-CBC yields, as many as the ciphertext has;        *)
(*   content  what the bytes read as once the padding is gone;                *)
(*   payload  the fields of the object found there, each with the class of    *)
(*            its JSON value, which is all that pydantic looks at.            *)
EXTENDS Domain, Sequences

CONSTANTS
    ServiceKey,  \* sha256("{application_id}:{secret_key}")
    TokenTtl,    \* TOKEN_TTL_SECONDS: any integer, get_settings does not bound it
    IvLength     \* _IV_LENGTH, also the AES block length (16 in the code)

ASSUME TokenConstants ==
    /\ TokenTtl \in Int
    /\ IvLength \in 1 .. 255

----------------------------------------------------------------------------
(* _b64decode tries the standard alphabet strictly and falls back to the      *)
(* url-safe one after completing the padding; the fallback drops foreign      *)
(* characters, so only a text of impossible length or encoding is refused.    *)
B64Decodes(t) == t.text \in {"standard", "urlsafe", "unpadded"}

\* faulty: the bytes before the last one are not looked at
PaddingOkLastByte(data) ==
    data # <<>> /\ data[Len(data)] \in 1 .. IvLength /\ data[Len(data)] <= Len(data)

(* _pkcs7_unpad: the last byte counts the bytes of padding, all equal to it.  *)
PaddingOk(data) ==
    /\ data # <<>>
    /\ LET padLen == data[Len(data)] IN
         /\ padLen \in 1 .. IvLength
         \* data[-pad_len:] is shorter than pad_len when data is
         /\ padLen <= Len(data)
         /\ \A i \in Len(data) - padLen + 1 .. Len(data) : data[i] = padLen

(* data[:-pad_len]                                                            *)
Unpad(data) == SubSeq(data, 1, Len(data) - data[Len(data)])

(* _parse_payload: JSON, or the middle segment of a JWT holding JSON.         *)
ParsesToDict(t) == t.content \in {"json object", "jwt with an object"}

(* _decrypt in its order: base64, the header that leaves room for a           *)
(* ciphertext, the HMAC, AES-CBC that takes whole blocks only, the padding,   *)
(* UTF-8 and the payload.                                                     *)
Decrypts(t) ==
    /\ B64Decodes(t)
    /\ Len(t.padded) > 0
    /\ t.signer = ServiceKey
    /\ Len(t.padded) % IvLength = 0
    /\ PaddingOk(t.padded)
    /\ ParsesToDict(t)

----------------------------------------------------------------------------
(* TokenPayload: an int field takes a number or boolean that stands for an    *)
(* integer, class "integer", or a string of digits;                           *)
(* username must be there, though it may be null; the other strings are       *)
(* optional, and one of them, profile, stands for all four.                   *)
IsInt(f) == f.class \in {"integer", "digits"}
IsStr(f) == f.class \in {"string", "digits", "null"}

PayloadValidates(p) ==
    /\ IsInt(p.telegram_id)
    /\ IsInt(p.created_at)
    /\ IsStr(p.username)
    /\ IsStr(p.profile) \/ p.profile.class = "missing"

\* faulty: a token from a clock that runs ahead is refused
TokenExpiredOrEarly(p, now) ==
    now - p.created_at.value > TokenTtl \/ p.created_at.value > now

TokenExpired(p, now) == now - p.created_at.value > TokenTtl

(* verify_token: what the caller uses of the payload, or Null when it raises  *)
(* AppError(401, OAUTH_CODE_INVALID), whichever stage failed.                 *)
VerifyToken(t, now) ==
    IF Decrypts(t) /\ PayloadValidates(t.payload) /\ ~TokenExpired(t.payload, now)
      THEN [telegram_id |-> t.payload.telegram_id.value,
            username    |-> t.payload.username.value]
      ELSE Null
=============================================================================
