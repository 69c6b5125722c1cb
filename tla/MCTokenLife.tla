------------------------------ MODULE MCTokenLife -----------------------------
(* TokenLife with blocks of three bytes and the bytes 0 .. 4.                 *)
EXTENDS TokenLife

CONSTANTS serviceKey, otherKey, user, name

Bytes == 0 .. 4

ByteSeqs(n) == UNION {[1 .. k -> Bytes] : k \in 0 .. n}

OnePlaintext == <<4, 0>>

\* ten years in units far from the times of the run
LongAgo == -100

Texts == {"standard", "urlsafe", "unpadded", "undecodable"}

Contents == {"json object", "jwt with an object", "json other than an object",
             "no json", "not utf-8"}

Classes == {"integer", "digits", "string", "null", "missing", "fraction"}

Genuine == {ValidToken(c) : c \in {-2, 0, 2}}

AnyTransport ==
    {[t EXCEPT !.text = x, !.signer = k, !.content = c] :
        t \in Genuine, x \in Texts, k \in {serviceKey, otherKey, Null}, c \in Contents}

AnyPadding ==
    {[t EXCEPT !.padded = p] :
        t \in Genuine, p \in ByteSeqs(5) \union [1 .. 6 -> {0, 1, 3, 4}]}

AnyClasses ==
    {[t EXCEPT !.payload.telegram_id.class = i, !.payload.username.class = u,
               !.payload.created_at.class = c, !.payload.profile.class = p] :
        t \in {ValidToken(0)}, i \in Classes, u \in Classes, c \in Classes, p \in Classes}

AllTokens == AnyTransport \union AnyPadding \union AnyClasses
=============================================================================
