---------------------------- MODULE TokenLifeProofs ---------------------------
(* Proofs about the verification of access tokens, for tokens of any length,  *)
(* any TTL and any age.                                                       *)
EXTENDS TokenLife, SequenceTheorems, TLAPS

----------------------------------------------------------------------------
(* Padding.                                                                   *)

Byte == 0 .. 255

(* A whole number of blocks less k bytes, at most one block, leaves a last    *)
(* block that k bytes complete.                                               *)
LEMMA LastBlock ==
    ASSUME NEW len \in Nat, NEW n \in Nat, NEW k \in 1 .. IvLength,
           n + k = len, len % IvLength = 0
    PROVE  IvLength - (n % IvLength) = k
<1> DEFINE a == len \div IvLength
           b == n \div IvLength
           m == n % IvLength
<1>1. /\ a \in Int /\ b \in Int /\ m \in 0 .. IvLength - 1
      /\ len = IvLength * a /\ n = IvLength * b + m
  BY TokenConstants
<1> HIDE DEF a, b, m
<1>2. IvLength * (a - b) = m + k
  BY <1>1, TokenConstants
<1>3. a - b = 1
  BY <1>1, <1>2, TokenConstants
<1>4. m + k = IvLength
  BY <1>1, <1>2, <1>3, TokenConstants
<1> QED BY <1>1, <1>4, TokenConstants DEF m

(* Padding completes the last block.                                          *)
LEMMA WholeBlocks ==
    ASSUME NEW n \in Nat
    PROVE  /\ IvLength - (n % IvLength) \in 1 .. IvLength
           /\ (n + (IvLength - (n % IvLength))) % IvLength = 0
<1> DEFINE b == n \div IvLength
           m == n % IvLength
<1>1. b \in Int /\ m \in 0 .. IvLength - 1 /\ n = IvLength * b + m
  BY TokenConstants
<1> HIDE DEF b, m
<1>2. n + (IvLength - m) = IvLength * (b + 1)
  BY <1>1, TokenConstants
<1>3. (IvLength * (b + 1)) % IvLength = 0
  BY <1>1, TokenConstants
<1> QED BY <1>1, <1>2, <1>3, TokenConstants DEF m


PadLength(data) == IvLength - (Len(data) % IvLength)

(* What Pad returns.                                                          *)
LEMMA PadFields ==
    ASSUME NEW data \in Seq(Byte)
    PROVE  /\ PadLength(data) \in 1 .. IvLength
           /\ Pad(data) \in Seq(Byte)
           /\ Len(Pad(data)) = Len(data) + PadLength(data)
           /\ Len(Pad(data)) % IvLength = 0
           /\ \A i \in 1 .. Len(data) : Pad(data)[i] = data[i]
           /\ \A i \in Len(data) + 1 .. Len(Pad(data)) : Pad(data)[i] = PadLength(data)
<1> DEFINE k == PadLength(data)
           tail == [i \in 1 .. k |-> k]
<1>1. /\ k \in 1 .. IvLength /\ Len(data) \in Nat
      /\ (Len(data) + k) % IvLength = 0
  BY WholeBlocks DEF PadLength
<1>2. Pad(data) = data \o tail
  BY DEF Pad, PadLength
<1> HIDE DEF k
<1>3. tail \in Seq(Byte) /\ Len(tail) = k /\ \A i \in 1 .. k : tail[i] = k
  BY <1>1, TokenConstants DEF Byte
<1> HIDE DEF tail
<1>4. /\ Pad(data) \in Seq(Byte) /\ Len(Pad(data)) = Len(data) + k
      /\ \A i \in 1 .. Len(data) : Pad(data)[i] = data[i]
      /\ \A i \in Len(data) + 1 .. Len(data) + k : Pad(data)[i] = tail[i - Len(data)]
  <2>1. /\ data \o tail \in Seq(Byte)
        /\ Len(data \o tail) = Len(data) + Len(tail)
        /\ \A i \in 1 .. Len(data) + Len(tail) :
              (data \o tail)[i] = IF i <= Len(data) THEN data[i] ELSE tail[i - Len(data)]
    BY <1>3, ConcatProperties
  <2> QED BY <1>1, <1>2, <1>3, <2>1
<1>5. \A i \in Len(data) + 1 .. Len(data) + k : tail[i - Len(data)] = k
  BY <1>1, <1>3
<1> QED BY <1>1, <1>4, <1>5 DEF k

(* _pkcs7_unpad undoes _pkcs7_pad: what is padded is accepted.                *)
LEMMA PaddedIsOk ==
    ASSUME NEW data \in Seq(Byte)
    PROVE  Len(Pad(data)) > 0 /\ Len(Pad(data)) % IvLength = 0 /\ PaddingOk(Pad(data))
<1> DEFINE p == Pad(data)
           k == PadLength(data)
<1>1. /\ k \in 1 .. IvLength /\ Len(p) = Len(data) + k /\ Len(data) \in Nat
      /\ p \in Seq(Byte) /\ Len(p) % IvLength = 0
      /\ \A i \in Len(data) + 1 .. Len(p) : p[i] = k
  BY PadFields
<1> HIDE DEF p, k
<1>2. p # <<>> /\ p[Len(p)] = k
  BY <1>1, TokenConstants
<1>3. PaddingOk(p)
  BY <1>1, <1>2 DEF PaddingOk
<1> QED BY <1>1, <1>3, TokenConstants DEF p

(* ... and whole blocks whose padding is accepted are what Pad makes of the   *)
(* bytes before it.                                                           *)
LEMMA OkIsPadded ==
    ASSUME NEW data \in Seq(Byte), Len(data) % IvLength = 0, PaddingOk(data)
    PROVE  \E n \in 0 .. Len(data) : data = Pad(SubSeq(data, 1, n))
<1> DEFINE k == data[Len(data)]
           n == Len(data) - k
           s == SubSeq(data, 1, n)
<1>1. /\ k \in 1 .. IvLength /\ k <= Len(data) /\ Len(data) \in Nat
      /\ \A i \in n + 1 .. Len(data) : data[i] = k
  BY DEF PaddingOk
<1> HIDE DEF k
<1>2. n \in 0 .. Len(data)
  BY <1>1, TokenConstants
<1>3. s \in Seq(Byte) /\ Len(s) = n /\ \A i \in 1 .. n : s[i] = data[i]
  BY <1>1, <1>2
<1>4. PadLength(s) = k
  <2>1. IvLength - (n % IvLength) = k
    BY <1>1, <1>2, LastBlock
  <2> QED BY <1>3, <2>1 DEF PadLength
<1> HIDE DEF s
<1>5. /\ Pad(s) \in Seq(Byte) /\ Len(Pad(s)) = n + k
      /\ \A i \in 1 .. n : Pad(s)[i] = s[i]
      /\ \A i \in n + 1 .. n + k : Pad(s)[i] = k
  BY <1>3, <1>4, PadFields
<1>6. Len(Pad(s)) = Len(data)
  BY <1>1, <1>5, TokenConstants
<1>7. ASSUME NEW i \in 1 .. Len(data) PROVE Pad(s)[i] = data[i]
  <2>1. CASE i \in 1 .. n
    BY <1>3, <1>5, <2>1
  <2>2. CASE i \in n + 1 .. Len(data)
    BY <1>1, <1>5, <1>6, <2>2
  <2> QED BY <1>2, <2>1, <2>2
<1>8. data = Pad(s)
  BY <1>5, <1>6, <1>7
<1> QED BY <1>2, <1>8 DEF s

(* The padding is accepted of what Pad can have made, and of nothing else.    *)
LEMMA PaddedExactly ==
    ASSUME NEW data \in Seq(Byte)
    PROVE  Len(data) > 0 /\ Len(data) % IvLength = 0 /\ PaddingOk(data)
              <=> \E n \in 0 .. Len(data) : data = Pad(SubSeq(data, 1, n))
<1>1. ASSUME NEW n \in 0 .. Len(data), data = Pad(SubSeq(data, 1, n))
      PROVE  Len(data) > 0 /\ Len(data) % IvLength = 0 /\ PaddingOk(data)
  <2>1. SubSeq(data, 1, n) \in Seq(Byte)
    OBVIOUS
  <2> QED BY <1>1, <2>1, PaddedIsOk
<1> QED BY <1>1, OkIsPadded

----------------------------------------------------------------------------
(* Verification.                                                              *)

(* verify_token returns a payload exactly when no stage raises.               *)
LEMMA VerifyTokenAccepts ==
    ASSUME NEW t, NEW time,
           IsInt(t.payload.telegram_id) => t.payload.telegram_id.value \in TgIds,
           IsStr(t.payload.username) => t.payload.username.value \in Usernames \union {Null}
    PROVE  VerifyToken(t, time) # Null
              <=> /\ Decrypts(t) /\ PayloadValidates(t.payload)
                  /\ ~TokenExpired(t.payload, time)
<1>1. ASSUME PayloadValidates(t.payload)
      PROVE  [telegram_id |-> t.payload.telegram_id.value,
              username    |-> t.payload.username.value] # Null
  <2>1. /\ t.payload.telegram_id.value \in TgIds
        /\ t.payload.username.value \in Usernames \union {Null}
    BY <1>1 DEF PayloadValidates
  <2>2. Null \notin [telegram_id : TgIds, username : Usernames \union {Null}]
    BY PresentedAreTokens
  <2> QED BY <2>1, <2>2
<1> QED BY <1>1 DEF VerifyToken

TokenInv == token \in Presented /\ now \in Nat

LEMMA TokenInvariance == TokenSpec => []TokenInv
<1>1. TokenInit => TokenInv
  BY DEF TokenInit, TokenInv
<1>2. TokenInv /\ [TokenNext]_tokenVars => TokenInv'
  BY DEF TokenInv, TokenNext, Age, Drop, tokenVars
<1> QED BY <1>1, <1>2, PTL DEF TokenSpec

(* A presented token is accepted by its stages.                               *)
LEMMA AcceptedByStages ==
    ASSUME TokenInv
    PROVE  Accepted <=> /\ Decrypts(token) /\ PayloadValidates(token.payload)
                        /\ ~TokenExpired(token.payload, now)
BY VerifyTokenAccepts, PresentedAreTokens DEF TokenInv, Accepted

(* A token is accepted exactly when an issuer that holds the key made it from *)
(* a well-typed payload no older than the TTL, whatever its bytes.            *)
THEOREM TokensGenuine == TokenSpec => []AcceptsExactlyGenuine
<1>1. TokenInv => AcceptsExactlyGenuine
  <2> SUFFICES ASSUME TokenInv PROVE AcceptsExactlyGenuine
    OBVIOUS
  <2> DEFINE Padded == \E n \in 0 .. Len(token.padded) :
                          token.padded = Pad(SubSeq(token.padded, 1, n))
  <2>1. /\ token.text \in {"standard", "urlsafe", "unpadded", "undecodable"}
        /\ token.padded \in Seq(Byte)
        /\ token.content \in {"json object", "jwt with an object",
                              "json other than an object", "no json", "not utf-8"}
        /\ IsInt(token.payload.created_at) => token.payload.created_at.value \in Int
    BY PresentedAreTokens DEF TokenInv, Byte
  <2>2. /\ Len(token.padded) > 0 /\ Len(token.padded) % IvLength = 0
        /\ PaddingOk(token.padded)
        <=> Padded
    BY <2>1, PaddedExactly
  <2>3. Decrypts(token)
          <=> /\ token.text # "undecodable" /\ token.signer = ServiceKey /\ Padded
              /\ token.content \notin {"not utf-8", "no json", "json other than an object"}
    BY <2>1, <2>2 DEF Decrypts, B64Decodes, ParsesToDict
  <2> HIDE DEF Padded
  <2>4. IsInt(token.payload.created_at) =>
          (~TokenExpired(token.payload, now)
             <=> now <= token.payload.created_at.value + TokenTtl)
    <3>1. now \in Int
      BY DEF TokenInv
    <3>2. ASSUME NEW c \in Int PROVE ~(now - c > TokenTtl) <=> now <= c + TokenTtl
      BY <3>1, TokenConstants
    <3> QED BY <2>1, <3>2 DEF TokenExpired
  <2>5. EncryptPayload(token.payload).signer = ServiceKey
    BY DEF EncryptPayload
  <2>6. PayloadValidates(token.payload)
          <=> /\ {token.payload.telegram_id.class, token.payload.created_at.class}
                   \subseteq {"integer", "digits"}
              /\ token.payload.username.class \in {"string", "digits", "null"}
              /\ token.payload.profile.class \in {"string", "digits", "null", "missing"}
    BY DEF PayloadValidates, IsInt, IsStr
  <2>7. PayloadValidates(token.payload) => IsInt(token.payload.created_at)
    BY DEF PayloadValidates
  <2>8. Accepted <=> /\ Decrypts(token) /\ PayloadValidates(token.payload)
                     /\ ~TokenExpired(token.payload, now)
    BY AcceptedByStages
  <2> QED BY <2>3, <2>4, <2>5, <2>6, <2>7, <2>8 DEF AcceptsExactlyGenuine, Padded
<1> QED BY <1>1, TokenInvariance, PTL

(* Time only makes a token worse.                                             *)
THEOREM RefusedForGood == TokenSpec => RefusalIsFinal
<1>1. TokenInv /\ TokenInv' /\ [TokenNext]_tokenVars => [~Accepted => ~Accepted']_tokenVars
  <2> SUFFICES ASSUME TokenInv, TokenInv', Age, Accepted' PROVE Accepted
    BY DEF TokenNext, Drop
  <2>1. token' = token /\ now \in Int /\ now' \in Int /\ now <= now'
    BY DEF Age, TokenInv
  <2>2. /\ Decrypts(token) /\ PayloadValidates(token.payload)
        /\ ~TokenExpired(token.payload, now')
    BY <2>1, VerifyTokenAccepts, PresentedAreTokens DEF TokenInv, Accepted
  <2>3. token.payload.created_at.value \in Int
    BY <2>2, PresentedAreTokens DEF TokenInv, PayloadValidates
  <2>4. ~TokenExpired(token.payload, now)
    BY <2>1, <2>2, <2>3, TokenConstants DEF TokenExpired
  <2> QED BY <2>2, <2>4, AcceptedByStages
<1> QED BY <1>1, TokenInvariance, PTL DEF TokenSpec, RefusalIsFinal


----------------------------------------------------------------------------
(* The tokens of the issuer.                                                  *)

(* What an issuer that holds the key encrypts gets through _decrypt.          *)
LEMMA EncryptedDecrypts ==
    ASSUME NEW payload
    PROVE  Decrypts(EncryptPayload(payload)) /\ EncryptPayload(payload).payload = payload
<1>1. /\ Len(Pad(Plaintext)) > 0 /\ Len(Pad(Plaintext)) % IvLength = 0
      /\ PaddingOk(Pad(Plaintext))
  BY MockConstants, PaddedIsOk DEF Byte
<1>2. /\ EncryptPayload(payload).text = "standard"
      /\ EncryptPayload(payload).signer = ServiceKey
      /\ EncryptPayload(payload).padded = Pad(Plaintext)
      /\ EncryptPayload(payload).content = "json object"
      /\ EncryptPayload(payload).payload = payload
  BY DEF EncryptPayload
<1> QED BY <1>1, <1>2 DEF Decrypts, B64Decodes, ParsesToDict

(* The demo payload is well typed, and is accepted until it is too old.       *)
LEMMA DemoAccepted ==
    ASSUME NEW c \in Int, NEW time \in Int
    PROVE  VerifyToken(ValidToken(c), time) # Null <=> time <= c + TokenTtl
<1> DEFINE p == DemoPayload(c)
           t == ValidToken(c)
<1>1. /\ p.telegram_id = Field("integer", DemoUser) /\ p.username = Field("string", DemoName)
      /\ p.created_at = Field("integer", c) /\ p.profile = Field("string", "Demo")
  BY DEF DemoPayload
<1>2. Decrypts(t) /\ t.payload = p
  BY EncryptedDecrypts DEF ValidToken
<1> HIDE DEF p, t
<1>3. /\ p.telegram_id.value \in TgIds /\ p.username.value \in Usernames
      /\ p.created_at.value = c /\ PayloadValidates(p)
  BY <1>1, MockConstants DEF Field, PayloadValidates, IsInt, IsStr
<1>4. ~TokenExpired(p, time) <=> time <= c + TokenTtl
  BY <1>3, TokenConstants DEF TokenExpired
<1>5. VerifyToken(t, time) # Null <=> ~TokenExpired(p, time)
  BY <1>2, <1>3, VerifyTokenAccepts
<1> QED BY <1>4, <1>5 DEF t

(* Each bad example is refused from the time it was made for.                 *)
LEMMA BadExamplesRefused ==
    ASSUME NEW c \in Int, NEW time \in Nat, c <= time, NEW t \in BadExamples(c)
    PROVE  VerifyToken(t, time) = Null
<1>1. CASE t = ExpiredToken(c)
  <2> DEFINE old == c - TokenTtl - 1
  <2>1. t = ValidToken(old)
    BY <1>1 DEF ExpiredToken, ValidToken
  <2>2. old \in Int /\ ~(time <= old + TokenTtl)
    BY TokenConstants
  <2> HIDE DEF old
  <2> QED BY <2>1, <2>2, DemoAccepted
<1>2. CASE t = TamperHmac(ValidToken(c))
  <2>1. ValidToken(c).text = "standard" /\ ValidToken(c).padded = Pad(Plaintext)
    BY DEF ValidToken, EncryptPayload
  <2>2. Len(Pad(Plaintext)) > 0
    BY MockConstants, PaddedIsOk DEF Byte
  <2>3. t = [ValidToken(c) EXCEPT !.signer = Null]
    BY <1>2, <2>1, <2>2 DEF TamperHmac
  <2>4. t.signer = Null
    BY <2>3 DEF ValidToken, EncryptPayload
  <2> QED BY <2>4, MockConstants DEF VerifyToken, Decrypts
<1>3. CASE t = [ValidToken(c) EXCEPT !.text = "undecodable"]
  <2>1. t.text = "undecodable"
    BY <1>3 DEF ValidToken, EncryptPayload
  <2> QED BY <2>1 DEF VerifyToken, Decrypts, B64Decodes
<1>4. CASE t = EncryptPayload([DemoPayload(c) EXCEPT !.telegram_id = Absent])
  <2>1. t.payload.telegram_id = Absent
    BY <1>4 DEF EncryptPayload, DemoPayload
  <2> QED BY <2>1 DEF Absent, Field, VerifyToken, PayloadValidates, IsInt
<1>5. CASE t = EncryptPayload([DemoPayload(c) EXCEPT
                                 !.telegram_id = Field("digits", DemoUser),
                                 !.created_at = Field("digits", WrongTypesTime)])
  <2>1. t.payload.created_at.value = WrongTypesTime
    BY <1>5 DEF EncryptPayload, DemoPayload, Field
  <2>2. TokenExpired(t.payload, time)
    BY <2>1, WrongTypesStale, MockConstants, TokenConstants DEF TokenExpired
  <2> QED BY <2>2 DEF VerifyToken
<1> QED BY <1>1, <1>2, <1>3, <1>4, <1>5 DEF BadExamples

(* The examples of the issuer are what its comments call them, at whatever    *)
(* age they are tried.                                                        *)
THEOREM ExamplesTrue == TokenSpec => []ExamplesAsNamed
<1>1. TokenInv => ExamplesAsNamed
  <2> SUFFICES ASSUME TokenInv, NEW at \in 0 .. now
               PROVE  /\ \A fixed \in {Null} \union 0 .. at :
                            LET createdAt == ExamplesCreatedAt(fixed, at)
                            IN  /\ VerifyToken(ValidToken(createdAt), now) # Null
                                     <=> now <= createdAt + TokenTtl
                                /\ \A t \in BadExamples(createdAt) :
                                      VerifyToken(t, now) = Null
                      /\ \A asked \in {Null, 0} :
                            VerifyToken(IssueToken(DemoPayload(at), asked, at), now) # Null
                               <=> now <= at + TokenTtl
    BY DEF ExamplesAsNamed
  <2>1. now \in Nat /\ at \in Nat /\ at <= now
    BY DEF TokenInv
  <2>2. ASSUME NEW fixed \in {Null} \union 0 .. at
        PROVE  /\ ExamplesCreatedAt(fixed, at) \in Int
               /\ ExamplesCreatedAt(fixed, at) <= now
    BY <2>1, <2>2 DEF ExamplesCreatedAt
  <2>3. ASSUME NEW asked \in {Null, 0}
        PROVE  IssueToken(DemoPayload(at), asked, at) = ValidToken(at)
    BY <2>3 DEF IssueToken, ValidToken, DemoPayload
  <2> QED BY <2>1, <2>2, <2>3, DemoAccepted, BadExamplesRefused
<1> QED BY <1>1, TokenInvariance, PTL
=============================================================================
